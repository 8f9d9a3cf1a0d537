--------------------------- MODULE PrechargedUse ---------------------------
(***************************************************************************)
(* What an account of a scarce resource promises, whatever its rows look   *)
(* like: use is paid for beforehand.  An amount is reserved, uses stay     *)
(* within it, and settling books at least what was used and frees the      *)
(* rest.  What is booked is never given back, and at no moment is more     *)
(* used than is booked or reserved, so a reader that knows only the saved  *)
(* rows is never told too little.                                          *)
(***************************************************************************)
EXTENDS Naturals

VARIABLE account   \* of each name: the amounts held, booked and used

Covered(x) == x.used <= x.booked + x.held

\* An account may have a past, all of it settled.
Init == \A a \in DOMAIN account : account[a].held = 0 /\ Covered(account[a])

\* The steps are stated by what they change.
Reserve(x, y) == x.held = 0 /\ y = [x EXCEPT !.held = y.held]
Use(x, y) == y.used > x.used /\ y = [x EXCEPT !.used = y.used] /\ Covered(y)
Settle(x, y) ==
    /\ x.held > 0 /\ y.held = 0
    /\ y.booked \in x.booked..(x.booked + x.held) /\ y.used = x.used
    /\ Covered(y)

\* One account moves at a time.
Step(old, new) ==
    /\ old # new /\ DOMAIN old = DOMAIN new
    /\ \E a \in DOMAIN old :
        /\ new = [old EXCEPT ![a] = new[a]]
        /\ \/ Reserve(old[a], new[a])
           \/ Use(old[a], new[a])
           \/ Settle(old[a], new[a])

Next == Step(account, account')

Spec == Init /\ [][Next]_account
=============================================================================

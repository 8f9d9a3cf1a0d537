---------------------------- MODULE ContentReads ----------------------------
(***************************************************************************)
(* The two stores that account for reading files: the hash store with its  *)
(* publications and the sample store.  They keep separate databases, locks *)
(* and budgets and share nothing, so a behaviour is about one of them, the *)
(* one that "setup" names.                                                 *)
(***************************************************************************)
EXTENDS FreshJobs, SampleStore

ASSUME ContentReadsAssumption == "samples" \in DOMAIN Setups

contentVars == <<allVars, sampleVars>>

ContentInit == PubInit /\ SampleInit

ContentNext ==
  \/ setup # "samples" /\ PubNext /\ UNCHANGED sampleVars
  \/ setup = "samples" /\ SampleNext /\ UNCHANGED allVars

ContentSpec == ContentInit /\ [][ContentNext]_contentVars

\* The saved books of every namespace are an account of reads paid for
\* beforehand: an amount is reserved before a byte is requested, a settlement, a
\* recovery after a crash or an uncertain commit books at least what was
\* requested, and nothing booked is ever given back (recoverHashWork: "never
\* ... refunds unknown consumption"; SampleBudget: "a permanent allowance").
Books ==
  INSTANCE PrechargedUse WITH account <-
    [sp \in Spaces \cup {"samples"} |->
       IF sp \in Spaces
       THEN [held |-> Outstanding(sp), booked |-> ns[sp].budget.treq + ns[sp].budget.tunk,
             used |-> consumed[sp]]
       ELSE [held |-> sampleBudget.tout, booked |-> sampleBudget.treq + sampleBudget.tunk,
             used |-> used.bytes]]
ReadsPrecharged == Books!Spec
=============================================================================

--------------------------- MODULE MCContentReads ----------------------------
EXTENDS ContentReads

Plain(works) == [w \in works |-> w]

\* A selection alone: a completed file of one partial block, and one of a block
\* and a tail; consent may be revoked.
MCAlone ==
  [works |-> {1, 2}, done |-> {1}, jobs |-> {}, size |-> <<1, 3>>,
   plainLimit |-> 3, readLimits |-> {[daily |-> 3, life |-> 6]}, sharedLimit |-> 3,
   budgeted |-> {"original"}, revocable |-> {"original"}, plainTotal |-> 4, dayLen |-> 2, maxTime |-> 2,
   roles |-> {}, digest |-> Plain({1, 2}), inode |-> Plain({1, 2})]

\* A selection and a fresh job: two files of one partial block, read under
\* consents that last, within one daily budget.
MCShared ==
  [works |-> {1, 2}, done |-> {1}, jobs |-> {"job"}, size |-> <<1, 1>>,
   plainLimit |-> 2, readLimits |-> {[daily |-> 1, life |-> 2]}, sharedLimit |-> 1,
   budgeted |-> {"original", "job"}, revocable |-> {}, plainTotal |-> 1, dayLen |-> 1, maxTime |-> 1,
   roles |-> {}, digest |-> Plain({1, 2}), inode |-> Plain({1, 2})]

\* Two completed copies and one that is still to be hashed; choices and jobs are
\* published while it is.
MCPublish ==
  [works |-> {1, 2, 3}, done |-> {1, 2}, jobs |-> {}, size |-> <<1, 1, 1>>,
   plainLimit |-> 3, readLimits |-> {[daily |-> 3, life |-> 3]}, sharedLimit |-> 3,
   budgeted |-> {}, revocable |-> {}, plainTotal |-> 3, dayLen |-> 1, maxTime |-> 1,
   roles |-> {<<1, 2>>, <<3, 1>>}, digest |-> [w \in 1..3 |-> "same"], inode |-> Plain(1..3)]

\* Policies the batch fits, and does not fit, in.
MCSamplePolicies == {[daily |-> 2, life |-> 3], [daily |-> 1, life |-> 3]}

\* Behaviours of the sample store: the hash store rests.
MCSetups == [alone |-> MCAlone, shared |-> MCShared, publish |-> MCPublish, samples |-> MCAlone]
=============================================================================

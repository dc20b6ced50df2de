---------------------------- MODULE MCCleanSession ----------------------------
(* Two targets of one byte and a command line for each way to a prompt       *)
(* or an execution, next to two that have none.                              *)
EXTENDS CleanSession

MCTargets == {"t1", "t2"}
MCOrder == << "t1", "t2" >>
MCLines == {"y", "yes", "n", "blank", "q"} \cup MCTargets

With(S) == [name \in FlagNames |-> name \in S]

MCFlags ==
  {With(S) : S \in {{"receiptFile", "dryRun"}, {"apfs"}, {"dryRun"}, {}, {"guide"}, {"force"},
                    {"interactive"}, {"guide", "force", "receiptFile"}, {"guide", "receiptFile"},
                    {"guide", "interactive", "receiptFile"}, {"json", "force"},
                    {"json", "interactive", "receiptFile"}}}
=============================================================================

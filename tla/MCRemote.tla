--------------------------------- MODULE MCRemote ---------------------------------
(* Small instances of RemoteReads and RemoteCommands for TLC.  The two share  *)
(* no state, so that no behaviour is worth a look in which both take steps.   *)
EXTENDS RemoteReads, RemoteCommands, MCContentStore

all == <<rvars, exchange, side>>

EveryRight == {"Read", "Write", "Delete", "TrashRestore"}
SomeRights == {EveryRight, {"Read"}}
NoMarks == [s \in {} |-> ""]

SomeBatches == {{"mkdir", "purge"}, {"copy", "trash"}}

BothInit ==
  /\ RemoteInit /\ ExchangeInit /\ side \in {"reads", "commands"}
  /\ side = "commands" =>    \* one of the initial files will do
       /\ files[p1].gen = CHOOSE g \in GenIds : TRUE
       /\ \A r \in Readers : reader[r].path = p1
BothNext == \/ side = "reads" /\ RemoteNext /\ UNCHANGED <<exchange, side>>
            \/ side = "commands" /\ ExchangeNext /\ UNCHANGED <<rvars, side>>
BothSpec == BothInit /\ [][BothNext]_all /\ RemoteFairness
================================================================================

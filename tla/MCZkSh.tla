------------------------------- MODULE MCZkSh -------------------------------
(* Instances of ZkSh for TLC. *)
EXTENDS ZkSh

CONSTANTS p1, p2, p3

\* Three users at their terminals.
Flat == [p \in Procs |-> Nobody]

\* p3 is invoked by the script of p1, as crontab_autocommit invokes zkctl.
CrontabNesting == [p \in Procs |-> IF p = p3 THEN p1 ELSE Nobody]

UserOptions == {<<"s">>, <<"r">>, <<"w">>}
AnyOptions == UserOptions \cup {<<"d">>, <<"v", "w">>, <<"s", "w">>, <<"w", "r">>}
SafeOnly == {<<"s">>}

OneReader == [s \in Semaphores |-> 1]
ManyReaders == [s \in Semaphores |-> IF s = ZKSH_WRITE_LOCK THEN 1 ELSE 2]
=============================================================================

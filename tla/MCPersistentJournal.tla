------------------------ MODULE MCPersistentJournal ------------------------
EXTENDS PersistentJournal, TLC

CONSTANTS a1, a2, a3, t1, t2, f1

Three == {a1, a2, a3}
TwoThreads == {t1, t2}
Processes == (a1 :> 1) @@ (a2 :> 2) @@ (a3 :> 2)
Syncs == (a1 :> "none") @@ (a2 :> "flush") @@ (a3 :> "flush")
Migrator == {a3}
Torn == {"torn"}
Anywhere == {"torn", "stop"}
Old(end) == [rec |-> [op |-> "assert", fact |-> f1], head |-> "old", end |-> end]
NewJournal == {<<>>}
AnyJournal == {<<>>, <<Old("nl")>>, <<Old("nl"), Old("torn")>>}
Depths == (t1 :> 2) @@ (t2 :> 0)
============================================================================

----------------------------- MODULE MCWfsLocks -----------------------------
(* TLC instances of WfsLocks: filters, and scripts of one to three operations. *)
EXTENDS WfsLocks, TLC

Everything == [ids |-> Ids, vals |-> Vals]
ById(i) == [ids |-> {i}, vals |-> Vals]
ByVal(v) == [ids |-> Ids, vals |-> {v}]

MCLockFilters == {ById(1), ByVal("a")}
FirstFilter == {ById(1)}

OpOf(kind, l, f, i, v) ==
    [kind |-> kind, layer |-> l, filter |-> f, id |-> i, val |-> v]

Update(l, f, v) == OpOf("Update", l, f, 1, v)
Delete(l, f) == OpOf("Delete", l, f, 1, "a")
Insert(l, i, v) == OpOf("Insert", l, Everything, i, v)

MCScripts ==
    UNION {{ << Update(l, ById(1), "b"), Update(l, ByVal("b"), "a") >>,
             << Delete(l, ByVal("a")) >>, << Insert(l, 2, "b") >>} : l \in Layers}

\* Inserts before and after what a lock may refuse, and a row that is replaced.
RetryScripts ==
    MCScripts \cup
    UNION {{ << Insert(l, 2, "b"), Update(l, ById(1), "b") >>,
             << Update(l, ById(1), "b"), Insert(l, 2, "b"), Delete(l, ByVal("a")) >>,
             << Delete(l, ById(1)), Insert(l, 1, "b") >>} : l \in Layers}

Symmetry == Permutations(Txs) \cup Permutations(Lockers) \cup Permutations(LockIds)

ATable == [l \in Layers |-> "roads"]
=============================================================================

----------------------------- MODULE MCSqlStorage -----------------------------
(* Small instances of SqlStorage for TLC.                                  *)
EXTENDS SqlStorage, TLC

CONSTANTS c1, c2, c3, j1, j2, j3

Revocation(j) == <<"revocation", j>>
Edge(p, j) == <<"edge", p, j>>
Token == <<"token", j1>>
Subject == <<"subject", "hash">>
Status == <<"approval", "status">>
Child == <<"approval", "child">>
Action == <<"action", "state">>
AuditRows == {<<"audit", 1>>, <<"audit", 2>>}

MCKeys ==
    {Revocation(j) : j \in Jti} \cup {Edge(p, j) : p, j \in Jti} \cup AuditRows
    \cup {Token, Subject, Status, Child, Action}
MCValues == {"row", "pending", "approved", "OPEN", "CLEAN"} \cup Caller

All(v, keys) == [k \in keys |-> v]
Req(op, put) == [op |-> op, put |-> put, root |-> None]
WalkFrom(j) == [op |-> "descendants", put |-> All("row", {}), root |-> j]
RevokeAll(jtis) == Req("revoke_many", All("row", {Revocation(j) : j \in jtis}))
Look(keys) == Req("read", All("row", keys))

Calls(a, b, c) == (c1 :> a) @@ (c2 :> b) @@ (c3 :> c)

(* A walk of a tree that grows, at its end and by a cycle.                 *)
GrowingTree ==
    [rows |-> {<<Edge(j1, j2), "row">>},
     asks |-> Calls({WalkFrom(j1)},
                    {Req("add_edge", All("row", {Edge(j2, j3)})),
                     Req("add_edge", All("row", {Edge(j3, j1)}))},
                    {Req("add_edge", All("row", {Edge(j2, j3)}))}),
     calls |-> Calls(1, 2, 1)]

(* Two subtrees that overlap are revoked, and their common token asked for.*)
Overlap ==
    [rows |-> {},
     asks |-> Calls({RevokeAll({j1, j2})}, {RevokeAll({j2, j3})},
                    {Req("is_revoked", All("row", {Revocation(j2)})),
                     Look({Revocation(j1), Revocation(j2)})}),
     calls |-> Calls(1, 1, 1)]

(* Three first resolutions of one subject.                                 *)
FirstSight ==
    LET subject == {Req("get_or_create_subject", All("row", {Subject}))} IN
    [rows |-> {}, asks |-> Calls(subject, subject, subject), calls |-> Calls(1, 1, 2)]

(* The same token is put twice; a batch of audit rows is read.             *)
Minting ==
    LET put == Req("put_token", All("row", {Token})) IN
    [rows |-> {},
     asks |-> Calls({put, Req("append_audit_batch", All("row", AuditRows))}, {put},
                    {Look({Token}), Look(AuditRows)}),
     calls |-> Calls(1, 1, 1)]

(* One caller opens, closes and decides; the others read the records.      *)
Updating ==
    [rows |-> {<<Status, "pending">>, <<Child, "pending">>},
     asks |-> Calls({Req("update_approval", (Status :> "approved") @@ (Child :> "row")),
                     Req("put_action", All("OPEN", {Action})),
                     Req("close_action", All("CLEAN", {Action}))},
                    {Look({Status, Child}), Look({Action})}, {}),
     calls |-> Calls(2, 1, 0)]

AllScenarios == {GrowingTree, Overlap, FirstSight, Minting, Updating}
OverlapOnly == {Overlap}
MCRequest == UNION {s.asks[c] : s \in AllScenarios, c \in Caller}
=============================================================================

-------------------------- MODULE MCAttemptReceipts --------------------------
(***************************************************************************)
(* A request with a root and a retry, whose receipts may contradict each   *)
(* other, and a second request that lets the first one expire.             *)
(***************************************************************************)
EXTENDS AttemptReceipts

CONSTANTS r1, r2, a, b, root, retry

Receipt(token, q, kind) ==
  [id |-> token, scope |-> q, kind |-> kind, digest |-> None, token |-> None, revision |-> None,
   phase |-> None, count |-> None, parent |-> None, parentToken |-> None]

Pinned(d) ==
  [Receipt(root, <<r1, 0>>, "selection") EXCEPT !.digest = d, !.token = root, !.revision = 1,
                                                !.phase = "pin_at_acceptance"]
Inherited ==
  [Receipt(retry, <<r1, 1>>, "selection") EXCEPT
     !.digest = a, !.token = retry, !.revision = 1, !.phase = "inherit", !.parent = <<r1, 0>>,
     !.parentToken = root]
Loaded(d) == [Receipt(d, <<r1, 1>>, "load") EXCEPT !.digest = d, !.token = retry]
ClosedWith(n) == [Receipt(r1, <<r1, 1>>, "closure") EXCEPT !.count = n]

MCDeliveries ==
  {<<r1, r>> : r \in {Pinned(a), Pinned(b), Inherited, Loaded(a), Loaded(b), ClosedWith(0),
                      ClosedWith(1)}}
MCRecords == {d[2] : d \in MCDeliveries}

MCServices ==
  {[request |-> r1, attempts |-> {0, 1}, queries |-> {1}],
   [request |-> r2, attempts |-> {0}, queries |-> {0}]}

MCContracts ==
  {[policy |-> "pin_at_acceptance", retry |-> "inherit", domain |-> {a, b}],
   [policy |-> "resolve_at_load", retry |-> "inherit", domain |-> {a, b}],
   [policy |-> "pin_at_acceptance", retry |-> "reselect", domain |-> {a, b}]}
=============================================================================

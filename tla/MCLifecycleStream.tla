-------------------------- MODULE MCLifecycleStream --------------------------
(* A bounded world of payloads: two genesis events and what may follow them  *)
(* for two more steps, foreign payloads, and chain errors.                   *)
EXTENDS DomainLog, FiniteSetsExt

CONSTANTS ae, k1, k2, x, none, noKey

MCOwnKeys == {ae, k1, k2}
MCOtherKeys == {x}

P(type, seq, prev, state, ek, prevKey, key, time) ==
  [type |-> type, seq |-> seq, prev |-> prev, state |-> state, ek |-> ek,
   prevKey |-> prevKey, key |-> key, time |-> time]
Unborn == [status |-> "none", op |-> noKey]
Active(k) == [status |-> "ACTIVE", op |-> k]

Issued == P("ISSUANCE", 0, none, Unborn, ae, noKey, k1, 1)
Imported == P("ISSUANCE", 0, none, Unborn, ae, noKey, k2, 1)
Migrated == P("MIGRATION", 0, none, Unborn, noKey, noKey, k2, 2)

Genesis == {Issued, Migrated,
            P("ISSUANCE", 0, none, Unborn, x, noKey, x, 1),
            P("MIGRATION", 0, none, Unborn, noKey, noKey, noKey, 1)}

Other(k) == IF k = k1 THEN k2 ELSE k1

Follow(e, k) ==
  {P("KEY_ROTATION", e.seq + 1, e, Active(k), noKey, k, Other(k), t) : t \in {2, 3}}
  \cup {P("DELEGATION", e.seq + 1, e, Active(k), noKey, noKey, noKey, t) : t \in {1, 3}}
  \cup {P(t, e.seq + 1, e, Active(k), noKey, noKey, noKey, 3) : t \in {"REVOCATION", "RETIREMENT"}}

OpAfter(e, k) == IF e.key = noKey THEN k ELSE e.key

Second == UNION {Follow(e, e.key) : e \in {Issued, Migrated}}
Third == UNION {Follow(e, OpAfter(e, e.prev.key)) : e \in
                 {f \in Second : f.prev = Issued /\ f.type \in {"KEY_ROTATION", "DELEGATION"}}}
Foreign == {P("KEY_ROTATION", 1, Issued, Active(k1), noKey, k1, x, 2),
            P("REVOCATION", 5, none, Unborn, noKey, noKey, noKey, 2)}

World == Genesis \cup Second \cup Third \cup Foreign \cup {Imported}

(* An event is its number in a listing of that world.                        *)
Listing == FoldSet(LAMBDA p, listed : Append(listed, p), <<>>, World)
Number(p) == CHOOSE i \in DOMAIN Listing : Listing[i] = p
MCEvents == DOMAIN Listing
MCPayload ==
  [i \in MCEvents |-> [Listing[i] EXCEPT !.prev = IF @ = none THEN none ELSE Number(@)]]
MCPrior == [i \in MCEvents |-> IF Listing[i] = Migrated THEN <<Number(Imported)>> ELSE <<>>]
=============================================================================

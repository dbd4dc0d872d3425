--------------------------- MODULE MCAuditorStore ---------------------------
(* Two tenants with a device of the same name; a required rule and one that *)
(* may be skipped, with two objects. The earlier store holds the same       *)
(* finding for both tenants, accepted by both.                              *)
EXTENDS AuditorStore, TLC

CONSTANTS p1, p2, t1, t2, a, b, c

MCRule == a :> "required" @@ b :> "optional" @@ c :> "optional"
S(gate, ev, hits) == [gate |-> gate, evaluated |-> ev, hits |-> hits]
MCSnapshots ==
    {S(FALSE, Rules, {a, b}), S(FALSE, Rules, {a, c}), S(FALSE, {"required"}, {}),
     S(FALSE, {"optional"}, {}), S(TRUE, Rules, {a})}
MCCommands == {[policy |-> "plain", collect |-> TRUE], [policy |-> "strict", collect |-> FALSE]}
Old(t, hits) ==
    [tenant |-> t, policy |-> "plain", gate |-> FALSE, evaluated |-> Rules,
     found |-> {Row(1, t, f) : f \in hits}, attempt |-> 0]
MCEarlier ==
    {[runs |-> <<Old(t, {a, b}), Old(u, {a})>>,
      baseline |-> {[tenant |-> v, fp |-> Fingerprint(1, v, a)] : v \in Tenants}] :
        <<t, u>> \in {<<t1, t2>>, <<t2, t1>>}}
Symmetry == Permutations(Procs) \cup Permutations(Tenants)
=============================================================================

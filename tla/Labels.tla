------------------------------ MODULE Labels ------------------------------
(***************************************************************************)
(* The label algebra of the Oak Runtime: Label.flows_to (oak_abi, modelled *)
(* from spec 3), public_untrusted, top, and NodePrivilege::downgrade_label *)
(* and top_privilege (oak_runtime lib.rs).                                 *)
(***************************************************************************)
EXTENDS FiniteSets, Naturals

CONSTANTS
    Tags,   \* ordinary tags (model values)
    Top     \* the distinguished tag top()

AllTags == Tags \cup {Top}
Label == [conf : SUBSET AllTags, integ : SUBSET AllTags]
Privilege == [declassify : SUBSET AllTags, endorse : SUBSET AllTags]

\* L1.flows_to(L2): no confidentiality tag is dropped, no integrity tag
\* is gained.
flows_to(l1, l2) == l1.conf \subseteq l2.conf /\ l2.integ \subseteq l1.integ

public_untrusted == [conf |-> {}, integ |-> {}]

top_privilege == [declassify |-> {Top}, endorse |-> {Top}]

\* Mutant: the `top` shortcut is missing; only listed tags are removed.
downgrade_label_notop(p, l) ==
    [conf |-> l.conf \ p.declassify, integ |-> l.integ \cup p.endorse]

\* Remove every confidentiality tag the privilege may declassify (all of
\* them with `top`), add every integrity tag it may endorse.
downgrade_label(p, l) ==
    [conf  |-> IF Top \in p.declassify THEN {} ELSE l.conf \ p.declassify,
     integ |-> l.integ \cup p.endorse]

\* get_effective_label: the privilege is applied only when asked for.
effective_label(p, l, downgrade) == IF downgrade THEN downgrade_label(p, l) ELSE l

\* From<NodePrivilege> for Label: the privilege read back as a label, its
\* declassifiable tags as confidentiality, its endorsable ones as integrity.
privilege_label(p) == [conf |-> p.declassify, integ |-> p.endorse]

\* Label::encoded_len, the length of the protobuf encoding: each tag is a
\* length-delimited field (a key byte, a length byte and the Tag message,
\* taken as one byte here since tags are opaque); the label with no tags
\* encodes to no bytes at all.
encoded_len(l) == 3 * (Cardinality(l.conf) + Cardinality(l.integ))

\* serialize_label: NeedsCapacity(size) when the encoding does not fit,
\* else the encoding (which decodes back to the label; the encode into a
\* Vec of that capacity cannot fail, so ErrInternal is not reached).
serialize_label(l, capacity) ==
    IF encoded_len(l) > capacity
    THEN [status |-> "NeedsCapacity", size |-> encoded_len(l)]
    ELSE [status |-> "Success", size |-> encoded_len(l), decoded |-> l]

=============================================================================

------------------------------ MODULE MC_Labels ------------------------------
(* Every privilege and every label over two tags and top.                  *)
EXTENDS Labels

CONSTANTS s, t

VARIABLES priv, lbl
vars == <<priv, lbl>>

Init == priv \in Privilege /\ lbl \in Label

\* A Node with privilege `priv` downgrades `lbl`; any other pair may be next.
Downgrade == priv' \in Privilege /\ lbl' \in Label

Spec == Init /\ [][Downgrade]_vars

\* Reference: a label the privilege can reach from `l` by removing some
\* declassifiable confidentiality tags (any, with top) and adding some
\* endorsable integrity tags.
Reachable(p, l) ==
    {r \in Label :
        /\ r.conf \subseteq l.conf
        /\ Top \notin p.declassify => l.conf \ r.conf \subseteq p.declassify
        /\ l.integ \subseteq r.integ
        /\ r.integ \subseteq l.integ \cup p.endorse}

\* downgrade_label returns "the least restrictive label this Node may
\* downgrade to" (doc of get_node_downgraded_label): it is reachable and
\* flows to every other reachable label.
DowngradeIsLeast ==
    LET d == downgrade_label(priv, lbl)
    IN  /\ d \in Reachable(priv, lbl)
        /\ \A r \in Reachable(priv, lbl) : flows_to(d, r)

=============================================================================

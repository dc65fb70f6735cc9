---------------------------- MODULE MCCompletion ----------------------------
(* Instances of Completion for TLC.                                        *)
EXTENDS Completion

CONSTANTS p1, p2, p3, s1, s2

\* p1 and p2 are peers of s1, p3 of s2.
MCSessionOf == [p \in Contacts |-> IF p = p3 THEN s2 ELSE s1]

MCSessionList == IF s2 \in Sessions THEN <<s1, s2>> ELSE <<s1>>
=============================================================================

----------------------------- MODULE MCLinuxDo -----------------------------
(***************************************************************************)
(* Small instances of LinuxDo for TLC.                                     *)
(***************************************************************************)
EXTENDS LinuxDo, TLC

CONSTANTS draft, edited, a, b

\* The edited post has another title and mentions a second name; rule 2 accepts
\* what rule 1 did not and the other way round.
TitleOf == [c \in Contents |-> c]
MentionedIn == [c \in Contents |-> IF c = draft THEN {a} ELSE Names]
PromotedBy == [p \in Rules \X Contents |->
                 IF (p[1] = 1) = (p[2] = draft) THEN MentionedIn[p[2]] ELSE {}]

\* One rule that accepts every name.
AllPromoted == [p \in Rules \X Contents |-> MentionedIn[p[2]]]

Symmetric == Permutations(Topics) \cup Permutations(Repos)
             \cup Permutations(Readers) \cup Permutations(Facts)

=============================================================================

------------------------------ MODULE MCChain ------------------------------
(***************************************************************************)
(* Small instances of Chain.                                               *)
(***************************************************************************)
EXTENDS Chain

\* Members and proposals are numbered from 1; ids fall on the seats' strides
\* in turn (mint_proposal_id).
MCMinter == [p \in Proposal |-> ((p - 1) % Cardinality(Member)) + 1]

\* Who may come to approve: anybody, or anybody but the proposer.
Everyone == [p \in Proposal |-> Member]
Others == [p \in Proposal |-> Member \ {MCMinter[p]}]

\* A bound on how far two branches grow together: three blocks against one and
\* two against two are followed, with the third vote in flight; longer ones are
\* checked but not followed.
FourBlocks == Len(node[1].chain) + Len(node[2].chain) <= 4

\* A link hash is an arbitrary total order on the blocks that contend for a
\* slot.  This one ranks them by the attesting names, then by descending id,
\* so that neither the first proposal nor the lowest names win throughout.
Mask(S) == LET f[T \in SUBSET S] ==
                   IF T = {} THEN 0
                   ELSE LET x == CHOOSE y \in T : TRUE IN 2 ^ x + f[T \ {x}]
           IN  f[S]

NamesThenId(b, c) ==
    LET x == b[Len(b)]
        y == c[Len(c)]
    IN  Mask(x.by) * 100 - x.id < Mask(y.by) * 100 - y.id
=============================================================================

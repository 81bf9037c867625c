----------------------------- MODULE RecencyList -----------------------------
(***************************************************************************)
(* What a block cache promises: the blocks inserted last or asked for      *)
(* last, most recent first, as many as the capacity allows.  How the list  *)
(* is linked, which slot a block has and how a key finds it cannot be      *)
(* seen.  Module LruCache implements this.                                 *)
(***************************************************************************)
EXTENDS Naturals, Sequences

CONSTANT Capacity

VARIABLE recent     \* <<id, block>> pairs, most recent first, one of an id

RemovedAt(s, i) == [j \in 1..(Len(s) - 1) |-> IF j < i THEN s[j] ELSE s[j + 1]]

\* Without the pair of id, if there is one.
Without(s, id) ==
    LET At == {i \in 1..Len(s) : s[i][1] = id}
    IN  IF At = {} THEN s ELSE RemovedAt(s, CHOOSE i \in At : TRUE)

ShortenTo(s, n) == SubSeq(s, 1, IF Len(s) < n THEN Len(s) ELSE n)

RecentInit == recent = << >>

\* A block that is there moves to the front.
Touch(i) == recent' = <<recent[i]>> \o Without(recent, recent[i][1])

\* Some block goes in, in the place of an older one of its id; the least recent falls out.
Put ==
    /\ recent' # << >>
    /\ recent' = ShortenTo(<<recent'[1]>> \o Without(recent, recent'[1][1]), Capacity)

Drop(i) == recent' = Without(recent, recent[i][1])

DropAll == recent' = << >>

RecentNext ==
    \/ \E i \in 1..Len(recent) : Touch(i) \/ Drop(i)
    \/ Put
    \/ DropAll

RecencySpec == RecentInit /\ [][RecentNext]_recent
=============================================================================

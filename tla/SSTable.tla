------------------------------- MODULE SSTable -------------------------------
(***************************************************************************)
(* The format of a table file (src/src/sstable): entries in ascending      *)
(* order are cut into blocks, behind which come a Bloom filter, an index   *)
(* of the blocks' first keys and offsets, and a footer that says where     *)
(* those are.  A reader finds an entry through filter, index and block.    *)
(*                                                                         *)
(* A file is a sequence of cells in the place of bytes: one for an entry,  *)
(* one for the trailer of a block (how many entries it has), one each for  *)
(* filter, index and footer.  Offsets count the cells in front.            *)
(***************************************************************************)
EXTENDS Integers, Sequences, FiniteSets

CONSTANTS
    Keys,           \* integers
    Values,
    Tombstone,
    BlockSize,      \* options.block_size, in units of EntrySize
    BitsPerKey,     \* options.bloom_bits_per_key
    NotFound        \* Ok(None)

ASSUME BuilderOptions == BlockSize \in Nat \ {0} /\ BitsPerKey \in Nat

\* A table has finitely many entries, and their keys are ordered.
ASSUME KeysAreFinite == Keys \subseteq Int /\ IsFiniteSet(Keys)

Contents == Values \cup {Tombstone}
Entry == [key : Keys, value : Contents]

\* A tombstone has no value to store.
EntrySize(e) == IF e.value = Tombstone THEN 1 ELSE 2

-----------------------------------------------------------------------------
(* BloomFilter.  Eight bits stand for the 32 of a hash, and 16 for the     *)
(* least number of bits of a filter, 64.                                   *)

Word == 256
MinBits == 16

\* crc32fast::hash
Hash(k) == (37 * k + 11) % Word
Rotated(h) == (8 * h + h \div 32) % Word

\* bits_per_key * ln 2, rounded, within 1..30
HashCount == LET k == (BitsPerKey * 693 + 500) \div 1000
             IN  IF k < 1 THEN 1 ELSE IF k > 30 THEN 30 ELSE k

BitPositions(k, hashes, bits) ==
    {((Hash(k) + n * Rotated(Hash(k))) % Word) % bits : n \in 0..(hashes - 1)}

NoFilter == [bits |-> 0, hashes |-> 0, set |-> {}]

\* build_from_keys
BuildFilter(keys) ==
    IF keys = {} THEN NoFilter
    ELSE LET wanted == IF Cardinality(keys) * BitsPerKey < MinBits THEN MinBits
                       ELSE Cardinality(keys) * BitsPerKey
             bits == 8 * ((wanted + 7) \div 8)
         IN  [bits |-> bits, hashes |-> HashCount,
              set |-> UNION {BitPositions(k, HashCount, bits) : k \in keys}]

MayContain(f, k) == f.bits = 0 \/ BitPositions(k, f.hashes, f.bits) \subseteq f.set

-----------------------------------------------------------------------------
(* TableBuilder                                                            *)

NewBuilder ==
    [cells |-> << >>, current |-> << >>, size |-> 0,
     offsets |-> << >>, first |-> << >>, keys |-> {}]

\* Block::encode: the entries, then where they are and how many.
Encode(entries) == Append(entries, [count |-> Len(entries)])

FlushBlock(b) ==
    IF b.current = << >> THEN b
    ELSE [b EXCEPT !.cells = @ \o Encode(b.current), !.offsets = Append(@, Len(b.cells)),
                   !.current = << >>, !.size = 0]

\* add: an entry that fills the block has it written.
AddEntry(b, e) ==
    LET c == [b EXCEPT !.first = IF b.current = << >> THEN Append(@, e.key) ELSE @,
                       !.keys = @ \cup {e.key},
                       !.size = @ + EntrySize(e),
                       !.current = Append(@, e)]
    IN  IF c.size >= BlockSize THEN FlushBlock(c) ELSE c

\* Faulty: the entries that do not fill a block are left out.
FinishFullOnly(b) ==
    LET n == Len(b.cells)
        k == Len(b.offsets)
    IN  b.cells \o << [filter |-> BuildFilter(b.keys)],
                      [first |-> SubSeq(b.first, 1, k), offsets |-> b.offsets],
                      [filterAt |-> n, indexAt |-> n + 1] >>

\* finish: the last block, the filter, the index and the footer.
Finish(b) ==
    LET c == FlushBlock(b)
        n == Len(c.cells)
    IN  c.cells \o << [filter |-> BuildFilter(c.keys)],
                      [first |-> c.first, offsets |-> c.offsets],
                      [filterAt |-> n, indexAt |-> n + 1] >>

\* The builder after each of the entries.
Added(entries) ==
    LET after[n \in 0..Len(entries)] ==
          IF n = 0 THEN NewBuilder ELSE AddEntry(after[n - 1], entries[n])
    IN  after

\* The file of a sequence of entries.
TableFile(entries) == Finish(Added(entries)[Len(entries)])

-----------------------------------------------------------------------------
(* TableReader and Block                                                   *)

\* open_with_cache reads the footer, and through it the filter and the index.
OpenTable(file) ==
    LET footer == file[Len(file)]
    IN  [file |-> file, filter |-> file[footer.filterAt + 1].filter,
         first |-> file[footer.indexAt + 1].first, offsets |-> file[footer.indexAt + 1].offsets,
         filterAt |-> footer.filterAt]

\* The block whose first key is the last not above k; the first one for keys below all.
BlockFor(r, k) ==
    LET upTo == Cardinality({i \in 1..Len(r.first) : r.first[i] <= k})
    IN  IF upTo = 0 THEN 1 ELSE upTo

\* The cells of a block: up to the next block, or the filter.
RawBlock(r, i) ==
    SubSeq(r.file, r.offsets[i] + 1,
           IF i < Len(r.offsets) THEN r.offsets[i + 1] ELSE r.filterAt)

\* Block::decode: the trailer says how many entries there are.
Decode(cells) == SubSeq(cells, 1, cells[Len(cells)].count)

\* A turn of the bisection: the entry in the middle is below k, or it is not.
Bisected(block, k, range) ==
    LET mid == range.low + (range.high - range.low) \div 2 IN
    IF range.low >= range.high THEN range
    ELSE IF block[mid].key < k THEN [low |-> mid + 1, high |-> range.high]
    ELSE [low |-> range.low, high |-> mid]

\* The ranges after each turn, of which there are not more than entries.
Bisection(block, k) ==
    LET turn[n \in 0..Len(block)] ==
          IF n = 0 THEN [low |-> 1, high |-> Len(block) + 1] ELSE Bisected(block, k, turn[n - 1])
    IN  turn

\* The first entry not below k.
LowerBound(block, k) == Bisection(block, k)[Len(block)].low

GetByKey(block, k) ==
    LET i == LowerBound(block, k)
    IN  IF i <= Len(block) /\ block[i].key = k THEN block[i].value ELSE NotFound

\* The entries of the first n blocks, for each n.
ReadUpTo(r) ==
    LET upTo[n \in 0..Len(r.offsets)] ==
          IF n = 0 THEN << >> ELSE upTo[n - 1] \o Decode(RawBlock(r, n))
    IN  upTo

ReadAllEntries(r) == ReadUpTo(r)[Len(r.offsets)]
=============================================================================

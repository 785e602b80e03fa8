----------------------------- MODULE MerkleStore -----------------------------
(***************************************************************************)
(* What the library answers a Ledger that asks for parts of a PSBT, a      *)
(* message or a wallet policy: the Merkle trees of                         *)
(* bhwi/src/ledger/merkle.rs and the DelegatedStore of                     *)
(* bhwi/src/ledger/store.rs, with the queue of what did not fit an answer. *)
(*                                                                         *)
(* Abstracted: the hash of an element is the element, and the hash of a    *)
(* tree is the sequence of its leaves, whose length fixes the tree's       *)
(* shape.  An element is a tag, a length in bytes and, for the commitment  *)
(* of a map, the two lists it commits to.  The sizes of the protocol are   *)
(* constants, so that they can be small.                                   *)
(***************************************************************************)
EXTENDS Naturals, Sequences

CONSTANTS
  MaxData,   \* bytes of an APDU: 255
  HashLen,   \* bytes of a hash: 32
  VarLen,    \* bytes of an element's length: 1, or 3 from 253 on
  MaxProof,  \* hashes in a first answer: 6
  MaxMore    \* bytes in a further answer: 253

\* The sizes of the code fit: 226, 255 and 255 bytes.
ASSUME SizesAssumption ==
  /\ {MaxData, HashLen, VarLen, MaxProof, MaxMore} \subseteq Nat \ {0}
  /\ HashLen * (1 + MaxProof) + 2 <= MaxData
  /\ MaxMore + 2 <= MaxData
  /\ HashLen <= MaxMore /\ VarLen + 1 < MaxData

-----------------------------------------------------------------------------
(* merkle.rs                                                               *)

FloorLg(n) == CHOOSE r \in 0..n : 2 ^ r <= n /\ n < 2 ^ (r + 1)

IsPowerOf2(n) == \E r \in 0..n : n = 2 ^ r

\* Asserts that n is greater than 1: the tree of an empty list is not built.
LargestPowerOf2LessThan(n) ==
  CASE n = 2 -> 1
    [] n > 2 /\ IsPowerOf2(n) -> n \div 2
    [] OTHER -> 2 ^ FloorLg(n)

\* Tree::new: the left child of n leaves has this many of them; a leaf has
\* height 0 and a node one more than its left child.
Height[n \in Nat] == IF n <= 1 THEN 0 ELSE Height[LargestPowerOf2LessThan(n)] + 1

\* The hashes on the way from a leaf to the root; indices start at 0.
GetProof(leaves, index) ==
  LET Proof[start \in 0..Len(leaves), size \in 1..Len(leaves), i \in 0..Len(leaves)] ==
        IF size = 1 THEN <<>>
        ELSE LET left == LargestPowerOf2LessThan(size)
                 Hash(from, n) == SubSeq(leaves, from + 1, from + n)
             IN  IF i < 2 ^ Height[left]
                 THEN Append(Proof[start, left, i], Hash(start + left, size - left))
                 ELSE Append(Proof[start + left, size - left, i - 2 ^ Height[left]], Hash(start, left))
  IN  Proof[0, Len(leaves), index]

-----------------------------------------------------------------------------
(* store.rs: the store.                                                    *)

NewStore == [yielded |-> <<>>, queue |-> <<>>, preimages |-> {}, trees |-> {}]

AddKnownPreimage(store, element) == [store EXCEPT !.preimages = @ \cup {element}]

\* A set of lists: in which order they are added makes no difference.
AddKnownLists(store, lists) ==
  [store EXCEPT !.preimages = @ \cup UNION {{list[i] : i \in DOMAIN list} : list \in lists},
                !.trees = @ \cup lists]

AddKnownList(store, elements) == AddKnownLists(store, {elements})

\* A mapping is a sequence of pairs in any order; its trees are in the order of
\* its keys, which differ.
Sorted(mapping) ==
  CHOOSE s \in [DOMAIN mapping -> {mapping[i] : i \in DOMAIN mapping}] :
    \A i, j \in DOMAIN mapping : i < j => s[i][1].tag < s[j][1].tag

Keys(pairs) == [i \in DOMAIN pairs |-> pairs[i][1]]
Values(pairs) == [i \in DOMAIN pairs |-> pairs[i][2]]

\* add_known_mapping: the lists a mapping adds.
MappingLists(mapping) == {Keys(Sorted(mapping)), Values(Sorted(mapping))}

\* get_merkleized_map_commitment: the number of pairs and two roots.
Commitment(mapping) ==
  [tag |-> 0, len |-> 2 * HashLen + VarLen, keys |-> Keys(Sorted(mapping)),
   values |-> Values(Sorted(mapping))]

-----------------------------------------------------------------------------
(* store.rs: the answers.                                                  *)

\* What is left for GET_MORE_ELEMENTS: hashes, or an element's bytes one by one.
HashItem(hash) == [size |-> HashLen, hash |-> hash, byte |-> 0]
ByteItem(element, n) == [size |-> 1, hash |-> <<element>>, byte |-> n]

\* An answer: how many items there are in all, and those it holds.
NoAnswer == [kind |-> "none", of |-> <<>>, total |-> 0, items |-> <<>>]
Answered(store, answer) == [ok |-> TRUE, store |-> store, answer |-> answer]
Refused(store) == [ok |-> FALSE, store |-> store, answer |-> NoAnswer]

\* MUTANT: the byte that says how much of the preimage follows is forgotten.
MaxPayload_NoLength(element) == MaxData - VarLen

MaxPayload(element) == MaxData - VarLen - 1

\* GET_PREIMAGE appends to the queue whatever is in it.
GetPreimage(store, element) ==
  LET bytes == [n \in 1..element.len |-> ByteItem(element, n)]
      size == IF element.len > MaxPayload(element) THEN MaxPayload(element) ELSE element.len
  IN  IF element \notin store.preimages THEN Refused(store)
      ELSE Answered([store EXCEPT !.queue = @ \o SubSeq(bytes, size + 1, element.len)],
                    [kind |-> "preimage", of |-> <<element>>, total |-> element.len,
                     items |-> SubSeq(bytes, 1, size)])

\* GET_MERKLE_LEAF_PROOF: the leaf, and the first hashes of its proof.
GetMerkleLeafProof(store, root, size, index) ==
  LET proof == GetProof(root, index)
      items == [i \in DOMAIN proof |-> HashItem(proof[i])]
      first == IF Len(items) > MaxProof THEN MaxProof ELSE Len(items)
  IN  IF store.queue # <<>> \/ root \notin store.trees \/ index >= size \/ size # Len(root)
      THEN Refused(store)
      ELSE Answered([store EXCEPT !.queue = SubSeq(items, first + 1, Len(items))],
                    [kind |-> "proof", of |-> <<root[index + 1]>>, total |-> Len(items),
                     items |-> SubSeq(items, 1, first)])

\* GET_MERKLE_LEAF_INDEX: where the leaf is first.
GetMerkleLeafIndex(store, root, leaf) ==
  LET found == {i \in DOMAIN root : root[i] = leaf}
  IN  IF root \notin store.trees \/ found = {} THEN Refused(store)
      ELSE Answered(store, [kind |-> "index", of |-> <<leaf>>, items |-> <<>>,
                            total |-> (CHOOSE i \in found : \A j \in found : i <= j) - 1])

\* MUTANT: one item too many is taken off the queue.
Taken_OneMore(queue) ==
  LET fit == MaxMore \div queue[1].size + 1 IN IF fit < Len(queue) THEN fit ELSE Len(queue)

\* As many as fit are sent and taken off the queue.
Taken(queue) == LET fit == MaxMore \div queue[1].size IN IF fit < Len(queue) THEN fit ELSE Len(queue)

\* GET_MORE_ELEMENTS: the queue must hold items of one size.
GetMoreElements(store) ==
  LET queue == store.queue
      fit == MaxMore \div queue[1].size
  IN  IF queue = <<>> \/ \E i \in DOMAIN queue : queue[i].size # queue[1].size THEN Refused(store)
      ELSE Answered([store EXCEPT !.queue = SubSeq(@, Taken(queue) + 1, Len(queue))],
                    [kind |-> "more", of |-> <<>>, total |-> 0,
                     items |-> SubSeq(queue, 1, IF fit < Len(queue) THEN fit ELSE Len(queue))])

\* What a Ledger asks of its client.
ClientCommands == {"Yield", "GetPreimage", "GetMerkleLeafProof", "GetMerkleLeafIndex",
                   "GetMoreElements"}

Execute(store, command) ==
  CASE command.code = "Yield" ->
         Answered([store EXCEPT !.yielded = Append(@, command.yield)], NoAnswer)
    [] command.code = "GetPreimage" -> GetPreimage(store, command.leaf)
    [] command.code = "GetMerkleLeafProof" ->
         GetMerkleLeafProof(store, command.root, Len(command.root), command.index)
    [] command.code = "GetMerkleLeafIndex" -> GetMerkleLeafIndex(store, command.root, command.leaf)
    [] command.code = "GetMoreElements" -> GetMoreElements(store)

\* Bytes of an answer.
AnswerLength(answer) ==
  CASE answer.kind = "preimage" -> VarLen + 1 + Len(answer.items)
    [] answer.kind = "proof" -> HashLen + 2 + HashLen * Len(answer.items)
    [] answer.kind = "more" ->
         2 + (IF answer.items = <<>> THEN 0 ELSE answer.items[1].size * Len(answer.items))
    [] answer.kind = "index" -> 1 + VarLen
    [] OTHER -> 0
=============================================================================

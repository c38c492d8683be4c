-------------------------------- MODULE Trie --------------------------------
(***************************************************************************)
(* A Set and a Map as a persistent hash trie (runtime/src/collection.rs).  *)
(* An entry is the hash its key was put in under, the key and the value.   *)
(* A node takes some bits of the hash a level and holds, for each that     *)
(* some entry below it has, that entry or the node below; where the bits   *)
(* run out the entries that share every bit stand side by side.  Which of  *)
(* the keys it holds are equal to the one asked for is the language's to   *)
(* say, and is handed in as the set alike.                                 *)
(***************************************************************************)
EXTENDS Integers, Sequences, FiniteSets, SequencesExt, TLC

CONSTANTS TrieBits,      \* how many bits of the hash a level takes
          Deepest,       \* where the bits run out
          CollectionHolds        \* how many entries a set or a map holds
ASSUME TrieAssumption == TrieBits \in Nat \ {0} /\ Deepest \in Nat \ {0} /\ CollectionHolds \in Nat

HashRange == 0..(2^Deepest - 1)
Entry(hash, key, value) == [hash |-> hash, key |-> key, value |-> value]

\* A node: the word under each of its bits, or the entries side by side.  A word is an entry or a node below.
Spread(words) == [apart |-> TRUE, words |-> words]
SideBySide(entries) == [apart |-> FALSE, words |-> entries]
AnEntry(entry) == <<"entry", entry>>
Below(node) == <<"below", node>>
NoNode == Spread([bit \in {} |-> 0])
EmptyTrie == [size |-> 0, root |-> NoNode]

BitOf(hash, shift) == (hash \div 2^shift) % 2^TrieBits
SameKey(entry, hash, alike) == entry.hash = hash /\ entry.key \in alike

\* The entries of a node, those under a bit before those under a larger one.
RECURSIVE Gather(_)
GatherWords(words, bits) ==
    FlattenSeq([i \in DOMAIN bits |->
                  IF words[bits[i]][1] = "entry" THEN <<words[bits[i]][2]>> ELSE Gather(words[bits[i]][2])])
Gather(node) ==
    IF node.apart THEN GatherWords(node.words, SetToSortSeq(DOMAIN node.words, <)) ELSE node.words
Entries(trie) == Gather(trie.root)
KeysOf(entries) == [i \in DOMAIN entries |-> entries[i].key]
KeysIn(trie) == KeysOf(Entries(trie))
ValuesOf(entries) == [i \in DOMAIN entries |-> entries[i].value]
ValuesIn(trie) == ValuesOf(Entries(trie))

\* Where among entries side by side one is under an equal key, 0 where none is.
LeastOf(places) == IF places = {} THEN 0 ELSE Min(places)
PositionAlike(entries, hash, alike) == LeastOf({i \in DOMAIN entries : SameKey(entries[i], hash, alike)})

RECURSIVE FindBelow(_, _, _, _)
WordAt(words, at) == IF at \in DOMAIN words THEN <<words[at]>> ELSE <<>>
FindInWord(word, shift, hash, alike) ==
    CASE word = <<>> -> <<>>
      [] word[1][1] = "below" -> FindBelow(word[1][2], shift, hash, alike)
      [] OTHER -> IF SameKey(word[1][2], hash, alike) THEN <<word[1][2]>> ELSE <<>>
FindBelow(node, shift, hash, alike) ==
    IF node.apart THEN FindInWord(WordAt(node.words, BitOf(hash, shift)), shift + TrieBits, hash, alike)
    ELSE WordAt(node.words, PositionAlike(node.words, hash, alike))
\* The entry under a key equal to the one asked for, as a sequence of one.
Find(trie, hash, alike) == FindBelow(trie.root, 0, hash, alike)

(***************************************************************************)
(* Putting in.  The key a collection holds is never replaced by one equal  *)
(* to it: the entry there is kept, or takes the arriving value.            *)
(***************************************************************************)
ArrivedAt(there, arriving, takesValue) == IF takesValue THEN [there EXCEPT !.value = arriving.value] ELSE there

\* Two entries under unequal keys, in a node this many bits down.
RECURSIVE Apart(_, _, _)
Apart(shift, one, other) ==
    LET oneBit == BitOf(one.hash, shift)
        otherBit == BitOf(other.hash, shift)
    IN IF shift >= Deepest THEN SideBySide(<<one, other>>)
       ELSE IF oneBit = otherBit THEN Spread(oneBit :> Below(Apart(shift + TrieBits, one, other)))
       ELSE Spread((oneBit :> AnEntry(one)) @@ (otherBit :> AnEntry(other)))

Put(added, node) == [added |-> added, node |-> node]
RECURSIVE PutBelow(_, _, _, _, _)
PutBelow(node, shift, entry, alike, takesValue) ==
    LET bit == BitOf(entry.hash, shift)
        at == PositionAlike(node.words, entry.hash, alike)
        word == node.words[bit]
        withWord(new) == Spread((bit :> new) @@ node.words)
    IN IF ~node.apart
       THEN IF at = 0 THEN Put(1, SideBySide(Append(node.words, entry)))
            ELSE Put(0, SideBySide([node.words EXCEPT ![at] = ArrivedAt(@, entry, takesValue)]))
       ELSE IF bit \notin DOMAIN node.words THEN Put(1, withWord(AnEntry(entry)))
       ELSE IF word[1] = "below"
       THEN LET below == PutBelow(word[2], shift + TrieBits, entry, alike, takesValue)
            IN Put(below.added, withWord(Below(below.node)))
       ELSE IF SameKey(word[2], entry.hash, alike)
       THEN Put(0, withWord(AnEntry(ArrivedAt(word[2], entry, takesValue))))
       ELSE Put(1, withWord(Below(Apart(shift + TrieBits, word[2], entry))))

OfSize(size, put) == [size |-> size + put.added, root |-> put.node]
With(trie, entry, alike, takesValue) ==
    OfSize(trie.size, PutBelow(trie.root, 0, entry, alike, takesValue))

(***************************************************************************)
(* Taking out.  A node left empty is dropped from the one above.           *)
(***************************************************************************)
Empties(node) == IF node.apart THEN DOMAIN node.words = {} ELSE node.words = <<>>
RECURSIVE TakenBelow(_, _, _, _)
TakenBelow(node, shift, hash, alike) ==
    LET bit == BitOf(hash, shift)
        at == PositionAlike(node.words, hash, alike)
        word == node.words[bit]
        left == TakenBelow(word[2], shift + TrieBits, hash, alike)
        without == Spread([b \in DOMAIN node.words \ {bit} |-> node.words[b]])
    IN IF ~node.apart THEN (IF at = 0 THEN node ELSE SideBySide(RemoveAt(node.words, at)))
       ELSE IF bit \notin DOMAIN node.words THEN node
       ELSE IF word[1] = "entry" THEN (IF SameKey(word[2], hash, alike) THEN without ELSE node)
       ELSE IF Empties(left) THEN without
       ELSE Spread((bit :> Below(left)) @@ node.words)

Without(trie, hash, alike) ==
    IF Find(trie, hash, alike) = <<>> THEN trie
    ELSE [size |-> trie.size - 1, root |-> TakenBelow(trie.root, 0, hash, alike)]

\* A collection no larger than a set or a map holds.
HoldsNoMore(trie) == trie.size <= CollectionHolds

(***************************************************************************)
(* The set algebra, over which keys of a trie equal a key.                 *)
(***************************************************************************)
LargerFirst(a, b) == IF a.size >= b.size THEN <<a, b>> ELSE <<b, a>>
\* The keys a key equals, of the pairs of equal keys a comparator finds in two collections.
AlikeTo(equal, key) == {pair[1] : pair \in {it \in equal : it[2] = key}}
AllWith(start, entries, equal) ==
    FoldLeft(LAMBDA made, entry : With(made, entry, AlikeTo(equal, entry.key), FALSE), start, entries)

TrieUnion(a, b, equal) ==
    LET pair == LargerFirst(a, b) IN AllWith(pair[1], Entries(pair[2]), equal)
TrieIntersection(a, b, equal) ==
    LET pair == LargerFirst(a, b)
        shared(it) == Find(pair[1], it.hash, AlikeTo(equal, it.key)) # <<>>
    IN AllWith(EmptyTrie, SelectSeq(Entries(pair[2]), shared), equal)
TrieDifference(a, b, equal) ==
    LET alone(it) == Find(b, it.hash, AlikeTo(equal, it.key)) = <<>>
    IN AllWith(EmptyTrie, SelectSeq(Entries(a), alone), equal)

SetsEqual(a, b, equal) ==
    a.size = b.size /\ \A entry \in ToSet(Entries(a)) : Find(b, entry.hash, AlikeTo(equal, entry.key)) # <<>>
MapsEqual(a, b, equal, equalValues) ==
    /\ a.size = b.size
    /\ \A entry \in ToSet(Entries(a)) : LET there == Find(b, entry.hash, AlikeTo(equal, entry.key)) IN
          there # <<>> /\ <<entry.value, there[1].value>> \in equalValues

(***************************************************************************)
(* Hashing: a word composed into a hash, in order; a set and a map by what *)
(* their entries come to, whatever order they stand in.                    *)
(***************************************************************************)
HashStart == 0
HashPresent == 1
Mix(word) == (5 * word + 3) % 2^Deepest
HashCombine(hash, word) == Mix(2 * hash + Mix(word))
HashOfParts(words) == FoldLeft(HashCombine, HashStart, words)
SumOver(entries, of(_)) == FoldLeft(LAMBDA sum, entry : (sum + of(entry)) % 2^Deepest, 0, entries)
SetHash(trie) == HashCombine(trie.size, SumOver(Entries(trie), LAMBDA entry : Mix(entry.hash)))
MapHash(trie, ofValue) ==
    HashCombine(trie.size, SumOver(Entries(trie), LAMBDA entry : HashCombine(entry.hash, ofValue[entry.value])))
=============================================================================

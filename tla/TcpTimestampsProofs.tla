------------------------ MODULE TcpTimestampsProofs ------------------------
(***************************************************************************)
(* Proofs about TcpTimestamps, for every modulus W, hash function, limit   *)
(* of the hash map, start of the clocks, initial sequence numbers, lists   *)
(* of SACK blocks, tick and tolerance.                                     *)
(*                                                                         *)
(* Arithmetic modulo W is reduced to a congruence (Same); the hash map is  *)
(* shown to hold a function from script values to live ones (Holds), which *)
(* setting a value and growing preserve; and the invariant says that this  *)
(* function is the history of what was sniffed, and that the baseline is   *)
(* that of the first packet in which both sides have a timestamp.          *)
(***************************************************************************)
EXTENDS TcpTimestamps, TLAPS

------------------------------------------------------------------------------
(* Arithmetic modulo W. *)

\* Two numbers that a value of the code cannot tell apart.
Same(a, b) == \E q \in Int : a - b = q * W

\* The modulus is positive and even.
LEMMA WIs == W \in Nat /\ W > 1 /\ W \div 2 \in Nat /\ W = 2 * (W \div 2) /\ 0 \in U32
  BY WAssumption DEF U32

\* What % and \div are.
LEMMA Remainder ==
  ASSUME NEW a \in Int, NEW n \in Nat \ {0}
  PROVE  a % n \in 0 .. n - 1 /\ a \div n \in Int /\ a = n * (a \div n) + (a % n)
  OBVIOUS

\* A number and its remainder are the same modulo W.
LEMMA SameRemainder ==
  ASSUME NEW a \in Int
  PROVE  a % W \in U32 /\ a % W \in Int /\ Same(a % W, a)
  <1>1. W \in Nat \ {0}
    BY WIs
  <1>2. a % W \in 0 .. W - 1 /\ a \div W \in Int /\ a = W * (a \div W) + (a % W)
    BY <1>1, Remainder
  <1>3. (a % W) - a = (0 - (a \div W)) * W
    BY <1>1, <1>2
  <1>4. 0 - (a \div W) \in Int
    BY <1>2
  <1>5. Same(a % W, a)
    BY <1>3, <1>4 DEF Same
  <1>6. QED
    BY <1>1, <1>2, <1>5 DEF U32

\* The same numbers have the same sums and differences.
LEMMA SameAdds ==
  ASSUME NEW a \in Int, NEW b \in Int, NEW c \in Int, NEW d \in Int, Same(a, b), Same(c, d)
  PROVE  Same(a + c, b + d) /\ Same(a - c, b - d)
  <1>1. PICK q \in Int : a - b = q * W
    BY DEF Same
  <1>2. PICK r \in Int : c - d = r * W
    BY DEF Same
  <1>3. /\ (a + c) - (b + d) = (q + r) * W
        /\ (a - c) - (b - d) = (q - r) * W
    BY <1>1, <1>2, WIs
  <1>4. QED
    BY <1>3 DEF Same

\* Being the same modulo W is an equivalence.
LEMMA SameIsEquivalence ==
  ASSUME NEW a \in Int, NEW b \in Int, NEW c \in Int
  PROVE  /\ Same(a, a)
         /\ Same(a, b) => Same(b, a)
         /\ Same(a, b) /\ Same(b, c) => Same(a, c)
  <1>1. Same(a, a)
    <2>1. a - a = 0 * W
      BY WIs
    <2>2. QED
      BY <2>1 DEF Same
  <1>2. ASSUME Same(a, b) PROVE Same(b, a)
    <2>1. PICK q \in Int : a - b = q * W
      BY <1>2 DEF Same
    <2>2. b - a = (0 - q) * W
      BY <2>1, WIs
    <2>3. QED
      BY <2>2 DEF Same
  <1>3. ASSUME Same(a, b), Same(b, c) PROVE Same(a, c)
    <2>1. PICK q \in Int : a - b = q * W
      BY <1>3 DEF Same
    <2>2. PICK r \in Int : b - c = r * W
      BY <1>3 DEF Same
    <2>3. a - c = (q + r) * W
      BY <2>1, <2>2, WIs
    <2>4. QED
      BY <2>3 DEF Same
  <1>4. QED
    BY <1>1, <1>2, <1>3

\* Numbers that are the same and close to each other are equal.
LEMMA SameIsEqual ==
  ASSUME NEW a \in Int, NEW b \in Int, Same(a, b), a - b < W, b - a < W
  PROVE  a = b
  <1>1. PICK q \in Int : a - b = q * W
    BY DEF Same
  <1>2. CASE q = 0
    BY <1>1, <1>2, WIs
  <1>3. CASE q >= 1
    <2>1. q * W >= W
      BY <1>3, WIs
    <2>2. QED
      BY <1>1, <2>1, WIs
  <1>4. CASE q <= -1
    <2>1. (0 - q) * W >= W
      BY <1>4, WIs
    <2>2. QED
      BY <1>1, <2>1, WIs
  <1>5. QED
    BY <1>2, <1>3, <1>4

\* The remainder is the only value of the range that is the same.
LEMMA RemainderIs ==
  ASSUME NEW a \in Int, NEW r \in U32, Same(a, r)
  PROVE  a % W = r
  <1>1. r \in Int /\ a % W \in Int /\ a % W \in U32
    BY SameRemainder, WIs DEF U32
  <1>2. Same(a % W, r)
    BY <1>1, SameRemainder, SameIsEquivalence
  <1>3. QED
    BY <1>1, <1>2, SameIsEqual, WIs DEF U32

\* A difference of less than half the range is found as it is.
LEMMA S32Is ==
  ASSUME NEW n \in Int, NEW d \in Int, Same(n, d), d < W \div 2, 0 - d < W \div 2
  PROVE  s32(n) = d
  <1>1. CASE d >= 0
    <2>1. d \in U32
      BY <1>1, WIs DEF U32
    <2>2. n % W = d
      BY <2>1, RemainderIs
    <2>3. QED
      BY <2>2, WIs DEF s32
  <1>2. CASE d < 0
    <2>1. d + W \in U32 /\ d + W \in Int /\ W \in Int
      BY <1>2, WIs DEF U32
    <2>2. Same(W, 0)
      <3>1. W - 0 = 1 * W
        BY WIs
      <3>2. QED
        BY <3>1 DEF Same
    <2>3. Same(d, d + W)
      <3>1. Same(d, d) /\ Same(0, W)
        BY <2>1, <2>2, SameIsEquivalence
      <3>2. Same(d + 0, d + W)
        BY <2>1, <3>1, SameAdds, 0 \in Int
      <3>3. QED
        BY <3>2
    <2>4. Same(n, d + W)
      BY <2>1, <2>3, SameIsEquivalence
    <2>5. n % W = d + W
      BY <2>1, <2>4, RemainderIs
    <2>6. QED
      BY <1>2, <2>5, WIs DEF s32
  <1>3. QED
    BY <1>1, <1>2

\* A sequence number moved by an offset is moved back by the opposite one, and
\* two numbers moved by the same offset are as equal as they were.
LEMMA MovedBack ==
  ASSUME NEW x \in U32, NEW offset \in U32
  PROVE  /\ (x + offset) % W \in U32
         /\ (((x + offset) % W) + (0 - offset)) % W = x
  <1>1. x \in Int /\ offset \in Int /\ 0 - offset \in Int
    BY DEF U32
  <1>2. (x + offset) % W \in U32 /\ (x + offset) % W \in Int /\ Same((x + offset) % W, x + offset)
    BY <1>1, SameRemainder
  <1>3. Same(((x + offset) % W) + (0 - offset), (x + offset) + (0 - offset))
    <2>1. Same(0 - offset, 0 - offset) /\ x + offset \in Int
      BY <1>1, SameIsEquivalence
    <2>2. QED
      BY <1>1, <1>2, <2>1, SameAdds
  <1>4. (x + offset) + (0 - offset) = x
    BY <1>1
  <1>5. QED
    BY <1>1, <1>2, <1>3, <1>4, RemainderIs

------------------------------------------------------------------------------
(* The hash map. *)

\* The map holds the values of h, each under its key in the bucket of the key.
Node == [key : U32, value : U32]
Holds(map, h) ==
  \A i \in 0 .. map.num_buckets - 1 :
    map.buckets[i] = {n \in Node : h[n.key] = n.value /\ hash[n.key] % map.num_buckets = i}

IsMap(map) == map.num_buckets \in Nat \ {0} /\ map \in HashMap(map.num_buckets)
IsHistory(h) == h \in [U32 -> U32 \cup {NotFound}]

\* A key belongs to one of the buckets.
LEMMA BucketNum ==
  ASSUME hash \in Hashes, NEW map, IsMap(map), NEW k \in U32
  PROVE  hash[k] \in Nat /\ hash_bucket_num(map, k) \in 0 .. map.num_buckets - 1
  <1>1. hash \in [U32 -> Nat]
    BY HashesAssumption
  <1>2. hash[k] \in Int /\ hash[k] \in Nat /\ map.num_buckets \in Nat \ {0}
    BY <1>1 DEF IsMap
  <1>3. hash[k] % map.num_buckets \in 0 .. map.num_buckets - 1
    BY <1>2, Remainder
  <1>4. QED
    BY <1>2, <1>3 DEF hash_bucket_num

\* The nodes of a key in its bucket: none, or the one with its value.
LEMMA NodesAre ==
  ASSUME hash \in Hashes, NEW map, IsMap(map), NEW h, IsHistory(h), Holds(map, h), NEW k \in U32
  PROVE  /\ h[k] = NotFound => NodesOf(map, k) = {}
         /\ h[k] # NotFound => NodesOf(map, k) = {[key |-> k, value |-> h[k]]}
  <1>1. hash_bucket_num(map, k) \in 0 .. map.num_buckets - 1
    BY BucketNum
  <1>2. map.buckets[hash_bucket_num(map, k)] =
          {n \in Node : h[n.key] = n.value /\ hash[n.key] % map.num_buckets = hash_bucket_num(map, k)}
    BY <1>1 DEF Holds
  <1>3. NodesOf(map, k) = {n \in Node : h[k] = n.value /\ n.key = k}
    BY <1>2 DEF NodesOf, hash_bucket_num
  <1>4. h[k] \in U32 \cup {NotFound} /\ NotFound \notin U32
    BY DEF IsHistory, NotFound, U32
  <1>5. QED
    BY <1>3, <1>4 DEF Node

\* Looking a value up finds the last one that was set.
LEMMA GetIs ==
  ASSUME hash \in Hashes, NEW map, IsMap(map), NEW h, IsHistory(h), Holds(map, h), NEW k \in U32
  PROVE  hash_map_get(map, k) = h[k]
  <1>1. CASE h[k] = NotFound
    BY <1>1, NodesAre DEF hash_map_get
  <1>2. CASE h[k] # NotFound
    <2>1. NodesOf(map, k) = {[key |-> k, value |-> h[k]]}
      BY <1>2, NodesAre
    <2>2. (CHOOSE n \in NodesOf(map, k) : TRUE) = [key |-> k, value |-> h[k]]
      BY <2>1
    <2>3. QED
      BY <2>1, <2>2 DEF hash_map_get
  <1>3. QED
    BY <1>1, <1>2

\* A map that grows keeps what it holds.
LEMMA GrowHolds ==
  ASSUME hash \in Hashes, NEW map, IsMap(map), NEW h, IsHistory(h), Holds(map, h)
  PROVE  IsMap(hash_map_grow(map)) /\ Holds(hash_map_grow(map), h)
  <1> DEFINE num == 2 * map.num_buckets
             nodes == UNION {map.buckets[i] : i \in DOMAIN map.buckets}
             grown == hash_map_grow(map)
  <1>1. map.num_buckets \in Nat \ {0} /\ map \in HashMap(map.num_buckets) /\ num \in Nat \ {0}
    BY DEF IsMap
  <1>2. DOMAIN map.buckets = 0 .. map.num_buckets - 1
    BY <1>1 DEF HashMap
  <1>3. nodes = {n \in Node : h[n.key] = n.value}
    <2>1. ASSUME NEW n \in nodes PROVE n \in Node /\ h[n.key] = n.value
      BY <1>2 DEF Holds
    <2>2. ASSUME NEW n \in Node, h[n.key] = n.value PROVE n \in nodes
      <3>1. n.key \in U32
        BY DEF Node
      <3>2. hash_bucket_num(map, n.key) \in DOMAIN map.buckets
        BY <1>2, <3>1, BucketNum
      <3>3. n \in map.buckets[hash_bucket_num(map, n.key)]
        BY <1>2, <2>2, <3>2 DEF Holds, hash_bucket_num
      <3>4. QED
        BY <3>2, <3>3
    <2>3. QED
      BY <2>1, <2>2
  <1>4. /\ grown.num_keys = map.num_keys /\ grown.num_buckets = num
        /\ grown.buckets = [i \in 0 .. num - 1 |-> {n \in nodes : hash[n.key] % num = i}]
        /\ grown = [map EXCEPT !.num_buckets = num, !.buckets = grown.buckets]
    BY <1>1 DEF hash_map_grow, HashMap
  <1>5. grown.buckets \in [0 .. num - 1 -> SUBSET Node]
    BY <1>3, <1>4
  <1>6. IsMap(grown)
    BY <1>1, <1>4, <1>5 DEF IsMap, HashMap, Node
  <1>7. Holds(grown, h)
    BY <1>3, <1>4 DEF Holds
  <1>8. QED
    BY <1>6, <1>7

\* One bucket of a map is replaced.
LEMMA BucketReplaced ==
  ASSUME NEW num \in Nat \ {0}, NEW map \in HashMap(num), NEW b \in 0 .. num - 1,
         NEW S \in SUBSET Node, NEW new, new = [map EXCEPT !.buckets[b] = S]
  PROVE  /\ new \in HashMap(num) /\ new.num_buckets = num
         /\ new.buckets = [map.buckets EXCEPT ![b] = S]
  <1> DEFINE all == [map.buckets EXCEPT ![b] = S]
  <1>1. map.buckets \in [0 .. num - 1 -> SUBSET Node]
    BY DEF HashMap, Node
  <1>2. all \in [0 .. num - 1 -> SUBSET Node]
    BY <1>1
  <1>3. new = [map EXCEPT !.buckets = all]
    OBVIOUS
  <1> HIDE DEF all
  <1>4. new \in HashMap(num) /\ new.num_buckets = num /\ new.buckets = all
    BY <1>2, <1>3 DEF HashMap, Node
  <1>5. QED
    BY <1>4 DEF all

\* A node with a new key is linked into the bucket of the key.
LEMMA LinkHolds ==
  ASSUME hash \in Hashes, NEW map, IsMap(map), NEW h, IsHistory(h), Holds(map, h),
         NEW k \in U32, NEW v \in U32, h[k] = NotFound
  PROVE  LET linked == hash_map_link([map EXCEPT !.num_keys = @ + 1], [key |-> k, value |-> v]) IN
         IsMap(linked) /\ Holds(linked, [h EXCEPT ![k] = v])
  <1> DEFINE node == [key |-> k, value |-> v]
             counted == [map EXCEPT !.num_keys = @ + 1]
             linked == hash_map_link(counted, node)
             b == hash_bucket_num(map, k)
             g == [h EXCEPT ![k] = v]
  <1>1. /\ map.num_buckets \in Nat \ {0} /\ map \in HashMap(map.num_buckets)
        /\ b \in 0 .. map.num_buckets - 1 /\ node \in Node /\ node.key = k
    BY BucketNum DEF IsMap, Node
  <1>2. /\ counted \in HashMap(map.num_buckets) /\ counted.buckets = map.buckets
        /\ counted.num_buckets = map.num_buckets /\ hash_bucket_num(counted, node.key) = b
    BY <1>1 DEF HashMap, hash_bucket_num
  <1>3. linked = [counted EXCEPT !.buckets[b] = @ \cup {node}]
    BY <1>2 DEF hash_map_link
  <1>4. /\ linked \in HashMap(map.num_buckets) /\ linked.num_buckets = map.num_buckets
        /\ linked.buckets = [map.buckets EXCEPT ![b] = @ \cup {node}]
    <2>1. counted.buckets[b] \cup {node} \in SUBSET Node
      BY <1>1, <1>2 DEF HashMap, Node
    <2>2. linked = [counted EXCEPT !.buckets[b] = counted.buckets[b] \cup {node}]
      BY <1>3
    <2> HIDE DEF counted, node, b, linked
    <2>3. linked.buckets = [counted.buckets EXCEPT ![b] = counted.buckets[b] \cup {node}]
      BY <1>1, <1>2, <2>1, <2>2, BucketReplaced
    <2>4. linked \in HashMap(map.num_buckets)
      BY <1>1, <1>2, <2>1, <2>2, BucketReplaced, Zenon
    <2>5. linked.num_buckets = map.num_buckets
      BY <1>1, <1>2, <2>1, <2>2, BucketReplaced
    <2>6. QED
      BY <1>2, <2>3, <2>4, <2>5
  <1>5. IsMap(linked)
    BY <1>1, <1>4 DEF IsMap
  <1>6. /\ \A j \in U32 : g[j] = IF j = k THEN v ELSE h[j]
        /\ \A n \in Node : n.key \in U32 /\ n.value \in U32 /\ (n.key = k /\ n.value = v <=> n = node)
        /\ \A n \in Node : n.key = k => h[n.key] # n.value
    BY DEF IsHistory, Node, NotFound, U32
  <1>7. ASSUME NEW i \in 0 .. map.num_buckets - 1
        PROVE  linked.buckets[i] = {n \in Node : g[n.key] = n.value /\ hash[n.key] % map.num_buckets = i}
    <2>1. map.buckets[i] = {n \in Node : h[n.key] = n.value /\ hash[n.key] % map.num_buckets = i}
      BY DEF Holds
    <2>2. linked.buckets[i] = IF i = b THEN map.buckets[i] \cup {node} ELSE map.buckets[i]
      BY <1>1, <1>4 DEF HashMap
    <2>3. (hash[k] % map.num_buckets = i) <=> (i = b)
      BY DEF hash_bucket_num
    <2>4. ASSUME NEW n \in Node
          PROVE  n \in linked.buckets[i] <=> g[n.key] = n.value /\ hash[n.key] % map.num_buckets = i
      BY <1>6, <2>1, <2>2, <2>3
    <2>5. linked.buckets[i] \subseteq Node
      BY <1>1, <2>1, <2>2
    <2>6. QED
      BY <2>4, <2>5
  <1>8. Holds(linked, g)
    BY <1>4, <1>7 DEF Holds
  <1>9. QED
    BY <1>5, <1>8

\* Setting a value sets that value and leaves the others as they are, whether
\* the key is new or not and whether or not the map grows.
LEMMA SetHolds ==
  ASSUME hash \in Hashes, NEW map, IsMap(map), NEW h, IsHistory(h), Holds(map, h),
         NEW k \in U32, NEW v \in U32
  PROVE  /\ IsMap(hash_map_set(map, k, v)) /\ Holds(hash_map_set(map, k, v), [h EXCEPT ![k] = v])
         /\ IsHistory([h EXCEPT ![k] = v])
  <1> DEFINE g == [h EXCEPT ![k] = v]
             set == hash_map_set(map, k, v)
             node == [key |-> k, value |-> v]
             b == hash_bucket_num(map, k)
  <1>1. IsHistory(g)
    BY DEF IsHistory
  <1>2. CASE h[k] = NotFound
    <2>1. set = hash_map_insert(map, k, v)
      BY <1>2, NodesAre DEF hash_map_set
    <2>2. CASE map.num_keys >= map.num_buckets /\ map.num_buckets < MAX_BUCKETS
      <3>1. set = hash_map_link([hash_map_grow(map) EXCEPT !.num_keys = @ + 1], node)
        BY <2>1, <2>2 DEF hash_map_insert
      <3>2. IsMap(hash_map_grow(map)) /\ Holds(hash_map_grow(map), h)
        BY GrowHolds
      <3>3. QED
        BY <1>1, <1>2, <3>1, <3>2, LinkHolds
    <2>3. CASE ~(map.num_keys >= map.num_buckets /\ map.num_buckets < MAX_BUCKETS)
      <3>1. set = hash_map_link([map EXCEPT !.num_keys = @ + 1], node)
        BY <2>1, <2>3 DEF hash_map_insert
      <3>2. QED
        BY <1>1, <1>2, <3>1, LinkHolds
    <2>4. QED
      BY <2>2, <2>3
  <1>3. CASE h[k] # NotFound
    <2>1. /\ map.num_buckets \in Nat \ {0} /\ map \in HashMap(map.num_buckets)
          /\ b \in 0 .. map.num_buckets - 1 /\ node \in Node /\ node.key = k
      BY BucketNum DEF IsMap, Node
    <2> DEFINE old == [key |-> k, value |-> h[k]]
    <2>2. NodesOf(map, k) = {old}
      BY <1>3, NodesAre
    <2>3. set = [map EXCEPT !.buckets[b] = (@ \ {old}) \cup {node}]
      BY <2>2 DEF hash_map_set
    <2>4. /\ set \in HashMap(map.num_buckets) /\ set.num_buckets = map.num_buckets
          /\ set.buckets = [map.buckets EXCEPT ![b] = (@ \ {old}) \cup {node}]
      <3>1. (map.buckets[b] \ {old}) \cup {node} \in SUBSET Node
        BY <2>1 DEF HashMap, Node
      <3>2. set = [map EXCEPT !.buckets[b] = (map.buckets[b] \ {old}) \cup {node}]
        BY <2>3
      <3> HIDE DEF old, node, b, set
      <3>3. set.buckets = [map.buckets EXCEPT ![b] = (map.buckets[b] \ {old}) \cup {node}]
        BY <2>1, <3>1, <3>2, BucketReplaced
      <3>4. set \in HashMap(map.num_buckets)
        BY <2>1, <3>1, <3>2, BucketReplaced, Zenon
      <3>5. set.num_buckets = map.num_buckets
        BY <2>1, <3>1, <3>2, BucketReplaced
      <3>6. QED
        BY <3>3, <3>4, <3>5
    <2>5. IsMap(set)
      BY <2>1, <2>4 DEF IsMap
    <2>6. /\ \A j \in U32 : g[j] = IF j = k THEN v ELSE h[j]
          /\ \A n \in Node : n.key \in U32 /\ n.value \in U32 /\ (n.key = k /\ n.value = v <=> n = node)
          /\ \A n \in Node : (n.key = k /\ h[n.key] = n.value) <=> n = old
      BY <1>3 DEF IsHistory, Node, NotFound, U32
    <2>7. ASSUME NEW i \in 0 .. map.num_buckets - 1
          PROVE  set.buckets[i] = {n \in Node : g[n.key] = n.value /\ hash[n.key] % map.num_buckets = i}
      <3>1. map.buckets[i] = {n \in Node : h[n.key] = n.value /\ hash[n.key] % map.num_buckets = i}
        BY DEF Holds
      <3>2. set.buckets[i] = IF i = b THEN (map.buckets[i] \ {old}) \cup {node} ELSE map.buckets[i]
        BY <2>1, <2>4 DEF HashMap
      <3>3. (hash[k] % map.num_buckets = i) <=> (i = b)
        BY DEF hash_bucket_num
      <3>4. ASSUME NEW n \in Node
            PROVE  n \in set.buckets[i] <=> g[n.key] = n.value /\ hash[n.key] % map.num_buckets = i
        BY <2>6, <3>1, <3>2, <3>3
      <3>5. set.buckets[i] \subseteq Node
        BY <2>1, <3>1, <3>2
      <3>6. QED
        BY <3>4, <3>5
    <2>8. Holds(set, g)
      BY <2>4, <2>7 DEF Holds
    <2>9. QED
      BY <1>1, <2>5, <2>8
  <1>4. QED
    BY <1>2, <1>3

------------------------------------------------------------------------------
(* Timestamps and SACK blocks. *)

\* The live value e ticks after the start in the script's numbers, with the
\* baseline after fe and ft ticks; the value of the script after t ticks; and by
\* how many ticks they differ.
Mapped(live, script, e, fe, ft) ==
  (((script + ft) % W) + (((live + e) % W) - ((live + fe) % W))) % W
Given(script, t) == (script + t) % W
Drifted(e, fe, t, ft) == (e - fe) - (t - ft)

\* A difference in microseconds, and as the code computes it.
Usecs(d, c) == Abs(d) * c
UsecsInInt(n, c) == s32(s32(Abs(s32(n))) * c)

\* The difference the code computes between the script's value and the mapped
\* one is the difference between the ticks that passed, if it fits an int.
LEMMA DriftIs ==
  ASSUME NEW live \in U32, NEW script \in U32,
         NEW e \in Nat, NEW fe \in Nat, NEW t \in Nat, NEW ft \in Nat, NEW c \in Nat \ {0},
         NEW d, d = Drifted(e, fe, t, ft), Usecs(d, c) < W \div 2,
         NEW m, m = Mapped(live, script, e, fe, ft),
         NEW v, v = Given(script, t)
  PROVE  /\ UsecsInInt(m - v, c) = Usecs(d, c)
         /\ m = v => d = 0
  <1> USE DEF Mapped, Given, Drifted, Usecs, UsecsInInt
  <1>1. /\ live \in Int /\ script \in Int /\ d \in Int /\ Abs(d) \in Nat /\ Abs(d) * c \in Nat
        /\ script + ft \in Int /\ script + t \in Int /\ live + e \in Int /\ live + fe \in Int
    BY DEF U32, Abs
  <1>2. Abs(d) <= Abs(d) * c
    BY <1>1
  <1>3. d < W \div 2 /\ 0 - d < W \div 2 /\ Abs(d) < W \div 2
    BY <1>1, <1>2, WIs DEF Abs
  <1> DEFINE a == (live + e) % W
             fa == (live + fe) % W
             fv == (script + ft) % W
  <1>4. /\ a \in Int /\ fa \in Int /\ fv \in Int /\ v \in Int
        /\ Same(a, live + e) /\ Same(fa, live + fe) /\ Same(fv, script + ft) /\ Same(v, script + t)
    BY <1>1, SameRemainder
  <1> HIDE DEF a, fa, fv
  <1>5. Same(a - fa, (live + e) - (live + fe)) /\ a - fa \in Int /\ (live + e) - (live + fe) \in Int
    BY <1>1, <1>4, SameAdds
  <1>6. Same(fv + (a - fa), (script + ft) + ((live + e) - (live + fe)))
    BY <1>1, <1>4, <1>5, SameAdds
  <1>7. m \in Int /\ Same(m, fv + (a - fa)) /\ fv + (a - fa) \in Int
        /\ (script + ft) + ((live + e) - (live + fe)) \in Int
    <2>1. m = (fv + (a - fa)) % W
      BY DEF fv, a, fa
    <2>2. fv + (a - fa) \in Int
      BY <1>4
    <2>3. QED
      BY <1>1, <2>1, <2>2, SameRemainder
  <1>8. Same(m, (script + ft) + ((live + e) - (live + fe)))
    BY <1>6, <1>7, SameIsEquivalence
  <1>9. Same(m - v, ((script + ft) + ((live + e) - (live + fe))) - (script + t)) /\ m - v \in Int
    <2> DEFINE x == (script + ft) + ((live + e) - (live + fe))
               y == script + t
    <2>1. x \in Int /\ y \in Int /\ Same(m, x) /\ Same(v, y)
      BY <1>1, <1>4, <1>7, <1>8
    <2> HIDE DEF x, y
    <2>2. m \in Int /\ v \in Int /\ m - v \in Int
      BY <1>4, <1>7
    <2>3. Same(m - v, x - y)
      BY <2>1, <2>2, SameAdds
    <2>4. QED
      BY <2>2, <2>3 DEF x, y
  <1>10. ((script + ft) + ((live + e) - (live + fe))) - (script + t) = d
    BY <1>1
  <1>11. s32(m - v) = d
    BY <1>1, <1>3, <1>9, <1>10, S32Is
  <1>12. s32(Abs(d)) = Abs(d)
    <2>1. Abs(d) \in Int /\ Same(Abs(d), Abs(d)) /\ 0 - Abs(d) < W \div 2
      BY <1>1, WIs, SameIsEquivalence
    <2>2. QED
      BY <1>3, <2>1, S32Is
  <1>13. s32(Abs(d) * c) = Abs(d) * c
    <2>1. Abs(d) * c \in Int /\ Same(Abs(d) * c, Abs(d) * c) /\ 0 - Abs(d) * c < W \div 2
      BY <1>1, WIs, SameIsEquivalence
    <2>2. QED
      BY <2>1, S32Is
  <1>14. m = v => d = 0
    <2>1. SUFFICES ASSUME m = v PROVE d = 0
      OBVIOUS
    <2>2. m - v = 0
      BY <1>4, <2>1
    <2>3. Same(0, d)
      BY <1>9, <1>10, <2>2
    <2>4. QED
      BY <1>1, <1>3, <2>3, SameIsEqual, WIs
  <1>15. QED
    BY <1>11, <1>12, <1>13, <1>14

Block == [left : U32, right : U32]

\* The blocks of an option, moved by an offset.
Moved(s, k) ==
  [i \in DOMAIN s |-> [left |-> (s[i].left + k) % W, right |-> (s[i].right + k) % W]]

\* Blocks the kernel numbers from the peer's start get the script's numbers back.
LEMMA SackMovedBack ==
  ASSUME NEW s \in Seq(Block), NEW k \in U32
  PROVE  Moved(Moved(s, k), 0 - k) = s
  <1> DEFINE m == Moved(s, k)
  <1>1. DOMAIN m = DOMAIN s /\ DOMAIN s = 1 .. Len(s) /\ s = [i \in 1 .. Len(s) |-> s[i]]
    BY DEF Moved
  <1>2. ASSUME NEW i \in DOMAIN s
        PROVE  [left |-> (m[i].left + (0 - k)) % W, right |-> (m[i].right + (0 - k)) % W] = s[i]
    <2>1. s[i] \in Block
      BY <1>1
    <2>2. s[i].left \in U32 /\ s[i].right \in U32
      BY <2>1 DEF Block
    <2>3. s[i] = [left |-> s[i].left, right |-> s[i].right]
      BY <2>1 DEF Block
    <2>4. m[i].left = (s[i].left + k) % W /\ m[i].right = (s[i].right + k) % W
      BY DEF Moved
    <2>5. /\ (m[i].left + (0 - k)) % W = s[i].left
          /\ (m[i].right + (0 - k)) % W = s[i].right
      BY <2>2, <2>4, MovedBack
    <2>6. QED
      BY <2>3, <2>5
  <1>3. Moved(m, 0 - k) = [i \in DOMAIN s |-> s[i]]
    BY <1>1, <1>2 DEF Moved
  <1>4. QED
    BY <1>1, <1>3

\* offset_sack_blocks() changes the blocks alone.
LEMMA OffsetIs ==
  ASSUME NEW ts, NEW sack, NEW rest, NEW k
  PROVE  offset_sack_blocks(Options(ts, sack, rest), k) = Options(ts, Moved(sack, k), rest)
  BY DEF offset_sack_blocks, Options, Moved

------------------------------------------------------------------------------
(* What the two sides write. *)

\* The state as far as the options of the next packet depend on it.
EnvOK ==
  /\ config \in [tcp_ts_tick_usecs : Ticks, non_fatal_packet : BOOLEAN]
  /\ start \in [live : Lives, script : Scripts, isn : Isns, peer : Peers]
  /\ elapsed \in 0 .. MaxTicks

\* The configuration and the clocks have values of their types.
LEMMA EnvIs ==
  ASSUME EnvOK
  PROVE  /\ start.live \in U32 /\ start.script \in U32 /\ start.isn \in U32 /\ start.peer \in U32
         /\ config.tcp_ts_tick_usecs \in Nat /\ config.non_fatal_packet \in BOOLEAN
         /\ elapsed \in Nat /\ KernelClock \in U32
         /\ \A t \in Nat : ScriptVal(t) \in U32
  <1>1. /\ start.live \in U32 /\ start.script \in U32 /\ start.isn \in U32 /\ start.peer \in U32
        /\ config.tcp_ts_tick_usecs \in Nat /\ config.non_fatal_packet \in BOOLEAN
        /\ elapsed \in Nat
    <2>1. /\ start.live \in Lives /\ start.script \in Scripts /\ start.isn \in Isns
          /\ start.peer \in Peers /\ config.tcp_ts_tick_usecs \in Ticks
          /\ config.non_fatal_packet \in BOOLEAN /\ elapsed \in Nat
      BY BoundsAssumption DEF EnvOK
    <2>2. QED
      BY <2>1, StartsAssumption, ConfigAssumption
  <1>2. start.live + elapsed \in Int /\ \A t \in Nat : start.script + t \in Int
    BY <1>1 DEF U32
  <1>3. QED
    BY <1>1, <1>2, SameRemainder DEF KernelClock, ScriptVal

\* A timestamp option is never taken for a missing one.
LEMMA StampIs == \A v : Stamp(v) # NoTs /\ Stamp(v).val = v /\ Stamp(v).ecr = 0
  BY DEF Stamp, NoTs, NotFound

\* A packet of the script: without a timestamp, with "...", or with a value.
ScriptPacket(p) ==
  /\ p.o = Options(p.o.ts, p.o.sack, p.o.rest)
  /\ p.o.sack \in Seq(Block) /\ p.tick \in 0 .. MaxTicks
  /\ p.ignore \in BOOLEAN /\ p.nocheck \in BOOLEAN
  /\ p.o.ts = NoTs \/ p.o.ts = Stamp(IF p.ignore THEN 0 ELSE ScriptVal(p.tick))

\* A packet of the kernel: its blocks are the script's, moved.
KernelPacket(o) ==
  \E ts \in {NoTs, Stamp(KernelClock)}, sack \in Seq(Block), rest \in {"usual", "other", "malformed"} :
    o = Options(ts, Moved(sack, start.peer), rest)

\* An empty list of blocks stays empty.
LEMMA NoSack == << >> \in Seq(Block) /\ \A k : Moved(<< >>, k) = << >>
  BY DEF Moved

\* A packet of the script as OutboundScript writes it.
LEMMA OutboundIs ==
  ASSUME NEW ts, NEW sack \in Seq(Block), NEW rest, NEW t \in 0 .. MaxTicks, NEW dots,
         ts = NoTs \/ ts = Stamp(IF dots = "value" THEN 0 ELSE ScriptVal(t))
  PROVE  ScriptPacket(Outbound(Options(ts, sack, rest), t, dots))
  BY DEF ScriptPacket, Outbound, Options

\* Every packet of OutboundScript is of that form.
LEMMA ScriptIs == ASSUME NEW p \in OutboundScript PROVE ScriptPacket(p)
  <1>1. Sacks \subseteq Seq(Block) /\ 0 \in 0 .. MaxTicks /\ << >> \in Seq(Block)
    <2>1. Sacks \subseteq Seq(Block)
      BY SacksAssumption, Zenon DEF Block
    <2>2. QED
      BY <2>1, BoundsAssumption, NoSack
  <1>2. CASE \E sack \in Sacks : p = Outbound(Options(NoTs, sack, "usual"), 0, "none")
    BY <1>1, <1>2, OutboundIs
  <1>3. CASE p = Outbound(Options(NoTs, << >>, "none"), 0, "options")
    BY <1>1, <1>3, OutboundIs
  <1>4. CASE p = Outbound(Options(Stamp(0), << >>, "usual"), 0, "value")
    BY <1>1, <1>4, OutboundIs
  <1>5. CASE \E t \in 0 .. MaxTicks, sack \in Sacks :
               p = Outbound(Options(Stamp(ScriptVal(t)), sack, "usual"), t, "none")
    BY <1>1, <1>5, OutboundIs
  <1>6. QED
    BY <1>2, <1>3, <1>4, <1>5 DEF OutboundScript

\* Every packet of KernelOptions is of that form.
LEMMA KernelIs == ASSUME NEW o \in KernelOptions PROVE KernelPacket(o)
  <1>1. Sacks \subseteq Seq(Block) /\ << >> \in Seq(Block)
    BY SacksAssumption, NoSack, Zenon DEF Block
  <1>2. CASE \E ts \in {NoTs, Stamp(KernelClock)}, sack \in Sacks :
               o = offset_sack_blocks(Options(ts, sack, "usual"), start.peer)
    BY <1>1, <1>2, OffsetIs DEF KernelPacket
  <1>3. CASE \E rest \in {"other", "malformed"} : o = Options(Stamp(KernelClock), << >>, rest)
    BY <1>1, <1>3, NoSack DEF KernelPacket
  <1>4. QED
    BY <1>2, <1>3 DEF KernelOptions

------------------------------------------------------------------------------
(* The outcome of one packet with a timestamp. *)

\* The baseline is that of the first packet in which both sides have a timestamp.
IsFirst(f) == f \in [event : {"baseline"}, elapsed : 0 .. MaxTicks,
                     tick : 0 .. MaxTicks, ignore : BOOLEAN]
BaselineOK(s, f) ==
  /\ f = Nothing <=> ~s.found_first_tcp_ts
  /\ f # Nothing =>
       /\ s.first_actual_ts_val = (start.live + f.elapsed) % W
       /\ s.first_script_ts_val = IF f.ignore THEN 0 ELSE ScriptVal(f.tick)

Both(p, o) == HasTs(p.o) /\ HasTs(o) /\ Readable(o)
DriftOf(p, f) ==
  Abs((elapsed - f.elapsed) - (p.tick - f.tick)) * config.tcp_ts_tick_usecs
MappedVal(s, o) == (s.first_script_ts_val + (o.ts.val - s.first_actual_ts_val)) % W

\* A timestamp with a value is accepted exactly if the drift from the baseline is
\* within the tolerance, unless the product does not fit an int.
LEMMA DeviationIs ==
  ASSUME EnvOK, NEW p, ScriptPacket(p), NEW o, KernelPacket(o), Both(p, o),
         NEW s, NEW f, IsFirst(f), BaselineOK(s, f), ~p.ignore, ~f.ignore,
         config.tcp_ts_tick_usecs # 0, DriftOf(p, f) < W \div 2
  PROVE  (MappedVal(s, o) = p.o.ts.val \/ ~Deviates(p.o.ts.val, MappedVal(s, o)))
           <=> DriftOf(p, f) <= Tolerance
  <1> DEFINE c == config.tcp_ts_tick_usecs
             d == (elapsed - f.elapsed) - (p.tick - f.tick)
             m == MappedVal(s, o)
             v == p.o.ts.val
  <1>1. /\ start.live \in U32 /\ start.script \in U32 /\ c \in Nat \ {0}
        /\ elapsed \in Nat /\ f.elapsed \in Nat /\ p.tick \in Nat /\ f.tick \in Nat
    BY EnvIs, BoundsAssumption DEF IsFirst, ScriptPacket
  <1>2. v = Given(start.script, p.tick)
    BY StampIs, EnvIs, <1>1 DEF ScriptPacket, Both, HasTs, ScriptVal, Given
  <1>3. o.ts.val = (start.live + elapsed) % W
    BY StampIs, EnvIs DEF KernelPacket, Both, HasTs, KernelClock, Options
  <1>4. f # Nothing
    BY DEF IsFirst, Nothing
  <1>5. m = Mapped(start.live, start.script, elapsed, f.elapsed, f.tick)
    BY <1>3, <1>4 DEF BaselineOK, ScriptVal, MappedVal, Mapped
  <1>6. Usecs(d, c) < W \div 2
    BY DEF DriftOf, Usecs
  <1>7. d = Drifted(elapsed, f.elapsed, p.tick, f.tick)
    BY DEF Drifted
  <1> HIDE DEF c, d, m, v
  <1>8. UsecsInInt(m - v, c) = Usecs(d, c) /\ (m = v => d = 0)
    BY <1>1, <1>2, <1>5, <1>6, <1>7, DriftIs
  <1>9. Deviates(v, m) <=> Usecs(d, c) > Tolerance
    BY <1>1, <1>8 DEF Deviates, UsecsInInt, c
  <1>10. d \in Int /\ Usecs(d, c) \in Nat /\ Tolerance \in Nat /\ (d = 0 => Usecs(d, c) = 0)
    BY <1>1, ConfigAssumption DEF Abs, Usecs, d
  <1>11. (m = v \/ ~Deviates(v, m)) <=> Usecs(d, c) <= Tolerance
    BY <1>8, <1>9, <1>10
  <1>12. QED
    BY <1>11 DEF c, d, m, v, DriftOf, Usecs

\* The options as packetdrill compares them: in the script's numbers.
ActualOptions(s, p, o, sack) ==
  Options(IF Both(p, o) THEN Stamp(MappedVal(s, o)) ELSE o.ts, sack, o.rest)

\* What verify_outbound_live_tcp_options() compares.
LEMMA ComparisonIs ==
  ASSUME EnvOK, NEW p, ScriptPacket(p), NEW o, KernelPacket(o), Readable(o), NEW s,
         NEW sack \in Seq(Block), o.sack = Moved(sack, start.peer)
  PROVE  verify_outbound_live_tcp_options(p, ActualOptions(s, p, o, sack)) <=>
           \/ p.nocheck
           \/ /\ sack = p.o.sack /\ o.rest = p.o.rest /\ HasTs(p.o) = HasTs(o)
              /\ HasTs(o) => \/ MappedVal(s, o) = p.o.ts.val
                             \/ ~Deviates(p.o.ts.val, MappedVal(s, o))
  <1> DEFINE a == ActualOptions(s, p, o, sack)
             m == MappedVal(s, o)
  <1>1. p.o = Options(p.o.ts, p.o.sack, p.o.rest) /\ HasTs(o) \in BOOLEAN /\ HasTs(p.o) \in BOOLEAN
    BY DEF ScriptPacket, HasTs
  <1>2. a.ts = (IF Both(p, o) THEN Stamp(m) ELSE o.ts) /\ a.sack = sack /\ a.rest = o.rest
    BY DEF ActualOptions, Options
  <1>3. CASE Both(p, o)
    <2>1. PICK v \in U32 : p.o.ts = Stamp(v)
      <3>1. p.o.ts = Stamp(IF p.ignore THEN 0 ELSE ScriptVal(p.tick))
        BY <1>3 DEF Both, HasTs, ScriptPacket
      <3>2. p.tick \in Nat /\ 0 \in U32
        BY BoundsAssumption, WIs DEF ScriptPacket
      <3>3. QED
        BY <3>1, <3>2, EnvIs
    <2>2. a = Options(Stamp(m), sack, o.rest) /\ p.o = Options(Stamp(v), p.o.sack, p.o.rest)
      BY <1>1, <1>3, <2>1 DEF ActualOptions
    <2>3. v = p.o.ts.val /\ a.ts.val = m
      BY <1>2, <1>3, <2>1, StampIs
    <2>4. HasTs(a) /\ HasTs(p.o) /\ HasTs(o)
      BY <1>2, <1>3, StampIs DEF HasTs, Both
    <2>5. [a EXCEPT !.ts.val = v] = Options(Stamp(v), sack, o.rest)
      BY <2>2 DEF Options, Stamp
    <2>6. Options(Stamp(v), sack, o.rest) = p.o <=> sack = p.o.sack /\ o.rest = p.o.rest
      BY <2>2 DEF Options
    <2>7. a = p.o <=> m = v /\ sack = p.o.sack /\ o.rest = p.o.rest
      BY <2>2 DEF Options, Stamp
    <2> HIDE DEF a, m
    <2>8. verify_outbound_live_tcp_options(p, a) <=>
            p.nocheck \/ a = p.o \/ (~Deviates(v, m) /\ sack = p.o.sack /\ o.rest = p.o.rest)
      BY <2>3, <2>4, <2>5, <2>6 DEF verify_outbound_live_tcp_options
    <2>9. HasTs(p.o) = HasTs(o)
      BY <1>1, <2>4
    <2>10. QED
      BY <2>3, <2>4, <2>7, <2>8, <2>9 DEF a, m
  <1>4. CASE ~Both(p, o)
    <2>1. a = Options(o.ts, sack, o.rest)
      BY <1>4 DEF ActualOptions
    <2>2. ~(HasTs(p.o) /\ HasTs(o)) /\ (HasTs(a) <=> HasTs(o))
      BY <1>2, <1>4 DEF Both, HasTs
    <2>3. a = p.o <=> o.ts = p.o.ts /\ sack = p.o.sack /\ o.rest = p.o.rest
      BY <1>1, <2>1 DEF Options
    <2>4. (o.ts = p.o.ts) <=> (HasTs(p.o) = HasTs(o))
      BY <2>2 DEF HasTs
    <2>5. HasTs(p.o) = HasTs(o) => ~HasTs(o)
      BY <2>2
    <2>6. QED
      BY <2>2, <2>3, <2>4, <2>5 DEF verify_outbound_live_tcp_options
  <1>5. QED
    BY <1>3, <1>4

------------------------------------------------------------------------------
(* The inductive invariant. *)

IInv ==
  /\ TypeOK
  /\ Holds(socket.ts_val_map, heard)
  /\ BaselineOK(socket, first)
  /\ EchoIsKernels
  /\ OptionsVerdict

\* What the lemmas above need of the type invariant.
LEMMA TypeGives ==
  ASSUME TypeOK
  PROVE  EnvOK /\ hash \in Hashes /\ IsMap(socket.ts_val_map) /\ IsHistory(heard)
         /\ (first = Nothing \/ IsFirst(first))
  BY DEF TypeOK, EnvOK, IsMap, IsHistory, IsFirst

\* The invariant holds for a new socket.
LEMMA InitIInv == ASSUME Init PROVE IInv
  <1>1. /\ socket.ts_val_map = hash_map_new /\ hash_map_new \in HashMap(1)
        /\ hash_map_new.num_buckets = 1 /\ hash_map_new.buckets = [i \in {0} |-> {}]
    <2>1. [i \in {0} |-> {}] \in [0 .. 0 -> SUBSET [key : U32, value : U32]]
      OBVIOUS
    <2>2. QED
      BY <2>1 DEF Init, socket_new, hash_map_new, HashMap
  <1>2. heard \in [U32 -> U32 \cup {NotFound}] /\ \A k \in U32 : heard[k] = NotFound
    BY DEF Init
  <1>3. TypeOK
    <2>1. socket \in [ts_val_map : HashMap(1), found_first_tcp_ts : BOOLEAN,
                      first_script_ts_val : U32, first_actual_ts_val : U32]
      BY <1>1, WIs DEF Init, socket_new
    <2>2. QED
      BY <1>1, <1>2, <2>1, BoundsAssumption DEF Init, TypeOK, Nothing
  <1>4. Holds(socket.ts_val_map, heard)
    BY <1>1, <1>2 DEF Holds, Node, U32, NotFound
  <1>5. BaselineOK(socket, first)
    BY DEF Init, socket_new, BaselineOK
  <1>6. EchoIsKernels /\ OptionsVerdict
    BY DEF Init, EchoIsKernels, OptionsVerdict, Nothing
  <1>7. QED
    BY <1>3, <1>4, <1>5, <1>6 DEF IInv

\* A tick of the kernel's clock happens between two events only.
LEMMA TickInv == ASSUME IInv, tick PROVE IInv'
  <1>1. TypeOK'
    <2>1. elapsed' \in 0 .. MaxTicks
      BY BoundsAssumption DEF IInv, tick, TypeOK
    <2>2. QED
      BY <2>1 DEF IInv, tick, TypeOK, HashMap, U32, Nothing
  <1>2. Holds(socket.ts_val_map, heard)' /\ BaselineOK(socket, first)'
    BY DEF IInv, tick, Holds, BaselineOK, ScriptVal
  <1>3. EchoIsKernels' /\ OptionsVerdict'
    BY DEF tick, Ready, EchoIsKernels, OptionsVerdict, Nothing
  <1>4. QED
    BY <1>1, <1>2, <1>3 DEF IInv

\* The end of an event forgets the packet.
LEMMA NextEventInv == ASSUME IInv, get_next_event PROVE IInv'
  <1>1. TypeOK'
    BY DEF IInv, get_next_event, TypeOK, HashMap, U32, Nothing
  <1>2. Holds(socket.ts_val_map, heard)' /\ BaselineOK(socket, first)'
    BY DEF IInv, get_next_event, Holds, BaselineOK, ScriptVal
  <1>3. EchoIsKernels' /\ OptionsVerdict'
    BY DEF get_next_event, EchoIsKernels, OptionsVerdict, Nothing
  <1>4. QED
    BY <1>1, <1>2, <1>3 DEF IInv

\* An injected packet: the echo is looked up in the map.
LEMMA InboundInv == ASSUME IInv, inbound_packet PROVE IInv'
  <1>1. PICK p \in InboundScript :
          LET live == map_inbound_packet(p) IN
          /\ seen' = [event |-> "inbound", p |-> p, o |-> live.o, status |-> live.status]
          /\ test' = IF live.status = "ok" THEN test ELSE "failed"
    BY DEF inbound_packet
  <1>2. UNCHANGED <<config, hash, start, socket, elapsed, packets, heard, first>>
    BY DEF inbound_packet
  <1>3. TypeOK'
    BY <1>1, <1>2 DEF IInv, TypeOK, HashMap, U32, Nothing
  <1>4. Holds(socket.ts_val_map, heard)' /\ BaselineOK(socket, first)'
    BY <1>2 DEF IInv, Holds, BaselineOK, ScriptVal
  <1>5. OptionsVerdict'
    BY <1>1 DEF OptionsVerdict
  <1>6. EchoIsKernels'
    <2>1. SUFFICES ASSUME HasTs(p.o), p.ack, ~p.absolute
          PROVE  LET live == heard[p.o.ts.ecr] IN
                 IF live = NotFound THEN map_inbound_packet(p).status = "err"
                 ELSE /\ map_inbound_packet(p).status = "ok"
                      /\ map_inbound_packet(p).o.ts.ecr = live
      BY <1>1, <1>2 DEF EchoIsKernels
    <2>2. PICK v \in U32 : p.o = Options([val |-> 0, ecr |-> v], << >>, "usual")
      <3>1. \/ \E sack \in Sacks : p.o = Options(NoTs, sack, "usual")
            \/ \E t \in 0 .. MaxTicks : p.o = Options([val |-> 0, ecr |-> ScriptVal(t)], << >>, "usual")
        BY DEF InboundScript
      <3>2. \A sack : ~HasTs(Options(NoTs, sack, "usual"))
        BY DEF HasTs, Options
      <3>3. \A t \in 0 .. MaxTicks : ScriptVal(t) \in U32
        BY TypeGives, EnvIs, BoundsAssumption DEF IInv
      <3>4. PICK t \in 0 .. MaxTicks : p.o = Options([val |-> 0, ecr |-> ScriptVal(t)], << >>, "usual")
        BY <2>1, <3>1, <3>2
      <3>5. QED
        BY <3>3, <3>4
    <2> DEFINE o == Options([val |-> 0, ecr |-> v], Moved(<< >>, start.isn), "usual")
               live == hash_map_get(socket.ts_val_map, v)
    <2>3. offset_sack_blocks(p.o, start.isn) = o
      BY <2>2, OffsetIs
    <2>4. o.ts.ecr = v /\ p.o.ts.ecr = v /\ HasTs(o)
      BY <2>2 DEF Options, HasTs, NoTs, NotFound
    <2>5. live = heard[v]
      BY TypeGives, GetIs DEF IInv
    <2>6. map_inbound_packet(p) = IF live = NotFound THEN [status |-> "err", o |-> o]
                                  ELSE [status |-> "ok", o |-> [o EXCEPT !.ts.ecr = live]]
      BY <2>1, <2>3, <2>4, Zenon DEF map_inbound_packet
    <2>7. [o EXCEPT !.ts.ecr = live].ts.ecr = live
      BY DEF Options
    <2> HIDE DEF o, live
    <2>8. heard[p.o.ts.ecr] = live
      BY <2>4, <2>5
    <2>9. CASE live = NotFound
      BY <2>6, <2>8, <2>9
    <2>10. CASE live # NotFound
      <3>1. map_inbound_packet(p) = [status |-> "ok", o |-> [o EXCEPT !.ts.ecr = live]]
        BY <2>6, <2>10, Zenon
      <3>2. /\ map_inbound_packet(p).status = "ok"
            /\ map_inbound_packet(p).o = [o EXCEPT !.ts.ecr = live]
        BY <3>1, SMT
      <3>3. map_inbound_packet(p).o.ts.ecr = live
        BY <2>7, <3>2
      <3>4. QED
        BY <2>8, <2>10, <3>2, <3>3
    <2>11. QED
      BY <2>9, <2>10
  <1>7. QED
    BY <1>3, <1>4, <1>5, <1>6 DEF IInv

\* The options that are compared, and the socket after them.
LEMMA MappingIs ==
  ASSUME EnvOK, NEW p, ScriptPacket(p), NEW o, Readable(o), NEW sack \in Seq(Block),
         o = Options(o.ts, Moved(sack, start.peer), o.rest),
         NEW s, s = IF Both(p, o) THEN Baseline(Remembered(socket, p, o.ts.val), p.o.ts.val, o.ts.val)
                    ELSE socket,
         o.ts \in {NoTs, Stamp(KernelClock)}
  PROVE  map_outbound_live_packet(p, o) =
           [status |-> "ok", o |-> ActualOptions(s, p, o, sack), s |-> s]
  <1> DEFINE actual == Options(o.ts, sack, o.rest)
             base == Baseline(Remembered(socket, p, o.ts.val), p.o.ts.val, o.ts.val)
  <1>1. offset_sack_blocks(o, 0 - start.peer) = actual
    <2>1. start.peer \in U32
      BY EnvIs
    <2>2. Moved(Moved(sack, start.peer), 0 - start.peer) = sack
      BY <2>1, SackMovedBack
    <2>3. QED
      BY <2>2, OffsetIs
  <1>2. CASE Both(p, o)
    <2>1. o.ts = Stamp(KernelClock) /\ s = base
      BY <1>2 DEF Both, HasTs
    <2>2. map_outbound_live_packet(p, o) =
            [status |-> "ok", s |-> s, o |-> [actual EXCEPT !.ts.val = MappedVal(s, o)]]
      BY <1>1, <1>2, <2>1, Zenon DEF Both, map_outbound_live_packet, MappedVal
    <2>3. [actual EXCEPT !.ts.val = MappedVal(s, o)] = Options(Stamp(MappedVal(s, o)), sack, o.rest)
      BY <2>1 DEF Options, Stamp
    <2>4. ActualOptions(s, p, o, sack) = Options(Stamp(MappedVal(s, o)), sack, o.rest)
      BY <1>2 DEF ActualOptions
    <2> HIDE DEF actual, base
    <2>5. QED
      BY <2>2, <2>3, <2>4
  <1>3. CASE ~Both(p, o)
    <2>1. map_outbound_live_packet(p, o) = [status |-> "ok", o |-> actual, s |-> socket]
      BY <1>1, <1>3, Zenon DEF Both, map_outbound_live_packet
    <2>2. ActualOptions(s, p, o, sack) = actual
      BY <1>3 DEF ActualOptions
    <2>3. s = socket
      BY <1>3
    <2>4. QED
      BY <2>1, <2>2, <2>3, Zenon
  <1>4. QED
    BY <1>2, <1>3

\* The socket after a packet in which both sides have a timestamp.
LEMMA StampedSocket ==
  ASSUME TypeOK, Holds(socket.ts_val_map, heard), BaselineOK(socket, first),
         NEW p, ScriptPacket(p), NEW o, Both(p, o), o.ts \in {NoTs, Stamp(KernelClock)},
         NEW s, s = Baseline(Remembered(socket, p, o.ts.val), p.o.ts.val, o.ts.val),
         NEW h, h = IF ~p.ignore THEN [heard EXCEPT ![p.o.ts.val] = o.ts.val] ELSE heard,
         NEW f, f = IF first = Nothing
                    THEN [event |-> "baseline", elapsed |-> elapsed, tick |-> p.tick,
                          ignore |-> p.ignore] ELSE first
  PROVE  /\ s.ts_val_map.num_buckets \in Nat \ {0}
         /\ s \in [ts_val_map : HashMap(s.ts_val_map.num_buckets), found_first_tcp_ts : BOOLEAN,
                   first_script_ts_val : U32, first_actual_ts_val : U32]
         /\ IsHistory(h) /\ Holds(s.ts_val_map, h)
         /\ IsFirst(f) /\ BaselineOK(s, f)
  <1>1. EnvOK /\ hash \in Hashes /\ IsMap(socket.ts_val_map) /\ IsHistory(heard)
        /\ (first = Nothing \/ IsFirst(first))
    BY TypeGives
  <1> DEFINE map == IF p.ignore THEN socket.ts_val_map
                    ELSE hash_map_set(socket.ts_val_map, p.o.ts.val, o.ts.val)
             r == Remembered(socket, p, o.ts.val)
             v == p.o.ts.val
  <1>2. /\ o.ts.val = KernelClock /\ o.ts.val \in U32
        /\ v = (IF p.ignore THEN 0 ELSE ScriptVal(p.tick)) /\ v \in U32
    <2>1. o.ts = Stamp(KernelClock) /\ p.o.ts = Stamp(IF p.ignore THEN 0 ELSE ScriptVal(p.tick))
      BY DEF Both, HasTs, ScriptPacket
    <2>2. o.ts.val = KernelClock /\ v = (IF p.ignore THEN 0 ELSE ScriptVal(p.tick))
      BY <2>1, StampIs
    <2>3. KernelClock \in U32 /\ 0 \in U32 /\ ScriptVal(p.tick) \in U32
      <3>1. p.tick \in Nat
        BY BoundsAssumption DEF ScriptPacket
      <3>2. QED
        BY <1>1, <3>1, EnvIs, WIs
    <2>4. QED
      BY <2>2, <2>3
  <1>3. IsHistory(h) /\ Holds(map, h) /\ IsMap(map)
    <2>1. CASE p.ignore
      BY <1>1, <2>1
    <2>2. CASE ~p.ignore
      BY <1>1, <1>2, <2>2, SetHolds
    <2>3. QED
      BY <2>1, <2>2
  <1> HIDE DEF map, v
  <1>4. socket \in [ts_val_map : HashMap(socket.ts_val_map.num_buckets), found_first_tcp_ts : BOOLEAN,
                    first_script_ts_val : U32, first_actual_ts_val : U32]
    BY DEF TypeOK
  <1>5. /\ r = [socket EXCEPT !.ts_val_map = map] /\ map.num_buckets \in Nat \ {0}
        /\ map \in HashMap(map.num_buckets)
    <2>1. r = [socket EXCEPT !.ts_val_map = map]
      BY <1>4 DEF Remembered, map
    <2>2. QED
      BY <1>3, <2>1 DEF IsMap
  <1> HIDE DEF r
  <1>6. /\ r \in [ts_val_map : HashMap(map.num_buckets), found_first_tcp_ts : BOOLEAN,
                  first_script_ts_val : U32, first_actual_ts_val : U32]
        /\ r.ts_val_map = map /\ r.found_first_tcp_ts = socket.found_first_tcp_ts
        /\ r.first_script_ts_val = socket.first_script_ts_val
        /\ r.first_actual_ts_val = socket.first_actual_ts_val
    BY <1>4, <1>5
  <1>7. s = IF r.found_first_tcp_ts THEN r
            ELSE [r EXCEPT !.found_first_tcp_ts = TRUE, !.first_script_ts_val = v,
                           !.first_actual_ts_val = o.ts.val]
    BY DEF Baseline, r, v
  <1>8. /\ s \in [ts_val_map : HashMap(map.num_buckets), found_first_tcp_ts : BOOLEAN,
                  first_script_ts_val : U32, first_actual_ts_val : U32]
        /\ s.ts_val_map = map /\ s.found_first_tcp_ts
        /\ s.first_script_ts_val = IF socket.found_first_tcp_ts THEN socket.first_script_ts_val ELSE v
        /\ s.first_actual_ts_val = IF socket.found_first_tcp_ts THEN socket.first_actual_ts_val
                                   ELSE o.ts.val
    BY <1>2, <1>6, <1>7
  <1>9. IsFirst(f) /\ f # Nothing
    BY <1>1 DEF IsFirst, EnvOK, ScriptPacket, Nothing
  <1>10. BaselineOK(s, f)
    <2>1. CASE first = Nothing
      BY <1>2, <1>8, <1>9, <2>1 DEF BaselineOK, KernelClock
    <2>2. CASE first # Nothing
      BY <1>8, <2>2 DEF BaselineOK
    <2>3. QED
      BY <2>1, <2>2
  <1>11. QED
    BY <1>3, <1>5, <1>8, <1>9, <1>10

\* The verdict on the options, for a baseline that includes this packet.
LEMMA VerdictIs ==
  ASSUME EnvOK, NEW p, ScriptPacket(p), NEW o, KernelPacket(o), Readable(o),
         NEW sack \in Seq(Block), o.sack = Moved(sack, start.peer),
         NEW s, NEW f, Both(p, o) => IsFirst(f) /\ BaselineOK(s, f)
  PROVE  \/ verify_outbound_live_tcp_options(p, ActualOptions(s, p, o, sack)) <=>
              \/ p.nocheck
              \/ /\ offset_sack_blocks(p.o, start.peer).sack = o.sack
                 /\ p.o.rest = o.rest /\ HasTs(p.o) = HasTs(o)
                 /\ HasTs(o) => \/ p.ignore \/ config.tcp_ts_tick_usecs = 0
                                \/ DriftOf(p, f) <= Tolerance
         \/ /\ config.tcp_ts_tick_usecs # 0 /\ HasTs(p.o) /\ HasTs(o)
            /\ p.ignore \/ f.ignore \/ DriftOf(p, f) >= W \div 2
  <1>1. offset_sack_blocks(p.o, start.peer).sack = o.sack <=> sack = p.o.sack
    <2>1. /\ p.o = Options(p.o.ts, p.o.sack, p.o.rest) /\ p.o.sack \in Seq(Block)
          /\ start.peer \in U32
      BY EnvIs DEF ScriptPacket
    <2>2. offset_sack_blocks(p.o, start.peer) = Options(p.o.ts, Moved(p.o.sack, start.peer), p.o.rest)
      BY <2>1, OffsetIs
    <2>3. offset_sack_blocks(p.o, start.peer).sack = Moved(p.o.sack, start.peer)
      BY <2>2 DEF Options
    <2>4. Moved(sack, start.peer) = Moved(p.o.sack, start.peer) => sack = p.o.sack
      BY <2>1, SackMovedBack
    <2>5. QED
      BY <2>3, <2>4
  <1> DEFINE equal == MappedVal(s, o) = p.o.ts.val \/ ~Deviates(p.o.ts.val, MappedVal(s, o))
             shape == sack = p.o.sack /\ o.rest = p.o.rest /\ HasTs(p.o) = HasTs(o)
  <1>2. verify_outbound_live_tcp_options(p, ActualOptions(s, p, o, sack)) <=>
          p.nocheck \/ (shape /\ (HasTs(o) => equal))
    BY ComparisonIs
  <1>3. HasTs(o) \in BOOLEAN /\ HasTs(p.o) \in BOOLEAN
    BY DEF HasTs
  <1>4. CASE ~(HasTs(o) /\ HasTs(p.o))
    <2>1. shape => ~HasTs(o)
      BY <1>3, <1>4
    <2>2. QED
      BY <1>1, <1>2, <1>3, <2>1
  <1>5. CASE HasTs(o) /\ HasTs(p.o) /\ config.tcp_ts_tick_usecs = 0
    <2>1. equal
      BY <1>5 DEF Deviates
    <2>2. QED
      BY <1>1, <1>2, <1>5, <2>1
  <1>6. CASE HasTs(o) /\ HasTs(p.o) /\ config.tcp_ts_tick_usecs # 0
    <2>1. Both(p, o) /\ IsFirst(f) /\ BaselineOK(s, f)
      BY <1>6 DEF Both
    <2>2. SUFFICES ASSUME ~p.ignore, ~f.ignore, ~(DriftOf(p, f) >= W \div 2)
          PROVE  equal <=> DriftOf(p, f) <= Tolerance
      BY <1>1, <1>2, <1>6
    <2>3. DriftOf(p, f) \in Int /\ W \div 2 \in Int
      <3>1. /\ elapsed \in Nat /\ f.elapsed \in Nat /\ p.tick \in Nat /\ f.tick \in Nat
            /\ config.tcp_ts_tick_usecs \in Nat
        BY <2>1, EnvIs, BoundsAssumption DEF IsFirst, ScriptPacket
      <3>2. QED
        BY <3>1, WIs DEF DriftOf, Abs
    <2>4. DriftOf(p, f) < W \div 2
      BY <2>2, <2>3
    <2>5. QED
      BY <1>6, <2>1, <2>2, <2>4, DeviationIs
  <1>7. QED
    BY <1>3, <1>4, <1>5, <1>6

\* A sniffed packet.
LEMMA OutboundInv == ASSUME IInv, outbound_packet PROVE IInv'
  <1>1. PICK p \in OutboundScript, o \in KernelOptions :
          LET actual == map_outbound_live_packet(p, o)
              ok     == verify_outbound_live_tcp_options(p, actual.o)
              status == IF actual.status = "err" THEN "err"
                        ELSE IF ok THEN "ok"
                        ELSE IF config.non_fatal_packet THEN "warn" ELSE "err"
          IN /\ socket' = actual.s
             /\ packets' = packets + (IF Both(p, o) THEN 1 ELSE 0)
             /\ heard' = IF Both(p, o) /\ ~p.ignore THEN [heard EXCEPT ![p.o.ts.val] = o.ts.val]
                         ELSE heard
             /\ first' = IF Both(p, o) /\ first = Nothing
                         THEN [event |-> "baseline", elapsed |-> elapsed, tick |-> p.tick,
                               ignore |-> p.ignore] ELSE first
             /\ seen' = [event |-> "outbound", p |-> p, o |-> o, status |-> status]
             /\ test' = IF status = "err" THEN "failed" ELSE test
    BY Zenon DEF outbound_packet, Both
  <1>2. UNCHANGED <<config, hash, start, elapsed>> /\ packets < MaxPackets
    BY DEF outbound_packet
  <1>3. ScriptPacket(p) /\ KernelPacket(o) /\ EnvOK
    BY ScriptIs, KernelIs, TypeGives DEF IInv
  <1>4. /\ test' \in {"running", "failed"} /\ packets' \in 0 .. MaxPackets
        /\ seen'.event = "outbound" /\ seen'.p = p /\ seen'.o = o
    BY <1>1, <1>2, BoundsAssumption DEF IInv, TypeOK
  <1>5. EchoIsKernels'
    BY <1>4 DEF EchoIsKernels
  <1>6. ASSUME ~Both(p, o), socket' = socket
        PROVE  TypeOK' /\ Holds(socket.ts_val_map, heard)' /\ BaselineOK(socket, first)'
    <2>1. heard' = heard /\ first' = first
      BY <1>1, <1>6
    <2>2. TypeOK'
      BY <1>2, <1>4, <1>6, <2>1 DEF IInv, TypeOK, HashMap, U32, Nothing
    <2>3. Holds(socket.ts_val_map, heard)' /\ BaselineOK(socket, first)'
      BY <1>2, <1>6, <2>1 DEF IInv, Holds, BaselineOK, ScriptVal
    <2>4. QED
      BY <2>2, <2>3
  <1>7. CASE ~Readable(o)
    <2>1. ~Both(p, o) /\ map_outbound_live_packet(p, o) = [status |-> "err", o |-> o, s |-> socket]
      BY <1>7, Zenon DEF Both, map_outbound_live_packet
    <2>2. socket' = socket
      BY <1>1, <2>1
    <2>3. OptionsVerdict'
      BY <1>4, <1>7 DEF OptionsVerdict
    <2>4. QED
      BY <1>5, <1>6, <2>1, <2>2, <2>3 DEF IInv
  <1>8. CASE Readable(o)
    <2>1. PICK sack \in Seq(Block) :
            o = Options(o.ts, Moved(sack, start.peer), o.rest) /\ o.ts \in {NoTs, Stamp(KernelClock)}
      BY <1>3 DEF KernelPacket, Options
    <2> DEFINE s == IF Both(p, o) THEN Baseline(Remembered(socket, p, o.ts.val), p.o.ts.val, o.ts.val)
                    ELSE socket
               actual == map_outbound_live_packet(p, o)
               ok == verify_outbound_live_tcp_options(p, ActualOptions(s, p, o, sack))
    <2>2. actual = [status |-> "ok", o |-> ActualOptions(s, p, o, sack), s |-> s]
      BY <1>3, <1>8, <2>1, MappingIs, Zenon
    <2>3. actual.status = "ok" /\ actual.o = ActualOptions(s, p, o, sack) /\ actual.s = s
      <3> HIDE DEF s, actual
      <3>1. QED
        BY <2>2, SMT
    <2>4. socket' = s /\ (seen'.status = "ok" <=> ok)
      <3>1. seen'.status = IF actual.status = "err" THEN "err"
                           ELSE IF verify_outbound_live_tcp_options(p, actual.o) THEN "ok"
                           ELSE IF config.non_fatal_packet THEN "warn" ELSE "err"
        BY <1>1
      <3>2. socket' = actual.s
        BY <1>1
      <3> HIDE DEF s, actual
      <3>3. QED
        BY <2>3, <3>1, <3>2
    <2>5. /\ TypeOK' /\ Holds(socket.ts_val_map, heard)' /\ BaselineOK(socket, first)'
          /\ Both(p, o) => IsFirst(first') /\ BaselineOK(socket', first')
      <3>1. CASE ~Both(p, o)
        BY <1>6, <2>4, <3>1
      <3>2. CASE Both(p, o)
        <4>1. socket' = Baseline(Remembered(socket, p, o.ts.val), p.o.ts.val, o.ts.val)
          BY <2>4, <3>2
        <4>2. /\ heard' = IF ~p.ignore THEN [heard EXCEPT ![p.o.ts.val] = o.ts.val] ELSE heard
              /\ first' = IF first = Nothing
                          THEN [event |-> "baseline", elapsed |-> elapsed, tick |-> p.tick,
                                ignore |-> p.ignore] ELSE first
          BY <1>1, <3>2
        <4>3. /\ socket'.ts_val_map.num_buckets \in Nat \ {0}
              /\ socket' \in [ts_val_map : HashMap(socket'.ts_val_map.num_buckets),
                              found_first_tcp_ts : BOOLEAN,
                              first_script_ts_val : U32, first_actual_ts_val : U32]
              /\ IsHistory(heard') /\ Holds(socket'.ts_val_map, heard')
              /\ IsFirst(first') /\ BaselineOK(socket', first')
          BY <1>3, <2>1, <3>2, <4>1, <4>2, StampedSocket, Zenon DEF IInv
        <4>4. TypeOK'
          BY <1>2, <1>4, <4>3 DEF IInv, TypeOK, IsHistory, IsFirst, HashMap, U32, Nothing
        <4>5. Holds(socket.ts_val_map, heard)' /\ BaselineOK(socket, first)'
          BY <1>2, <4>3 DEF Holds, BaselineOK, ScriptVal
        <4>6. QED
          BY <4>3, <4>4, <4>5
      <3>3. QED
        BY <3>1, <3>2
    <2>6. OptionsVerdict'
      <3>1. o.sack = Moved(sack, start.peer)
        BY <2>1 DEF Options
      <3> HIDE DEF s
      <3>2. \/ ok <=>
                 \/ p.nocheck
                 \/ /\ offset_sack_blocks(p.o, start.peer).sack = o.sack
                    /\ p.o.rest = o.rest /\ HasTs(p.o) = HasTs(o)
                    /\ HasTs(o) => \/ p.ignore \/ config.tcp_ts_tick_usecs = 0
                                   \/ DriftOf(p, first') <= Tolerance
            \/ /\ config.tcp_ts_tick_usecs # 0 /\ HasTs(p.o) /\ HasTs(o)
               /\ p.ignore \/ first'.ignore \/ DriftOf(p, first') >= W \div 2
        BY <1>3, <1>8, <2>1, <2>4, <2>5, <3>1, VerdictIs
      <3>3. Drift' = DriftOf(p, first')
        BY <1>2, <1>4 DEF Drift, DriftOf
      <3>4. offset_sack_blocks(p.o, start.peer).sack = o.sack <=> SameSack'
        BY <1>2, <1>4 DEF SameSack, offset_sack_blocks
      <3>5. config' = config
        BY <1>2
      <3>6. Fits' <=>
              \/ p.nocheck
              \/ /\ offset_sack_blocks(p.o, start.peer).sack = o.sack
                 /\ p.o.rest = o.rest /\ HasTs(p.o) = HasTs(o)
                 /\ HasTs(o) => \/ p.ignore \/ config.tcp_ts_tick_usecs = 0
                                \/ DriftOf(p, first') <= Tolerance
        BY <1>4, <3>3, <3>4, <3>5 DEF Fits
      <3>7. /\ Overflows' <=> HasTs(p.o) /\ HasTs(o) /\ DriftOf(p, first') >= W \div 2
            /\ IgnoredButUsed' <=> HasTs(p.o) /\ HasTs(o) /\ (p.ignore \/ first'.ignore)
        BY <1>4, <3>3 DEF Overflows, IgnoredButUsed
      <3>8. QED
        BY <2>4, <3>2, <3>5, <3>6, <3>7 DEF OptionsVerdict
    <2>7. QED
      BY <1>5, <2>5, <2>6 DEF IInv
  <1>9. QED
    BY <1>7, <1>8

\* A step that changes nothing preserves the invariant.
LEMMA StutterInv == ASSUME IInv, UNCHANGED vars PROVE IInv'
  <1>1. TypeOK'
    BY DEF IInv, vars, TypeOK, HashMap, U32, Nothing
  <1>2. Holds(socket.ts_val_map, heard)' /\ BaselineOK(socket, first)'
    BY DEF IInv, vars, Holds, BaselineOK, ScriptVal
  <1>3. EchoIsKernels'
    BY DEF IInv, vars, EchoIsKernels
  <1>4. OptionsVerdict'
    BY DEF IInv, vars, OptionsVerdict, Fits, SameSack, Drift, Overflows, IgnoredButUsed,
       offset_sack_blocks
  <1>5. QED
    BY <1>1, <1>2, <1>3, <1>4 DEF IInv

------------------------------------------------------------------------------
(* Theorems. *)

\* The invariant holds in every state: the buckets of ts_val_map are those of the
\* history of values, and the baseline is that of the first stamped packet.
THEOREM Invariance == Spec => []IInv
  <1>1. Init => IInv
    BY InitIInv
  <1>2. IInv /\ [Next]_vars => IInv'
    BY TickInv, NextEventInv, InboundInv, OutboundInv, StutterInv DEF Next
  <1>3. QED
    BY <1>1, <1>2, PTL DEF Spec

\* The state of a socket's timestamps has its type, the buckets of the hash map
\* included.
THEOREM TypeCorrect == Spec => []TypeOK
  BY Invariance, PTL DEF IInv

\* map_inbound_packet() echoes the kernel's timestamp of the last packet for which
\* the script gives that value, for every hash function, every bucket limit and
\* every start of the two clocks, and fails only for a value never given.
THEOREM EchoesAreKernels == Spec => []EchoIsKernels
  BY Invariance, PTL DEF IInv

\* verify_outbound_live_tcp_options() passes exactly the options the script
\* describes, for every wrap W, tolerance, tick, clock start, initial sequence
\* number and list of SACK blocks, up to the two exceptions OptionsVerdict names.
THEOREM VerdictsAreRight == Spec => []OptionsVerdict
  BY Invariance, PTL DEF IInv
=============================================================================

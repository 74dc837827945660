---------------------------- MODULE LLMReplyProofs ----------------------------
(* Proofs about LLMReply: what IntentParser reads of a reply, of any length.   *)
EXTENDS LLMReply, FiniteSetTheorems, WellFoundedInduction, SequenceTheorems, TLAPS

-------------------------------------------------------------------------------
(* A set of naturals that is not empty has a least member: of the intervals    *)
(* below its members one has no other below it.                                *)
LEMMA LeastExists ==
  ASSUME NEW S \in SUBSET Nat, S # {}
  PROVE  \E x \in S : \A y \in S : x <= y
<1>. DEFINE Below(n) == {m \in Nat : m < n}
            T == {Below(n) : n \in S}
<1>1. \A n \in Nat : Below(n) \in FiniteSubsetsOf(Nat)
  <2>. TAKE n \in Nat
  <2>1. n - 1 \in Int /\ Below(n) = 0..(n - 1)
    OBVIOUS
  <2>2. IsFiniteSet(0..(n - 1))
    <3>. DEFINE zero == 0  top == n - 1
    <3>1. zero \in Int /\ top \in Int
      BY <2>1
    <3>. HIDE DEF zero, top
    <3>2. IsFiniteSet(zero..top)
      BY <3>1, FS_Interval
    <3>. QED  BY <3>2 DEF zero, top
  <2>. QED  BY <2>1, <2>2 DEF FiniteSubsetsOf
<1>2. T \subseteq FiniteSubsetsOf(Nat) /\ T # {}
  BY <1>1
<1>3. PICK X \in T : \A Y \in T : <<Y, X>> \notin StrictSubsetOrdering(Nat)
  <2>. HIDE DEF T
  <2>. QED  BY <1>2, FS_StrictSubsetOrderingWellFounded, WFMin
<1>4. PICK x \in S : X = Below(x)
  OBVIOUS
<1>5. ASSUME NEW y \in S, y < x PROVE FALSE
  <2>1. /\ Below(y) \in T /\ Below(y) \in SUBSET Nat /\ Below(x) \in SUBSET Nat
        /\ Below(y) \subseteq Below(x)
        /\ y \in Below(x) /\ y \notin Below(y)
    BY <1>5
  <2>2. <<Below(y), Below(x)>> \in StrictSubsetOrdering(Nat)
    <3>. HIDE DEF Below
    <3>. QED  BY <2>1 DEF StrictSubsetOrdering
  <2>. QED  BY <1>3, <1>4, <2>1, <2>2
<1>. QED  BY <1>5

(* So Min is the least member. *)
LEMMA MinIsLeast ==
  ASSUME NEW S \in SUBSET Nat, S # {}
  PROVE  Min(S) \in S /\ \A y \in S : Min(S) <= y
BY LeastExists DEF Min

(* Who is below all members is the least one. *)
LEMMA MinIs ==
  ASSUME NEW S \in SUBSET Nat, NEW x \in S, \A y \in S : x <= y
  PROVE  Min(S) = x
<1>. DEFINE m == Min(S)
<1>1. m \in S /\ m <= x /\ x <= m
  BY MinIsLeast
<1>2. m \in Nat /\ x \in Nat
  BY <1>1
<1>. HIDE DEF m
<1>3. m = x
  BY <1>1, <1>2
<1>. QED  BY <1>3 DEF m

(* And Max of naturals up to a bound is the greatest one. *)
LEMMA MaxIsGreatest ==
  ASSUME NEW n \in Nat, NEW S \in SUBSET Nat, S # {}, \A k \in S : k <= n
  PROVE  Max(S) \in S /\ \A y \in S : y <= Max(S)
<1>. DEFINE R == {i \in Nat : n - i \in S}
<1>0. \A k \in S : n - k \in Nat /\ n - (n - k) = k
  OBVIOUS
<1>1. R \subseteq Nat /\ R # {}
  BY <1>0
<1>2. PICK x \in R : \A y \in R : x <= y
  <2>. HIDE DEF R
  <2>. QED  BY <1>1, LeastExists
<1>3. PICK k \in S : x = n - k
  BY <1>0
<1>4. \A y \in S : k >= y
  <2>. TAKE y \in S
  <2>1. n - y \in R
    BY <1>0
  <2>2. n - k <= n - y /\ k \in Nat /\ y \in Nat
    BY <1>2, <1>3, <2>1
  <2>. QED  BY <2>2
<1>. DEFINE m == Max(S)
<1>5. m \in S /\ \A y \in S : m >= y
  BY <1>4 DEF Max
<1>6. m \in Nat
  BY <1>5
<1>. HIDE DEF m
<1>7. \A y \in S : y <= m
  BY <1>5, <1>6
<1>. QED  BY <1>5, <1>7 DEF m

(* Who is above all members is the greatest one. *)
LEMMA MaxIs ==
  ASSUME NEW S \in SUBSET Nat, NEW x \in S, \A y \in S : y <= x
  PROVE  Max(S) = x
<1>. DEFINE m == Max(S)
<1>1. m \in S /\ m <= x /\ x <= m
  BY MaxIsGreatest, x \in Nat
<1>2. m \in Nat /\ x \in Nat
  BY <1>1
<1>. HIDE DEF m
<1>3. m = x
  BY <1>1, <1>2
<1>. QED  BY <1>3 DEF m

(* Min and Max of a set that is another one, some way to the right. *)
LEMMA MinShift ==
  ASSUME NEW A \in SUBSET Nat, NEW d \in Nat, A # {},
         NEW B \in SUBSET Nat, \A b \in Nat : b \in B <=> \E a \in A : b = a + d
  PROVE  Min(B) = Min(A) + d
<1>. DEFINE m == Min(A)
<1>1. m \in A /\ \A y \in A : m <= y
  BY MinIsLeast
<1>. HIDE DEF m
<1>2. m + d \in B /\ \A b \in B : m + d <= b
  BY <1>1
<1>3. Min(B) = m + d
  BY <1>2, MinIs
<1>. QED  BY <1>3 DEF m

(* The greatest member moves with its set. *)
LEMMA MaxShift ==
  ASSUME NEW n \in Nat, NEW A \in SUBSET Nat, NEW d \in Nat, A # {},
         \A k \in A : k <= n,
         NEW B \in SUBSET Nat, \A b \in Nat : b \in B <=> \E a \in A : b = a + d
  PROVE  Max(B) = Max(A) + d
<1>. DEFINE m == Max(A)
<1>1. m \in A /\ \A y \in A : y <= m
  BY MaxIsGreatest
<1>. HIDE DEF m
<1>2. m + d \in B /\ \A b \in B : b <= m + d
  BY <1>1
<1>3. Max(B) = m + d
  BY <1>2, MaxIs
<1>. QED  BY <1>3 DEF m

-------------------------------------------------------------------------------
(* What of a reply is not white space, and the part of it that extractJSON     *)
(* leaves: all of it, what follows a fence, or what the outermost braces hold. *)
Solid(r)  == DOMAIN r \ Positions(r, {"space"})
SolidIn(r, a, b) == Solid(r) \cap a..b
Fences(r) == Positions(r, {"fence"})
Found(r)  == {k \in Braces(r) : k > Min(Fences(r))}
Stop(r)   == {k \in Ends(r) : k > Min(Found(r))}

(* parseIntent tries the whole reply: nothing but white space, or no prose in  *)
(* front, or no object to cut out, or a block without one.                     *)
Whole(r) ==
    \/ Solid(r) = {}
    \/ Min(Solid(r)) \in Braces(r)
    \/ Fences(r) = {} /\ Closing(r) = {}
    \/ Fences(r) # {} /\ Found(r) = {}
(* What parseIntent cuts out otherwise, as positions of the reply. *)
Window(r) ==
    IF Whole(r) THEN 1..Len(r)
    ELSE IF Fences(r) = {} THEN Min(Braces(r))..Max(Closing(r))
    ELSE IF Stop(r) = {} THEN Min(Found(r))..Len(r)
    ELSE Min(Found(r))..(Min(Stop(r)) - 1)

(* The object that is all the window has but white space. *)
Understood(r, k) == k \in Closing(r) /\ Solid(r) \cap Window(r) = {k}

-------------------------------------------------------------------------------
(* A part of a reply, and what it has of some kind of token. *)
LEMMA Part ==
  ASSUME NEW r \in Seq(Pieces), NEW a \in Nat \ {0}, NEW b \in 0..Len(r)
  PROVE  /\ SubSeq(r, a, b) \in Seq(Pieces)
         /\ Len(SubSeq(r, a, b)) = IF a <= b THEN b - a + 1 ELSE 0
         /\ DOMAIN SubSeq(r, a, b) = 1..Len(SubSeq(r, a, b))
         /\ \A i \in 1..(b - a + 1) : SubSeq(r, a, b)[i] = r[a + i - 1]
<1>1. a \in Int /\ b \in Int /\ \A i \in a..b : r[i] \in Pieces
  OBVIOUS
<1>2. /\ SubSeq(r, a, b) \in Seq(Pieces)
      /\ Len(SubSeq(r, a, b)) = IF a <= b THEN b - a + 1 ELSE 0
      /\ \A i \in 1..(b - a + 1) : SubSeq(r, a, b)[i] = r[a + i - 1]
  BY <1>1, SubSeqProperties
<1>. QED  BY <1>2

(* The pieces of a part are those of the reply, moved to its front. *)
LEMMA PartPositions ==
  ASSUME NEW r \in Seq(Pieces), NEW a \in Nat \ {0}, NEW b \in 0..Len(r)
  PROVE  /\ \A K : \A i \in Nat :
                i \in Positions(SubSeq(r, a, b), K) <=>
                   i >= 1 /\ i + (a - 1) \in Positions(r, K) /\ i + (a - 1) <= b
         /\ \A i \in Nat :
                i \in Solid(SubSeq(r, a, b)) <=>
                   i >= 1 /\ i + (a - 1) \in Solid(r) /\ i + (a - 1) <= b
<1>. DEFINE w == SubSeq(r, a, b)
<1>1. /\ DOMAIN w = 1..Len(w) /\ Len(w) = IF a <= b THEN b - a + 1 ELSE 0
      /\ \A i \in 1..(b - a + 1) : w[i] = r[a + i - 1]
  BY Part
<1>2. DOMAIN r = 1..Len(r) /\ Len(r) \in Nat
  OBVIOUS
<1>. HIDE DEF w
<1>3. \A i \in Nat : i \in DOMAIN w <=>
         i >= 1 /\ i + (a - 1) \in DOMAIN r /\ i + (a - 1) <= b
  BY <1>1, <1>2
<1>4. \A i \in DOMAIN w : i \in Nat /\ w[i] = r[i + (a - 1)]
  BY <1>1
<1>5. ASSUME NEW K, NEW i \in Nat
      PROVE  i \in Positions(w, K) <=>
                i >= 1 /\ i + (a - 1) \in Positions(r, K) /\ i + (a - 1) <= b
  BY <1>3, <1>4 DEF Positions
<1>6. ASSUME NEW i \in Nat
      PROVE  i \in Solid(w) <=>
                i >= 1 /\ i + (a - 1) \in Solid(r) /\ i + (a - 1) <= b
  BY <1>3, <1>5 DEF Solid
<1>. QED  BY <1>5, <1>6 DEF w

(* Positions are naturals up to the length. *)
LEMMA PositionsAreNat ==
  ASSUME NEW r \in Seq(Pieces)
  PROVE  /\ Len(r) \in Nat /\ Solid(r) \in SUBSET Nat
         /\ \A k \in Solid(r) : 1 <= k /\ k <= Len(r)
         /\ \A K : "space" \notin K => Positions(r, K) \subseteq Solid(r)
BY DEF Solid, Positions

(* A part of a part is a part. *)
LEMMA PartOfPart ==
  ASSUME NEW r \in Seq(Pieces), NEW a \in Nat \ {0}, NEW b \in 0..Len(r),
         NEW c \in Nat \ {0}, NEW d \in Nat, c <= d, d <= b - a + 1
  PROVE  SubSeq(SubSeq(r, a, b), c, d) = SubSeq(r, a + c - 1, a + d - 1)
<1>1. Len(r) \in Nat /\ a \in 1..Len(r) /\ b \in 1..Len(r)
  OBVIOUS
<1>2. c \in 1..b - a + 1 /\ d \in 1..b - a + 1
  OBVIOUS
<1>. QED  BY <1>1, <1>2, SubSeqOfSubSeq

(* Trimming a part leaves what is between its first and its last token that is *)
(* not white space; and trimming that leaves it as it is.                      *)
LEMMA Trimmed ==
  ASSUME NEW r \in Seq(Pieces), NEW a \in Nat \ {0}, NEW b \in 0..Len(r)
  PROVE  TrimSpace(SubSeq(r, a, b)) =
            IF SolidIn(r, a, b) = {} THEN <<>>
            ELSE SubSeq(r, Min(SolidIn(r, a, b)), Max(SolidIn(r, a, b)))
<1>. DEFINE S == SolidIn(r, a, b)
<1>. DEFINE w == SubSeq(r, a, b)  A == Solid(w)
<1>1. \A i \in Nat : i \in A <=> i >= 1 /\ i + (a - 1) \in S
  BY PartPositions DEF SolidIn
<1>2. /\ S \in SUBSET Nat /\ \A k \in S : k \in Nat /\ k >= a /\ k <= b
      /\ b \in Nat /\ Len(r) \in Nat
  BY PositionsAreNat DEF SolidIn
<1>3. w \in Seq(Pieces) /\ A \in SUBSET Nat
  BY Part, PositionsAreNat
<1>4. TrimSpace(w) = IF A = {} THEN <<>> ELSE SubSeq(w, Min(A), Max(A))
  BY DEF TrimSpace, Solid
<1>. HIDE DEF A
<1>5. \A k \in S : k - (a - 1) \in A
  <2>. TAKE k \in S
  <2>1. k - (a - 1) \in Nat /\ k - (a - 1) >= 1 /\ (k - (a - 1)) + (a - 1) = k
    BY <1>2
  <2>. QED  BY <1>1, <2>1
<1>6. \A i \in A : i \in Nat /\ i >= 1 /\ i + (a - 1) \in S
  BY <1>1, <1>3
<1>7. CASE S = {}
  BY <1>4, <1>6, <1>7
<1>8. CASE S # {}
  <2>1. A # {}
    BY <1>5, <1>8
  <2>2. a - 1 \in Nat /\ \A i \in Nat : i \in S <=> \E k \in A : i = k + (a - 1)
    BY <1>2, <1>5, <1>6
  <2>3. \A i \in A : i <= b
    BY <1>2, <1>6
  <2>4. Min(S) = Min(A) + (a - 1) /\ Max(S) = Max(A) + (a - 1)
    <3>. DEFINE d == a - 1
    <3>1. d \in Nat /\ \A i \in Nat : i \in S <=> \E k \in A : i = k + d
      BY <2>2
    <3>. HIDE DEF d
    <3>2. Min(S) = Min(A) + d
      BY <1>2, <1>3, <2>1, <3>1, MinShift
    <3>3. Max(S) = Max(A) + d
      <4>1. b \in Nat /\ A \in SUBSET Nat /\ S \in SUBSET Nat
        BY <1>2, <1>3
      <4>. HIDE DEF w
      <4>. QED  BY <4>1, <2>1, <2>3, <3>1, MaxShift
    <3>. QED  BY <3>2, <3>3 DEF d
  <2>5. Min(A) \in A /\ Max(A) \in A /\ Min(A) <= Max(A)
    BY <1>2, <1>3, <2>1, <2>3, MinIsLeast, MaxIsGreatest
  <2>. DEFINE c == Min(A)  d == Max(A)
  <2>6. /\ c \in Nat \ {0} /\ d \in Nat /\ c <= d /\ d + (a - 1) <= b
        /\ Min(S) = c + (a - 1) /\ Max(S) = d + (a - 1)
    BY <1>2, <1>6, <2>4, <2>5
  <2>. HIDE DEF c, d
  <2>7. a + c - 1 = Min(S) /\ a + d - 1 = Max(S) /\ d <= b - a + 1
    BY <2>6, <1>2
  <2>8. SubSeq(w, c, d) = SubSeq(r, a + c - 1, a + d - 1)
    BY <2>6, <2>7, PartOfPart
  <2>9. SubSeq(w, c, d) = SubSeq(r, Min(S), Max(S))
    BY <2>7, <2>8
  <2>. QED  BY <1>4, <1>8, <2>1, <2>9 DEF c, d
<1>. QED  BY <1>7, <1>8

(* The ends of a part's solid tokens. *)
LEMMA SolidEnds ==
  ASSUME NEW r \in Seq(Pieces), NEW a \in Nat \ {0}, NEW b \in 0..Len(r),
         NEW S, S = SolidIn(r, a, b), S # {}
  PROVE  /\ Min(S) \in S /\ Max(S) \in S /\ Min(S) <= Max(S)
         /\ a <= Min(S) /\ Max(S) <= b /\ Min(S) \in Nat /\ Max(S) \in Nat
         /\ \A k \in S : Min(S) <= k /\ k <= Max(S)
<1>1. S \in SUBSET Nat /\ b \in Nat /\ \A k \in S : k >= a /\ k <= b
  BY PositionsAreNat DEF SolidIn
<1>2. /\ Min(S) \in S /\ \A k \in S : Min(S) <= k
      /\ Max(S) \in S /\ \A k \in S : k <= Max(S)
  BY <1>1, MinIsLeast, MaxIsGreatest
<1>. DEFINE lo == Min(S)  hi == Max(S)
<1>3. /\ lo \in S /\ hi \in S /\ lo \in Nat /\ hi \in Nat /\ lo <= hi
      /\ a <= lo /\ hi <= b /\ \A k \in S : k \in Nat /\ lo <= k /\ k <= hi
  BY <1>1, <1>2
<1>. QED  BY <1>3

(* Trimming again takes nothing more. *)
LEMMA TrimmedTwice ==
  ASSUME NEW r \in Seq(Pieces), NEW a \in Nat \ {0}, NEW b \in 0..Len(r)
  PROVE  TrimSpace(TrimSpace(SubSeq(r, a, b))) = TrimSpace(SubSeq(r, a, b))
<1>. DEFINE S == SolidIn(r, a, b)
<1>1. CASE S = {}
  <2>1. TrimSpace(SubSeq(r, a, b)) = <<>>
    BY <1>1, Trimmed
  <2>2. TrimSpace(<<>>) = <<>>
    BY DEF TrimSpace, Positions
  <2>. QED  BY <2>1, <2>2
<1>2. CASE S # {}
  <2>. DEFINE lo == Min(S)  hi == Max(S)
  <2>1. /\ lo \in Nat \ {0} /\ hi \in 0..Len(r) /\ S = SolidIn(r, lo, hi)
    <3>. HIDE DEF S
    <3>1. a <= lo /\ hi <= b /\ lo \in Nat /\ hi \in Nat
      BY <1>2, SolidEnds DEF S
    <3>2. \A k \in S : lo <= k /\ k <= hi
      BY <1>2, SolidEnds DEF S
    <3>. HIDE DEF lo, hi
    <3>3. lo \in Nat \ {0} /\ hi \in 0..Len(r)
      BY <3>1
    <3>4. S = SolidIn(r, lo, hi)
      BY <3>1, <3>2, PositionsAreNat DEF S, SolidIn
    <3>. QED  BY <3>3, <3>4
  <2>2. TrimSpace(SubSeq(r, a, b)) = SubSeq(r, lo, hi)
    BY <1>2, Trimmed
  <2>3. TrimSpace(SubSeq(r, lo, hi)) = SubSeq(r, Min(S), Max(S))
    <3>. HIDE DEF lo, hi, S
    <3>. QED  BY <1>2, <2>1, Trimmed
  <2>. QED  BY <2>2, <2>3
<1>. QED  BY <1>1, <1>2

(* What json.Unmarshal takes of a part is the object that is all it has but    *)
(* white space.                                                                *)
Only(r, a, b, k) == SolidIn(r, a, b) = {k}

(* A trimmed part is one piece iff the part has one piece that is not space. *)
LEMMA TakenFromPart ==
  ASSUME NEW r \in Seq(Pieces), NEW a \in Nat \ {0}, NEW b \in 0..Len(r),
         NEW json, json = TrimSpace(SubSeq(r, a, b))
  PROVE  /\ Len(json) = 1 => \E k : Only(r, a, b, k) /\ json[1] = r[k]
         /\ \A k : Only(r, a, b, k) => Len(json) = 1 /\ json[1] = r[k]
<1>. DEFINE S == SolidIn(r, a, b)
<1>. SUFFICES /\ Len(json) = 1 => \E k \in S : S = {k} /\ json[1] = r[k]
              /\ \A k : S = {k} => Len(json) = 1 /\ json[1] = r[k]
  BY DEF Only
<1>1. CASE S = {}
  <2>1. json = <<>>
    BY <1>1, Trimmed
  <2>. QED  BY <1>1, <2>1
<1>2. CASE S # {}
  <2>. DEFINE lo == Min(S)  hi == Max(S)
  <2>1. /\ lo \in S /\ hi \in S /\ lo <= hi /\ a <= lo /\ hi <= b
        /\ lo \in Nat /\ hi \in Nat
    BY <1>2, SolidEnds
  <2>2. json = SubSeq(r, lo, hi)
    BY <1>2, Trimmed
  <2>. HIDE DEF lo, hi
  <2>3. lo \in Nat \ {0} /\ hi \in 0..Len(r)
    BY <2>1
  <2>4. Len(json) = hi - lo + 1
    BY <2>1, <2>2, <2>3, Part
  <2>5. json[1] = r[lo]
    <3>1. 1 \in 1..(hi - lo + 1) /\ lo + 1 - 1 = lo
      BY <2>1
    <3>2. json[1] = r[lo + 1 - 1]
      BY <2>2, <2>3, <3>1, Part
    <3>. QED  BY <3>1, <3>2
  <2>6. Len(json) = 1 => S = {lo}
    <3>. SUFFICES ASSUME Len(json) = 1 PROVE S = {lo}
      OBVIOUS
    <3>1. hi = lo
      <4>1. hi \in Nat /\ lo \in Nat /\ 1 = hi - lo + 1
        BY <2>1, <2>4, Zenon
      <4>. QED  BY <4>1
    <3>2. \A k \in S : lo <= k /\ k <= hi /\ k \in Nat
      BY <1>2, SolidEnds, PositionsAreNat DEF lo, hi, SolidIn
    <3>3. \A k \in S : k = lo
      BY <2>1, <3>1, <3>2
    <3>. QED  BY <2>1, <3>3
  <2>7. ASSUME NEW k, S = {k} PROVE Len(json) = 1 /\ json[1] = r[k]
    <3>1. lo = k /\ hi = k
      BY <2>1, <2>7
    <3>. QED  BY <2>1, <2>4, <2>5, <3>1
  <2>. QED  BY <2>1, <2>5, <2>6, <2>7
<1>. QED  BY <1>1, <1>2

(* Two parts with the same solid tokens are the same once trimmed. *)
LEMMA SameSolid ==
  ASSUME NEW r \in Seq(Pieces), NEW a \in Nat \ {0}, NEW b \in 0..Len(r),
         NEW c \in Nat \ {0}, NEW d \in 0..Len(r),
         SolidIn(r, a, b) = SolidIn(r, c, d)
  PROVE  TrimSpace(SubSeq(r, a, b)) = TrimSpace(SubSeq(r, c, d))
<1>1. CASE SolidIn(r, a, b) = {}
  <2>1. TrimSpace(SubSeq(r, a, b)) = <<>>
    BY <1>1, Trimmed
  <2>2. TrimSpace(SubSeq(r, c, d)) = <<>>
    BY <1>1, Trimmed
  <2>. QED  BY <2>1, <2>2
<1>2. CASE SolidIn(r, a, b) # {}
  <2>1. TrimSpace(SubSeq(r, a, b)) = SubSeq(r, Min(SolidIn(r, a, b)), Max(SolidIn(r, a, b)))
    BY <1>2, Trimmed
  <2>2. TrimSpace(SubSeq(r, c, d)) = SubSeq(r, Min(SolidIn(r, c, d)), Max(SolidIn(r, c, d)))
    BY <1>2, Trimmed
  <2>. QED  BY <2>1, <2>2
<1>. QED  BY <1>1, <1>2

(* Trimming a reply takes d of white space before its first solid token, and   *)
(* leaves n tokens.                                                            *)
Trims(r, u, d, n) ==
    /\ d + 1 = Min(Solid(r)) /\ d + n <= Len(r)
    /\ u = SubSeq(r, d + 1, d + n) /\ u \in Seq(Pieces) /\ Len(u) = n
    /\ \A k \in Solid(r) : d + 1 <= k /\ k <= d + n

(* A trimmed reply is the reply from its first to its last solid piece. *)
LEMMA TrimmedReply ==
  ASSUME NEW r \in Seq(Pieces), Solid(r) # {}
  PROVE  \E d, n \in Nat : Trims(r, TrimSpace(r), d, n)
<1>. DEFINE S == Solid(r)  u == TrimSpace(r)
<1>1. Len(r) \in Nat /\ SubSeq(r, 1, Len(r)) = r
  BY SubSeqFull
<1>2. S = SolidIn(r, 1, Len(r))
  BY PositionsAreNat DEF SolidIn
<1>3. 1 \in Nat \ {0} /\ Len(r) \in 0..Len(r) /\ S # {}
  BY <1>1
<1>4. u = SubSeq(r, Min(S), Max(S))
  <2>1. TrimSpace(SubSeq(r, 1, Len(r))) = SubSeq(r, Min(S), Max(S))
    <3>. HIDE DEF S
    <3>. QED  BY <1>2, <1>3, Trimmed
  <2>. QED  BY <1>1, <2>1
<1>5. /\ Min(S) \in Nat /\ Max(S) \in Nat /\ 1 <= Min(S) /\ Min(S) <= Max(S)
      /\ Max(S) <= Len(r) /\ \A k \in S : Min(S) <= k /\ k <= Max(S)
  <2>. HIDE DEF S
  <2>. QED  BY <1>2, <1>3, SolidEnds
<1>. HIDE DEF S, u
<1>6. PICK lo \in Nat, hi \in Nat : lo = Min(S) /\ hi = Max(S)
  BY <1>5
<1>7. PICK d \in Nat, n \in Nat : lo = d + 1 /\ hi = d + n
  <2>1. lo - 1 \in Nat /\ hi - (lo - 1) \in Nat
    BY <1>5, <1>6
  <2>2. lo = (lo - 1) + 1 /\ hi = (lo - 1) + (hi - (lo - 1))
    OBVIOUS
  <2>. QED  BY <2>1, <2>2
<1>8. d + 1 \in Nat \ {0} /\ d + n \in 0..Len(r) /\ d + 1 <= d + n /\ d + n <= Len(r)
  BY <1>1, <1>5, <1>6, <1>7
<1>9. u = SubSeq(r, d + 1, d + n)
  BY <1>4, <1>6, <1>7
<1>10. u \in Seq(Pieces) /\ Len(u) = n
  <2>1. u \in Seq(Pieces) /\ Len(u) = (d + n) - (d + 1) + 1
    BY <1>8, <1>9, Part
  <2>. QED  BY <2>1
<1>11. Trims(r, u, d, n)
  BY <1>5, <1>6, <1>7, <1>8, <1>9, <1>10 DEF Trims, S
<1>. QED  BY <1>11 DEF u

-------------------------------------------------------------------------------
(* B is A, d to the right. *)
Moved(A, B, d) ==
    /\ A \in SUBSET Nat /\ B \in SUBSET Nat
    /\ \A i \in A : i + d \in B
    /\ \A k \in B : k - d \in A

(* A set that is moved keeps being empty or not, and its ends move with it. *)
LEMMA MovedEnds ==
  ASSUME NEW d \in Nat, NEW n \in Nat, NEW A, NEW B, Moved(A, B, d),
         \A k \in A : k <= n
  PROVE  /\ A = {} <=> B = {}
         /\ A # {} => /\ Min(B) = Min(A) + d /\ Min(A) \in A /\ Min(B) \in B
                      /\ Max(B) = Max(A) + d /\ Max(A) \in A /\ Max(B) \in B
                      /\ \A k \in A : Min(A) <= k /\ k <= Max(A)
                      /\ \A k \in B : Min(B) <= k /\ k <= Max(B)
<1>1. /\ A \in SUBSET Nat /\ B \in SUBSET Nat
      /\ \A b \in Nat : b \in B <=> \E a \in A : b = a + d
  BY DEF Moved
<1>2. (A = {} <=> B = {}) /\ \A k \in B : k <= n + d
  BY DEF Moved
<1>3. ASSUME A # {}
      PROVE  /\ Min(B) = Min(A) + d /\ Min(A) \in A /\ Min(B) \in B
             /\ \A k \in A : Min(A) <= k
             /\ \A k \in B : Min(B) <= k
  BY <1>1, <1>2, <1>3, MinShift, MinIsLeast
<1>4. ASSUME A # {}
      PROVE  /\ Max(A) \in A /\ Max(B) \in B
             /\ \A k \in A : k <= Max(A)
             /\ \A k \in B : k <= Max(B)
  <2>1. n + d \in Nat
    OBVIOUS
  <2>. QED  BY <1>1, <1>2, <1>4, <2>1, MaxIsGreatest
<1>5. ASSUME A # {} PROVE Max(B) = Max(A) + d
  BY <1>1, <1>5, MaxShift
<1>. QED  BY <1>2, <1>3, <1>4, <1>5

(* So do the members above a bound. *)
LEMMA MovedAbove ==
  ASSUME NEW d \in Nat, NEW A, NEW B, Moved(A, B, d), NEW m \in Nat
  PROVE  Moved({i \in A : i > m}, {k \in B : k > m + d}, d)
<1>1. \A i \in A : i \in Nat /\ (i > m <=> i + d > m + d)
  BY DEF Moved
<1>2. \A k \in B : k \in Nat /\ k - d \in Nat /\ (k - d > m <=> k > m + d)
  BY DEF Moved
<1>. QED  BY <1>1, <1>2 DEF Moved

(* Everything the parser looks for moves when the reply is trimmed. *)
LEMMA KindMoves ==
  ASSUME NEW r \in Seq(Pieces), NEW u, NEW d \in Nat, NEW n \in Nat,
         Trims(r, u, d, n), NEW K, "space" \notin K
  PROVE  /\ Moved(Positions(u, K), Positions(r, K), d)
         /\ \A k \in Positions(u, K) : k \in Nat /\ 1 <= k /\ k <= n
<1>1. \A k \in Positions(u, K) : k \in Nat /\ 1 <= k /\ k <= n
  BY DEF Trims, Positions
<1>2. \A k \in Positions(r, K) : k \in Nat /\ d + 1 <= k /\ k <= d + n
  BY PositionsAreNat DEF Trims
<1>3. \A i \in Nat : i \in Positions(u, K) <=>
         i >= 1 /\ i + d \in Positions(r, K) /\ i + d <= d + n
  <2>1. Len(r) \in Nat /\ d + 1 \in Nat \ {0} /\ d + n \in 0..Len(r) /\ (d + 1) - 1 = d
    BY DEF Trims
  <2>. QED  BY <2>1, PartPositions DEF Trims
<1>4. \A i \in Positions(u, K) : i + d \in Positions(r, K)
  BY <1>1, <1>3
<1>5. \A k \in Positions(r, K) : k - d \in Positions(u, K)
  <2>. TAKE k \in Positions(r, K)
  <2>1. k - d \in Nat /\ k - d >= 1 /\ (k - d) + d = k /\ k <= d + n
    BY <1>2
  <2>. QED  BY <1>3, <2>1
<1>6. Moved(Positions(u, K), Positions(r, K), d)
  BY <1>1, <1>2, <1>4, <1>5 DEF Moved
<1>. QED  BY <1>1, <1>6

(* Trimming moves the fences, the braces and the ends of blocks. *)
LEMMA TokensMove ==
  ASSUME NEW r \in Seq(Pieces), NEW u, NEW d \in Nat, NEW n \in Nat,
         Trims(r, u, d, n)
  PROVE  /\ Moved(Fences(u), Fences(r), d)
         /\ Moved(Braces(u), Braces(r), d)
         /\ Moved(Closing(u), Closing(r), d)
         /\ Moved(Ends(u), Ends(r), d)
         /\ \A k \in Fences(u) \cup Braces(u) \cup Closing(u) \cup Ends(u) :
               k \in Nat /\ 1 <= k /\ k <= n
<1>1. ASSUME NEW K, "space" \notin K
      PROVE  /\ Moved(Positions(u, K), Positions(r, K), d)
             /\ \A k \in Positions(u, K) : k \in Nat /\ 1 <= k /\ k <= n
  BY <1>1, KindMoves
<1>2. \A K \in {{"fence"}, {"object", "open"}, {"object"}, {"fence", "ticks"}} :
         "space" \notin K
  OBVIOUS
<1>. QED  BY <1>1, <1>2 DEF Fences, Braces, Closing, Ends

(* A part of the trimmed reply is one of the reply, d further. *)
Cut(r, a, b) == SubSeq(r, a, b)

(* What is cut out of the trimmed reply is cut out of the reply. *)
LEMMA PartOfTrimmed ==
  ASSUME NEW r \in Seq(Pieces), NEW u, NEW d \in Nat, NEW n \in Nat,
         Trims(r, u, d, n), NEW c \in Nat, NEW e \in Nat, 1 <= c, c <= e, e <= n
  PROVE  /\ Cut(u, c, e) = Cut(r, c + d, e + d)
         /\ c + d \in Nat \ {0} /\ e + d \in 0..Len(r)
<1>1. /\ Len(r) \in Nat /\ d + 1 \in Nat \ {0} /\ d + n \in 0..Len(r)
      /\ u = SubSeq(r, d + 1, d + n) /\ c \in Nat \ {0} /\ e <= (d + n) - (d + 1) + 1
  BY DEF Trims
<1>2. SubSeq(u, c, e) = SubSeq(r, (d + 1) + c - 1, (d + 1) + e - 1)
  BY <1>1, PartOfPart
<1>3. (d + 1) + c - 1 = c + d /\ (d + 1) + e - 1 = e + d
  OBVIOUS
<1>4. c + d \in Nat \ {0} /\ e + d \in 0..Len(r)
  BY <1>1 DEF Trims
<1>. QED  BY <1>2, <1>3, <1>4 DEF Cut

(* What extractJSON leaves is the window, but for the white space around it. *)
LEMMA Extracted ==
  ASSUME NEW r \in Seq(Pieces), Solid(r) # {}
  PROVE  \E a \in Nat \ {0}, b \in 0..Len(r) :
            /\ Window(r) = a..b
            /\ TrimSpace(extractJSON(r)) = TrimSpace(SubSeq(r, a, b))
<1>. DEFINE u == TrimSpace(r)
<1>1. PICK d \in Nat, n \in Nat : Trims(r, u, d, n)
  BY TrimmedReply
<1>2. /\ Moved(Fences(u), Fences(r), d) /\ Moved(Braces(u), Braces(r), d)
      /\ Moved(Closing(u), Closing(r), d) /\ Moved(Ends(u), Ends(r), d)
      /\ \A k \in Fences(u) \cup Braces(u) \cup Closing(u) \cup Ends(u) :
            k \in Nat /\ 1 <= k /\ k <= n
  <2>. HIDE DEF u
  <2>. QED  BY <1>1, TokensMove
<1>3. 1 \in Braces(u) <=> Min(Solid(r)) \in Braces(r)
  <2>1. Min(Solid(r)) = 1 + d /\ (1 + d) - d = 1
    BY <1>1 DEF Trims
  <2>. HIDE DEF u
  <2>. QED  BY <1>2, <2>1 DEF Moved
<1>4. extractJSON(r) = IF 1 \in Braces(u) THEN u
                       ELSE IF Fences(u) # {} THEN Fenced(u) ELSE Outermost(u)
  BY DEF extractJSON, Fences
<1>5. Fences(u) # {} =>
         Fenced(u) = IF Found(u) = {} THEN u
                     ELSE IF Stop(u) = {} THEN SubSeq(u, Min(Found(u)), n)
                     ELSE TrimSpace(SubSeq(u, Min(Found(u)), Min(Stop(u)) - 1))
  BY <1>1 DEF Trims, Fenced, Fences, Found, Stop
<1>6. Outermost(u) = IF Closing(u) = {} THEN u
                     ELSE SubSeq(u, Min(Braces(u)), Max(Closing(u)))
  BY DEF Outermost
<1>7. Closing(u) \subseteq Braces(u)
  BY DEF Closing, Braces, Positions
<1>8. TrimSpace(u) = TrimSpace(SubSeq(r, 1, Len(r)))
  <2>1. SubSeq(r, 1, Len(r)) = r
    BY SubSeqFull
  <2>2. TrimSpace(TrimSpace(SubSeq(r, 1, Len(r)))) = TrimSpace(SubSeq(r, 1, Len(r)))
    BY 1 \in Nat \ {0}, Len(r) \in 0..Len(r), TrimmedTwice
  <2>. QED  BY <2>1, <2>2
<1>. HIDE DEF u
<1>9. /\ Fences(u) = {} <=> Fences(r) = {}
      /\ Closing(u) = {} <=> Closing(r) = {}
  BY <1>2 DEF Moved
<1>10. ASSUME Fences(r) # {} PROVE Moved(Found(u), Found(r), d)
  <2>1. Min(Fences(r)) = Min(Fences(u)) + d /\ Min(Fences(u)) \in Fences(u)
    BY <1>2, <1>9, <1>10, MovedEnds
  <2>2. Min(Fences(u)) \in Nat
    BY <1>2, <2>1
  <2>3. Moved({i \in Braces(u) : i > Min(Fences(u))},
              {k \in Braces(r) : k > Min(Fences(u)) + d}, d)
    BY <1>2, <2>2, MovedAbove
  <2>. QED  BY <2>1, <2>3 DEF Found
<1>11. ASSUME Fences(r) # {}, Found(r) # {}
       PROVE  /\ Moved(Stop(u), Stop(r), d) /\ Found(u) # {}
              /\ Min(Found(r)) = Min(Found(u)) + d /\ Min(Found(u)) \in Found(u)
              /\ Min(Found(u)) \in Nat /\ 1 <= Min(Found(u)) /\ Min(Found(u)) <= n
  <2>1. Moved(Found(u), Found(r), d)
    BY <1>10, <1>11
  <2>2. \A k \in Found(u) : k \in Nat /\ 1 <= k /\ k <= n
    BY <1>2 DEF Found
  <2>3. /\ Found(u) # {} /\ Min(Found(r)) = Min(Found(u)) + d
        /\ Min(Found(u)) \in Found(u)
    BY <1>11, <2>1, <2>2, MovedEnds
  <2>4. Min(Found(u)) \in Nat /\ 1 <= Min(Found(u)) /\ Min(Found(u)) <= n
    BY <2>2, <2>3
  <2>5. Moved({i \in Ends(u) : i > Min(Found(u))},
              {k \in Ends(r) : k > Min(Found(u)) + d}, d)
    BY <1>2, <2>4, MovedAbove
  <2>. QED  BY <2>3, <2>4, <2>5 DEF Stop
<1>12. CASE Whole(r)
  <2>1. extractJSON(r) = u
    <3>1. CASE 1 \in Braces(u)
      BY <1>4, <3>1
    <3>2. CASE Fences(r) = {} /\ Closing(r) = {}
      BY <1>4, <1>6, <1>9, <3>2
    <3>3. CASE Fences(r) # {} /\ Found(r) = {}
      <4>1. Found(u) = {}
        BY <1>10, <3>3 DEF Moved
      <4>. QED  BY <1>4, <1>5, <1>9, <3>3, <4>1
    <3>. QED  BY <1>3, <1>12, <3>1, <3>2, <3>3 DEF Whole
  <2>2. 1 \in Nat \ {0} /\ Len(r) \in 0..Len(r)
    OBVIOUS
  <2>3. Window(r) = 1..Len(r)
    BY <1>12 DEF Window
  <2>. QED  BY <1>8, <2>1, <2>2, <2>3
<1>13. CASE ~Whole(r) /\ Fences(r) = {}
  <2>1. 1 \notin Braces(u) /\ Closing(r) # {} /\ Closing(u) # {}
    BY <1>3, <1>9, <1>13 DEF Whole
  <2>2. PICK c \in Nat, e \in Nat :
           /\ c = Min(Braces(u)) /\ Min(Braces(r)) = c + d
           /\ e = Max(Closing(u)) /\ Max(Closing(r)) = e + d
           /\ 1 <= c /\ c <= e /\ e <= n
    <3>1. Braces(u) # {}
      BY <1>7, <2>1
    <3>2. /\ Min(Braces(r)) = Min(Braces(u)) + d /\ Min(Braces(u)) \in Braces(u)
          /\ \A k \in Braces(u) : Min(Braces(u)) <= k
      BY <1>2, <3>1, MovedEnds
    <3>3. /\ Max(Closing(r)) = Max(Closing(u)) + d /\ Max(Closing(u)) \in Closing(u)
      BY <1>2, <2>1, MovedEnds
    <3>. QED  BY <1>2, <1>7, <3>2, <3>3
  <2>3. /\ SubSeq(u, c, e) = SubSeq(r, c + d, e + d)
        /\ c + d \in Nat \ {0} /\ e + d \in 0..Len(r)
    <3>1. 1 <= c /\ c <= e /\ e <= n
      BY <2>2
    <3>2. Cut(u, c, e) = Cut(r, c + d, e + d)
      BY <1>1, <3>1, PartOfTrimmed
    <3>3. c + d \in Nat \ {0} /\ e + d \in 0..Len(r)
      BY <1>1, <3>1, PartOfTrimmed
    <3>. QED  BY <3>2, <3>3 DEF Cut
  <2>4. extractJSON(r) = SubSeq(r, c + d, e + d)
    BY <1>4, <1>6, <1>9, <1>13, <2>1, <2>2, <2>3
  <2>5. Window(r) = (c + d)..(e + d)
    BY <1>13, <2>2 DEF Window
  <2>. QED  BY <2>3, <2>4, <2>5
<1>14. CASE ~Whole(r) /\ Fences(r) # {} /\ Stop(r) = {}
  <2>1. 1 \notin Braces(u) /\ Found(r) # {}
    BY <1>3, <1>14 DEF Whole
  <2>2. Found(u) # {} /\ Stop(u) = {}
    BY <1>11, <1>14, <2>1 DEF Moved
  <2>3. PICK c \in Nat : /\ c = Min(Found(u)) /\ Min(Found(r)) = c + d
                         /\ 1 <= c /\ c <= n
    BY <1>11, <1>14, <2>1
  <2>4. SubSeq(u, c, n) = SubSeq(r, c + d, n + d) /\ c + d \in Nat \ {0} /\ n + d \in 0..Len(r)
    <3>1. 1 <= c /\ c <= n /\ n <= n
      BY <2>3
    <3>2. Cut(u, c, n) = Cut(r, c + d, n + d)
      BY <1>1, <3>1, PartOfTrimmed
    <3>3. c + d \in Nat \ {0} /\ n + d \in 0..Len(r)
      BY <1>1, <3>1, PartOfTrimmed
    <3>. QED  BY <3>2, <3>3 DEF Cut
  <2>5. extractJSON(r) = SubSeq(r, c + d, n + d)
    BY <1>4, <1>5, <1>9, <1>14, <2>1, <2>2, <2>3, <2>4
  <2>6. Len(r) \in 0..Len(r) /\ SolidIn(r, c + d, n + d) = SolidIn(r, c + d, Len(r))
    BY <1>1, <2>4, PositionsAreNat DEF Trims, SolidIn
  <2>7. TrimSpace(extractJSON(r)) = TrimSpace(SubSeq(r, c + d, Len(r)))
    BY <2>4, <2>5, <2>6, SameSolid
  <2>8. Window(r) = (c + d)..Len(r)
    BY <1>14, <2>3 DEF Window
  <2>. QED  BY <2>4, <2>6, <2>7, <2>8
<1>15. CASE ~Whole(r) /\ Fences(r) # {} /\ Stop(r) # {}
  <2>1. 1 \notin Braces(u) /\ Found(r) # {}
    BY <1>3, <1>15 DEF Whole
  <2>2. Found(u) # {} /\ Stop(u) # {}
    BY <1>11, <1>15, <2>1 DEF Moved
  <2>3. PICK c \in Nat : /\ c = Min(Found(u)) /\ Min(Found(r)) = c + d
                         /\ 1 <= c /\ c <= n
    BY <1>11, <1>15, <2>1
  <2>4. PICK e \in Nat : /\ Min(Stop(u)) - 1 = e /\ Min(Stop(r)) - 1 = e + d
                         /\ c <= e /\ e <= n
    <3>1. \A k \in Stop(u) : k \in Nat /\ k <= n /\ k > c
      BY <1>2, <2>3 DEF Stop
    <3>2. Min(Stop(r)) = Min(Stop(u)) + d /\ Min(Stop(u)) \in Stop(u)
      BY <1>11, <1>15, <2>1, <2>2, <3>1, MovedEnds
    <3>3. PICK m \in Nat : m = Min(Stop(u)) /\ m <= n /\ m > c
      BY <3>1, <3>2
    <3>4. m - 1 \in Nat /\ (m + d) - 1 = (m - 1) + d /\ c <= m - 1 /\ m - 1 <= n
      BY <3>3
    <3>. QED  BY <3>2, <3>3, <3>4
  <2>5. SubSeq(u, c, e) = SubSeq(r, c + d, e + d) /\ c + d \in Nat \ {0} /\ e + d \in 0..Len(r)
    <3>1. 1 <= c /\ c <= e /\ e <= n
      BY <2>3, <2>4
    <3>2. Cut(u, c, e) = Cut(r, c + d, e + d)
      BY <1>1, <3>1, PartOfTrimmed
    <3>3. c + d \in Nat \ {0} /\ e + d \in 0..Len(r)
      BY <1>1, <3>1, PartOfTrimmed
    <3>. QED  BY <3>2, <3>3 DEF Cut
  <2>6. extractJSON(r) = TrimSpace(SubSeq(r, c + d, e + d))
    BY <1>4, <1>5, <1>9, <1>15, <2>1, <2>2, <2>3, <2>4, <2>5
  <2>7. TrimSpace(extractJSON(r)) = TrimSpace(SubSeq(r, c + d, e + d))
    BY <2>5, <2>6, TrimmedTwice
  <2>8. Window(r) = (c + d)..(e + d)
    BY <1>15, <2>3, <2>4 DEF Window
  <2>. QED  BY <2>5, <2>7, <2>8
<1>. QED  BY <1>12, <1>13, <1>14, <1>15

(* What parseIntent makes of a reply: the object that is all its window has    *)
(* but white space, or nothing (intent_parser.go:8-42).                        *)
LEMMA ParseReads ==
  ASSUME NEW r \in Seq(Pieces)
  PROVE  /\ \A k : Understood(r, k) => parseIntent(r) = r[k].intent
         /\ parseIntent(r) # NoIntent => \E k : Understood(r, k)
<1>. DEFINE json == TrimSpace(extractJSON(r))
<1>1. parseIntent(r) = IF Len(json) = 1 /\ json[1].kind = "object"
                       THEN json[1].intent ELSE NoIntent
  BY DEF parseIntent
<1>2. CASE Solid(r) = {}
  <2>1. TrimSpace(r) = <<>>
    BY <1>2 DEF TrimSpace, Solid
  <2>2. \A K : Positions(<<>>, K) = {}
    BY DEF Positions
  <2>3. extractJSON(r) = <<>>
    BY <2>1, <2>2 DEF extractJSON, Outermost, Braces, Closing
  <2>4. json = <<>>
    BY <2>2, <2>3 DEF TrimSpace
  <2>5. parseIntent(r) = NoIntent
    BY <1>1, <2>4
  <2>. QED  BY <1>2, <2>5 DEF Understood
<1>3. CASE Solid(r) # {}
  <2>1. PICK a \in Nat \ {0}, b \in 0..Len(r) :
           Window(r) = a..b /\ json = TrimSpace(SubSeq(r, a, b))
    BY <1>3, Extracted
  <2>2. SolidIn(r, a, b) = Solid(r) \cap Window(r)
    BY <2>1 DEF SolidIn
  <2>. HIDE DEF json
  <2>3. /\ Len(json) = 1 => \E k : Only(r, a, b, k) /\ json[1] = r[k]
        /\ \A k : Only(r, a, b, k) => Len(json) = 1 /\ json[1] = r[k]
    BY <2>1, TakenFromPart
  <2>4. ASSUME NEW k, Understood(r, k) PROVE parseIntent(r) = r[k].intent
    <3>1. Len(json) = 1 /\ json[1] = r[k] /\ r[k].kind = "object"
      BY <2>2, <2>3, <2>4 DEF Only, Understood, Closing, Positions
    <3>. QED  BY <1>1, <3>1
  <2>5. ASSUME parseIntent(r) # NoIntent PROVE \E k : Understood(r, k)
    <3>1. Len(json) = 1 /\ json[1].kind = "object"
      BY <1>1, <2>5
    <3>2. PICK k : SolidIn(r, a, b) = {k} /\ json[1] = r[k]
      BY <2>3, <3>1 DEF Only
    <3>3. k \in Closing(r)
      BY <2>2, <3>1, <3>2 DEF Closing, Positions, Solid
    <3>. QED  BY <2>2, <3>2, <3>3 DEF Understood
  <2>. QED  BY <2>4, <2>5
<1>. QED  BY <1>2, <1>3

(* All the sets of positions the invariants speak of are naturals, with a      *)
(* first and a last one.                                                       *)
LEMMA Tokens ==
  ASSUME NEW r \in Seq(Pieces)
  PROVE  /\ Len(r) \in Nat /\ Solid(r) \in SUBSET Nat
         /\ \A k \in Solid(r) : 1 <= k /\ k <= Len(r)
         /\ Closing(r) \subseteq Braces(r) /\ Fences(r) \subseteq Ends(r)
         /\ Braces(r) \subseteq Solid(r) /\ Ends(r) \subseteq Solid(r)
         /\ Braces(r) \cap Ends(r) = {}
BY PositionsAreNat DEF Closing, Braces, Fences, Ends, Positions, Solid

-------------------------------------------------------------------------------
(* An object that is alone with its braces, and behind which its block ends or *)
(* nothing comes, is all its window has.                                       *)
LEMMA LoneIsUnderstood ==
  ASSUME NEW r \in Seq(Pieces), NEW k \in Closing(r), Braces(r) = {k},
         NEW after, after = {n \in DOMAIN r : n > k} \ Positions(r, {"space"}),
         \/ after = {}
         \/ /\ Fences(r) # {} /\ Min(Fences(r)) < k
            /\ Min(after) \in Ends(r)
  PROVE  Understood(r, k)
<1>1. /\ Len(r) \in Nat /\ Solid(r) \in SUBSET Nat /\ k \in Solid(r)
      /\ \A j \in Solid(r) : 1 <= j /\ j <= Len(r)
      /\ Fences(r) \subseteq Ends(r) /\ Ends(r) \subseteq Solid(r)
      /\ k \notin Ends(r)
  BY Tokens
<1>2. after = {j \in Solid(r) : j > k}
  BY DEF Solid
<1>3. /\ Fences(r) # {} => /\ Min(Fences(r)) \in Fences(r)
                           /\ \A j \in Fences(r) : Min(Fences(r)) <= j
  BY <1>1, MinIsLeast
<1>4. Min(Solid(r)) \in Solid(r) /\ \A j \in Solid(r) : Min(Solid(r)) <= j
  BY <1>1, MinIsLeast
<1>5. Solid(r) \cap Window(r) = {k}
  <2>1. CASE Whole(r)
    <3>1. CASE Min(Solid(r)) \in Braces(r)
      <4>1. after = {}
        BY <1>1, <1>3, <1>4, <3>1
      <4>2. \A j \in Solid(r) : j = k
        BY <1>1, <1>2, <1>4, <3>1, <4>1
      <4>. QED  BY <1>1, <2>1, <4>2 DEF Window
    <3>2. CASE Fences(r) # {} /\ Found(r) = {}
      <4>1. Min(Fences(r)) \in Solid(r) /\ Min(Fences(r)) # k
        BY <1>1, <1>3, <3>2
      <4>2. ~(k > Min(Fences(r)))
        BY <3>2 DEF Found
      <4>3. Min(Fences(r)) \in after
        BY <1>1, <1>2, <4>1, <4>2
      <4>4. ~(Min(Fences(r)) < k)
        BY <1>1, <4>1, <4>2
      <4>. QED  BY <4>3, <4>4
    <3>. QED  BY <1>1, <2>1, <3>1, <3>2 DEF Whole
  <2>2. CASE ~Whole(r) /\ Fences(r) = {}
    <3>1. Closing(r) = {k}
      BY Tokens
    <3>2. Min({k}) = k /\ Max({k}) = k
      BY <1>1, MinIs, MaxIs
    <3>. QED  BY <1>1, <2>2, <3>1, <3>2 DEF Window
  <2>3. CASE ~Whole(r) /\ Fences(r) # {}
    <3>1. Found(r) = {k} /\ Min(Found(r)) = k
      <4>1. Found(r) = {k}
        BY <2>3 DEF Whole, Found
      <4>2. Min({k}) = k
        BY <1>1, MinIs
      <4>. QED  BY <4>1, <4>2
    <3>2. Stop(r) = {j \in Ends(r) : j > k}
      BY <3>1 DEF Stop
    <3>3. Stop(r) \in SUBSET Nat /\ Stop(r) \subseteq after /\ after \in SUBSET Nat
      BY <1>1, <1>2, <3>2
    <3>4. after # {} => /\ Min(after) \in Stop(r)
                       /\ \A j \in after : Min(after) <= j
      <4>. SUFFICES ASSUME after # {}
                    PROVE  Min(after) \in Stop(r) /\ \A j \in after : Min(after) <= j
        OBVIOUS
      <4>1. Min(after) \in after /\ \A j \in after : Min(after) <= j
        BY <3>3, MinIsLeast
      <4>. QED  BY <1>2, <3>2, <4>1
    <3>5. CASE Stop(r) = {}
      <4>1. after = {} /\ Window(r) = k..Len(r)
        BY <2>3, <3>1, <3>4, <3>5 DEF Window
      <4>. QED  BY <1>1, <1>2, <4>1
    <3>6. CASE Stop(r) # {}
      <4>. DEFINE m == Min(Stop(r))
      <4>1. m \in after /\ m \in Nat /\ m > k /\ \A j \in Stop(r) : m <= j
        BY <1>2, <3>3, <3>6, MinIsLeast
      <4>2. Window(r) = k..(m - 1)
        BY <2>3, <3>1, <3>6 DEF Window
      <4>. HIDE DEF m
      <4>3. \A j \in after : m <= j
        <5>1. m <= Min(after) /\ \A j \in after : Min(after) <= j
          BY <3>4, <4>1
        <5>2. Min(after) \in Nat /\ \A j \in after : j \in Nat
          BY <3>3, <3>4, <4>1
        <5>. QED  BY <4>1, <5>1, <5>2
      <4>4. \A j \in Solid(r) : j \in k..(m - 1) <=> j = k
        BY <1>1, <1>2, <4>1, <4>3
      <4>. QED  BY <1>1, <4>2, <4>4
    <3>. QED  BY <3>5, <3>6
  <2>. QED  BY <2>1, <2>2, <2>3
<1>. QED  BY <1>5 DEF Understood

(* What is understood is the only complete object, or all that has braces      *)
(* between the first fence and the end of a block or of the reply.             *)
LEMMA UnderstoodIsAlone ==
  ASSUME NEW r \in Seq(Pieces), NEW k, Understood(r, k)
  PROVE  \/ Closing(r) = {k}
         \/ \E f \in Fences(r), e \in Ends(r) \cup {Len(r) + 1} :
               f = Min(Fences(r)) /\ Braces(r) \cap f..e = {k}
<1>1. /\ Len(r) \in Nat /\ Solid(r) \in SUBSET Nat
      /\ \A j \in Solid(r) : 1 <= j /\ j <= Len(r)
      /\ Closing(r) \subseteq Braces(r) /\ Fences(r) \subseteq Ends(r)
      /\ Braces(r) \subseteq Solid(r) /\ Ends(r) \subseteq Solid(r)
      /\ Braces(r) \cap Ends(r) = {}
  BY Tokens
<1>2. k \in Closing(r) /\ k \in Window(r) /\ \A j \in Solid(r) : j \in Window(r) => j = k
  BY DEF Understood
<1>3. CASE Whole(r)
  <2>1. Window(r) = 1..Len(r)
    BY <1>3 DEF Window
  <2>. QED  BY <1>1, <1>2, <2>1
<1>4. CASE ~Whole(r) /\ Fences(r) = {}
  <2>. DEFINE lo == Min(Braces(r))  hi == Max(Closing(r))
  <2>1. Window(r) = lo..hi
    BY <1>4 DEF Window
  <2>2. lo \in Nat /\ \A j \in Braces(r) : lo <= j
    BY <1>1, <1>2, MinIsLeast
  <2>3. hi \in Nat /\ \A j \in Closing(r) : j <= hi
    BY <1>1, <1>2, MaxIsGreatest
  <2>. HIDE DEF lo, hi
  <2>. QED  BY <1>1, <1>2, <2>1, <2>2, <2>3
<1>5. CASE ~Whole(r) /\ Fences(r) # {}
  <2>. DEFINE f == Min(Fences(r))  c == Min(Found(r))
  <2>1. f \in Fences(r) /\ f \in Nat /\ f = Min(Fences(r))
    BY <1>1, <1>5, MinIsLeast
  <2>2. Found(r) # {} /\ Found(r) = {j \in Braces(r) : j > f}
    BY <1>5 DEF Whole, Found
  <2>3. c \in Found(r) /\ c \in Nat /\ \A j \in Found(r) : c <= j
    BY <1>1, <2>2, MinIsLeast
  <2>4. \A j \in Braces(r) : j >= f => j >= c
    BY <1>1, <2>1, <2>2, <2>3
  <2>5. CASE Stop(r) = {}
    <3>1. Window(r) = c..Len(r)
      BY <1>5, <2>5 DEF Window
    <3>. HIDE DEF f, c
    <3>2. c = k
      BY <1>1, <1>2, <2>2, <2>3, <3>1
    <3>3. Braces(r) \cap f..(Len(r) + 1) = {k}
      BY <1>1, <1>2, <2>1, <2>2, <2>3, <2>4, <3>1, <3>2
    <3>. QED  BY <2>1, <3>3
  <2>6. CASE Stop(r) # {}
    <3>. DEFINE e == Min(Stop(r))
    <3>1. Window(r) = c..(e - 1)
      BY <1>5, <2>6 DEF Window
    <3>2. e \in Ends(r) /\ e \in Nat /\ e > c
      BY <1>1, <2>6, MinIsLeast DEF Stop
    <3>. HIDE DEF f, c, e
    <3>3. c = k
      BY <1>1, <1>2, <2>2, <2>3, <3>1, <3>2
    <3>4. Braces(r) \cap f..e = {k}
      BY <1>1, <1>2, <2>1, <2>2, <2>3, <2>4, <3>1, <3>2, <3>3
    <3>. QED  BY <2>1, <3>2, <3>4
  <2>. QED  BY <2>5, <2>6
<1>. QED  BY <1>3, <1>4, <1>5

-------------------------------------------------------------------------------
(* The rules that a message of one appliance may meet. *)
Meets(w, k) == Rules[k].needs \subseteq w

(* The rules as the source lists them, up to the generic ones. *)
LEMMA RulesAre ==
  /\ DOMAIN Rules = 1..11
  /\ Rules[1] = Rule({"on", "lamp"}, "turn_on", "light")
  /\ Rules[2] = Rule({"off", "lamp"}, "turn_off", "light")
  /\ Rules[3] = Rule({"on_aircon"}, "turn_on", "aircon")
  /\ Rules[4] = Rule({"off_aircon"}, "turn_off", "aircon")
  /\ Rules[5] = Rule({"on_curtain"}, "open", "curtain")
  /\ Rules[6] = Rule({"off_curtain"}, "close", "curtain")
  /\ Rules[7] = Rule({"draw_curtain"}, "close", "curtain")
<1>1. DOMAIN Rules = 1..11
  BY DEF Rules, Rule
<1>. QED  BY <1>1 DEF Rules

LEMMA RuleFields ==
  ASSUME NEW needs, NEW action, NEW target
  PROVE  /\ Rule(needs, action, target).needs = needs
         /\ Rule(needs, action, target).action = action
         /\ Rule(needs, action, target).target = target
BY DEF Rule

(* What words each rule asks for, and what it makes of them. *)
LEMMA RulesNeed ==
  ASSUME NEW w
  PROVE  /\ Meets(w, 1) <=> "on" \in w /\ "lamp" \in w
         /\ Meets(w, 2) <=> "off" \in w /\ "lamp" \in w
         /\ Meets(w, 3) <=> "on_aircon" \in w
         /\ Meets(w, 4) <=> "off_aircon" \in w
         /\ Meets(w, 5) <=> "on_curtain" \in w
         /\ Meets(w, 6) <=> "off_curtain" \in w
         /\ Meets(w, 7) <=> "draw_curtain" \in w
<1>1. /\ Rules[1].needs = {"on", "lamp"} /\ Rules[2].needs = {"off", "lamp"}
      /\ Rules[3].needs = {"on_aircon"} /\ Rules[4].needs = {"off_aircon"}
      /\ Rules[5].needs = {"on_curtain"} /\ Rules[6].needs = {"off_curtain"}
      /\ Rules[7].needs = {"draw_curtain"}
  BY RulesAre, RuleFields
<1>. QED  BY <1>1 DEF Meets

LEMMA RulesMean ==
  /\ Rules[3].action = "turn_on"  /\ Rules[3].target = "aircon"
  /\ Rules[4].action = "turn_off" /\ Rules[4].target = "aircon"
  /\ Rules[5].action = "open"     /\ Rules[5].target = "curtain"
  /\ Rules[6].action = "close"    /\ Rules[6].target = "curtain"
  /\ Rules[7].action = "close"    /\ Rules[7].target = "curtain"
BY RulesAre, RuleFields

(* The rule that is applied is the first one whose words are all said. *)
LEMMA RuleIs ==
  ASSUME NEW w, NEW k \in 1..11, Meets(w, k),
         \A j \in 1..11 : j < k => ~Meets(w, j)
  PROVE  fallbackIntent(w) = Rules[k]
<1>. DEFINE S == {j \in DOMAIN Rules : Rules[j].needs \subseteq w}
<1>1. DOMAIN Rules = 1..11
  BY RulesAre
<1>2. S \in SUBSET Nat /\ k \in S /\ \A j \in S : k <= j
  BY <1>1 DEF Meets
<1>. HIDE DEF S
<1>3. Min(S) = k
  BY <1>2, MinIs
<1>. QED  BY <1>3 DEF fallbackIntent, FirstOf, S

(* What a message says of an appliance, and nothing of the lamp or the others, *)
(* is what the first of the appliance's rules makes of it.                     *)
LEMMA AirconIsMeant ==
  ASSUME NEW w, "lamp" \notin w,
         "on_aircon" \in w \/ "off_aircon" \in w,
         NEW i, i = fallbackIntent(w)
  PROVE  /\ i.target = "aircon"
         /\ "off_aircon" \notin w => i.action = "turn_on"
         /\ "on_aircon" \notin w => i.action = "turn_off"
<1>1. ~Meets(w, 1) /\ ~Meets(w, 2)
  BY RulesNeed
<1>2. CASE "on_aircon" \in w
  <2>1. Meets(w, 3) /\ \A j \in 1..11 : j < 3 => j = 1 \/ j = 2
    BY <1>2, RulesNeed
  <2>2. i = Rules[3]
    BY <1>1, <2>1, RuleIs
  <2>. QED  BY <1>2, <2>2, RulesMean
<1>3. CASE "on_aircon" \notin w
  <2>1. Meets(w, 4) /\ ~Meets(w, 3) /\ \A j \in 1..11 : j < 4 => j = 1 \/ j = 2 \/ j = 3
    BY <1>3, RulesNeed
  <2>2. i = Rules[4]
    BY <1>1, <2>1, RuleIs
  <2>. QED  BY <1>3, <2>2, RulesMean
<1>. QED  BY <1>2, <1>3

LEMMA CurtainIsMeant ==
  ASSUME NEW w, "lamp" \notin w, "on_aircon" \notin w, "off_aircon" \notin w,
         "on_curtain" \in w \/ "off_curtain" \in w \/ "draw_curtain" \in w,
         NEW i, i = fallbackIntent(w)
  PROVE  /\ i.target = "curtain"
         /\ "on_curtain" \in w => i.action = "open"
         /\ "on_curtain" \notin w => i.action = "close"
<1>1. ~Meets(w, 1) /\ ~Meets(w, 2) /\ ~Meets(w, 3) /\ ~Meets(w, 4)
  BY RulesNeed
<1>2. /\ \A j \in 1..11 : j < 5 => j = 1 \/ j = 2 \/ j = 3 \/ j = 4
      /\ \A j \in 1..11 : j < 6 => j < 5 \/ j = 5
      /\ \A j \in 1..11 : j < 7 => j < 6 \/ j = 6
  OBVIOUS
<1>3. CASE "on_curtain" \in w
  <2>1. Meets(w, 5)
    BY <1>3, RulesNeed
  <2>2. i = Rules[5]
    BY <1>1, <1>2, <2>1, RuleIs
  <2>. QED  BY <1>3, <2>2, RulesMean
<1>4. CASE "on_curtain" \notin w /\ "off_curtain" \in w
  <2>1. ~Meets(w, 5) /\ Meets(w, 6)
    BY <1>4, RulesNeed
  <2>2. i = Rules[6]
    BY <1>1, <1>2, <2>1, RuleIs
  <2>. QED  BY <1>4, <2>2, RulesMean
<1>5. CASE "on_curtain" \notin w /\ "off_curtain" \notin w
  <2>1. ~Meets(w, 5) /\ ~Meets(w, 6) /\ Meets(w, 7)
    BY <1>5, RulesNeed
  <2>2. i = Rules[7]
    BY <1>1, <1>2, <2>1, RuleIs
  <2>. QED  BY <1>5, <2>2, RulesMean
<1>. QED  BY <1>3, <1>4, <1>5

-------------------------------------------------------------------------------
(* What the parser is given is pieces of a reply, in any number. *)
TypeOK == raw \in Seq(Pieces)

(* A reply stays a sequence of pieces, however long the LLM writes. *)
THEOREM TypeCorrect == Spec => []TypeOK
<1>1. Init => TypeOK
  BY DEF Init, TypeOK
<1>2. TypeOK /\ [Next]_vars => TypeOK'
  BY DEF TypeOK, Next, Write, Say, vars
<1>. QED  BY <1>1, <1>2, PTL DEF Spec

(* An object that is all a reply has of braces is executed, whatever prose and *)
(* white space come before, if its block ends or nothing comes behind it: for  *)
(* replies of any length (intent_parser.go:8-42).                              *)
THEOREM LoneObjectsUnderstood == Spec => []LoneObjectUnderstood
<1>1. TypeOK => LoneObjectUnderstood
  <2>. SUFFICES ASSUME TypeOK, NEW k \in Closing(raw), Braces(raw) = {k},
                       NEW after, after = {n \in DOMAIN raw : n > k} \ Positions(raw, {"space"}),
                       \/ after = {}
                       \/ /\ Fences(raw) # {} /\ Min(Fences(raw)) < k
                          /\ Min(after) \in Ends(raw)
                PROVE  parseIntent(raw) = raw[k].intent
    BY DEF LoneObjectUnderstood, Fences
  <2>1. Understood(raw, k)
    BY LoneIsUnderstood DEF TypeOK
  <2>. QED  BY <2>1, ParseReads DEF TypeOK
<1>. QED  BY <1>1, TypeCorrect, PTL

(* What is executed of a reply, of any length, is one object of it: the only   *)
(* complete one, or the only one with braces between the first fence and an    *)
(* end behind it (intent_parser.go:15-62).                                     *)
THEOREM OnlyOneExecuted == Spec => []ExecutesTheOnlyOne
<1>1. TypeOK => ExecutesTheOnlyOne
  <2>. SUFFICES ASSUME TypeOK, parseIntent(raw) # NoIntent
                PROVE  \E k \in Closing(raw) :
                          /\ parseIntent(raw) = raw[k].intent
                          /\ \/ Closing(raw) = {k}
                             \/ \E f \in Fences(raw), e \in Ends(raw) \cup {Len(raw) + 1} :
                                   f = Min(Fences(raw)) /\ Braces(raw) \cap f..e = {k}
    BY DEF ExecutesTheOnlyOne, Fences
  <2>1. PICK k : Understood(raw, k)
    BY ParseReads DEF TypeOK
  <2>2. parseIntent(raw) = raw[k].intent
    BY <2>1, ParseReads DEF TypeOK
  <2>3. k \in Closing(raw)
    BY <2>1 DEF Understood
  <2>4. \/ Closing(raw) = {k}
        \/ \E f \in Fences(raw), e \in Ends(raw) \cup {Len(raw) + 1} :
              f = Min(Fences(raw)) /\ Braces(raw) \cap f..e = {k}
    BY <2>1, UnderstoodIsAlone DEF TypeOK
  <2>. QED  BY <2>2, <2>3, <2>4
<1>. QED  BY <1>1, TypeCorrect, PTL

(* An appliance that is named is the one that is meant, and is not switched    *)
(* the other way, although generic verbs match too (llm_client.go:233-263).    *)
THEOREM WordsAreRespected == Spec => []WordsRespected
<1>1. WordsRespected
  <2>. SUFFICES ASSUME NEW a \in DOMAIN Naming,
                       text \subseteq (text \cap Naming[a].on) \cup
                                      (text \cap Naming[a].off) \cup {"on", "off"}
                PROVE  LET ons  == text \cap Naming[a].on
                           offs == text \cap Naming[a].off
                           i    == fallbackIntent(text)
                       IN  /\ ons \cup offs # {} => i.target = a
                           /\ ons # {} /\ offs = {} => i.action \in {"turn_on", "open"}
                           /\ offs # {} /\ ons = {} => i.action \in {"turn_off", "close"}
    BY DEF WordsRespected
  <2>1. a \in {"aircon", "curtain"}
    BY DEF Naming
  <2>2. CASE a = "aircon"
    <3>1. Naming[a].on = {"on_aircon"} /\ Naming[a].off = {"off_aircon"}
      BY <2>2 DEF Naming
    <3>2. "lamp" \notin text
      BY <3>1
    <3>. QED  BY <2>2, <3>1, <3>2, AirconIsMeant
  <2>3. CASE a = "curtain"
    <3>1. Naming[a].on = {"on_curtain"} /\ Naming[a].off = {"off_curtain", "draw_curtain"}
      BY <2>3 DEF Naming
    <3>2. "lamp" \notin text /\ "on_aircon" \notin text /\ "off_aircon" \notin text
      BY <3>1
    <3>. QED  BY <2>3, <3>1, <3>2, CurtainIsMeant
  <2>. QED  BY <2>1, <2>2, <2>3
<1>. QED  BY <1>1, PTL
===============================================================================

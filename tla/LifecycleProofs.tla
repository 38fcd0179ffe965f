--------------------------- MODULE LifecycleProofs ---------------------------
(***************************************************************************)
(* Proofs about Lifecycle: for every set of environments, whatever is set   *)
(* in them and however the allow-list is written, and for every set of jobs *)
(* of whatever kinds.                                                       *)
(***************************************************************************)
EXTENDS Lifecycle, WellFoundedInduction, SequenceTheorems, TLAPS

-----------------------------------------------------------------------------
(***************************************************************************)
(* The strengthening.  How far main has got says which settings were found  *)
(* right and what they left behind; a transport's task exists only with its *)
(* setting right and the schema in place; work exists only where it could   *)
(* be taken; and no HTTP request is cut while the process lives.            *)
(***************************************************************************)
Past(x) ==
  CASE x = "auth" -> Phases \ {"auth", "exited", "killed"}
    [] x = "schema" -> {"cors", "tcp", "nats", "http", "serving", "draining"}
    [] x = "cors" -> {"tcp", "nats", "http", "serving", "draining"}
    [] x = "tcp" -> {"nats", "http", "serving", "draining"}
    [] x = "nats" -> {"http", "serving", "draining"}

AvenueSetting(a) == IF a = "tcp" THEN TcpSetting(env) ELSE NatsSetting(env)
Honoured(a) ==
  /\ AvenueSetting(a) # "bad"
  /\ AvenueSetting(a) = "good" => avenue[a] # "none"

Settled ==
  /\ env \in Environments
  /\ phase \in Past("auth") \/ migrated => AuthSetting(env) # "bad"
  /\ phase \in Past("schema") => migrated
  /\ phase \in Past("cors") =>
       CorsLayer(env).verdict # "bad" /\ origins = CorsLayer(env).origins
  /\ \A a \in Avenues : phase \in Past(a) => Honoured(a)

Spawned == \A a \in Avenues : avenue[a] # "none" => migrated /\ AvenueSetting(a) = "good"

Taken ==
  \A j \in Jobs : job[j] # "none" =>
    /\ migrated
    /\ KindOf[j] \in Avenues => avenue[KindOf[j]] # "none"
    /\ KindOf[j] \in {"http", "socket"} =>
         phase \notin Steps /\ \A a \in Avenues : Honoured(a)

Whole ==
  \A j \in Jobs : KindOf[j] = "http" /\ phase # "killed" =>
    /\ job[j] # "cut"
    /\ phase = "exited" => job[j] # "running"

LifeInv == TypeOK /\ Settled /\ Spawned /\ Taken /\ Whole

-----------------------------------------------------------------------------
(* The origin policy: what splitting and trimming leave of a text. *)

(* A nonempty set of naturals has a least element. *)
LEMMA LeastOf ==
  ASSUME NEW S \in SUBSET Nat, S # {}
  PROVE  \E x \in S : \A y \in S : x <= y
<1> DEFINE R == OpToRel(<, Nat)
<1>1. IsWellFoundedOn(R, Nat)
  BY NatLessThanWellFounded
<1>2. \A x, y \in Nat : x < y => <<x, y>> \in R
  BY DEF OpToRel
<1> HIDE DEF R
<1>3. PICK x \in S : \A y \in S : ~ (<<y, x>> \in R)
  BY <1>1, WFMin
<1>4. \A y \in S : ~ (y < x)
  BY <1>2, <1>3
<1> QED  BY <1>4

(* A nonempty bounded set of naturals has a greatest element. *)
LEMMA GreatestOf ==
  ASSUME NEW S \in SUBSET Nat, S # {}, NEW n \in Nat, \A x \in S : x <= n
  PROVE  \E x \in S : \A y \in S : x >= y
<1> DEFINE T == {n - x : x \in S}
<1>a. \A x \in S : n - x \in Nat
  OBVIOUS
<1>1. T \in SUBSET Nat /\ T # {}
  BY <1>a
<1>2. PICK t \in T : \A u \in T : t <= u
  BY <1>1, LeastOf
<1>3. PICK x \in S : t = n - x
  BY <1>2
<1>4. \A y \in S : n - x <= n - y
  BY <1>2, <1>3
<1>5. \A y \in S : x >= y
  BY <1>4
<1> QED  BY <1>5

(* a .. b is the part of the text from its first to its last token that is  *)
(* no space.                                                                *)
Kept(text, a, b) ==
  /\ a \in 1 .. Len(text) /\ b \in 1 .. Len(text) /\ a <= b
  /\ text[a] # " " /\ text[b] # " "
  /\ \A k \in 1 .. Len(text) : (a <= k /\ k <= b) \/ text[k] = " "

(* Trim returns that part. *)
LEMMA TrimKeeps ==
  ASSUME NEW text \in Seq(Tokens), NEW a, NEW b, Kept(text, a, b)
  PROVE  Trim(text) = SubSeq(text, a, b)
<1> DEFINE kept == {i \in DOMAIN text : text[i] # " "}
<1>1. DOMAIN text = 1 .. Len(text) /\ Len(text) \in Nat
  OBVIOUS
<1>2. a \in kept /\ b \in kept
  BY <1>1 DEF Kept
<1>3. ASSUME NEW i \in kept PROVE i \in Nat /\ a <= i /\ i <= b
  <2>1. i \in 1 .. Len(text)
    BY <1>1
  <2>2. text[i] # " "
    OBVIOUS
  <2> HIDE DEF kept
  <2>3. i \in Nat
    BY <1>1, <2>1
  <2>4. a <= i /\ i <= b
    BY <2>1, <2>2 DEF Kept
  <2> QED  BY <2>3, <2>4
<1> HIDE DEF kept
<1>4. a = CHOOSE i \in kept : \A j \in kept : i <= j
  <2>1. \A i \in kept : (\A j \in kept : i <= j) <=> i = a
    BY <1>2, <1>3
  <2> QED  BY <2>1, <1>2
<1>5. b = CHOOSE i \in kept : \A j \in kept : i >= j
  <2>1. \A i \in kept : (\A j \in kept : i >= j) <=> i = b
    BY <1>2, <1>3
  <2> QED  BY <2>1, <1>2
<1> QED  BY <1>2, <1>4, <1>5 DEF Trim, kept

(* What is not empty once trimmed has such a part. *)
LEMMA TrimFinds ==
  ASSUME NEW text \in Seq(Tokens), Trim(text) # <<>>
  PROVE  \E a, b \in 1 .. Len(text) : Kept(text, a, b)
<1> DEFINE kept == {i \in DOMAIN text : text[i] # " "}
<1>1. DOMAIN text = 1 .. Len(text) /\ Len(text) \in Nat
  OBVIOUS
<1>a. ASSUME NEW i \in kept PROVE i \in Nat /\ i <= Len(text)
  <2>1. i \in 1 .. Len(text)
    BY <1>1
  <2> HIDE DEF kept
  <2> QED  BY <1>1, <2>1
<1>2. kept # {} /\ kept \in SUBSET Nat
  BY <1>a DEF Trim
<1>3. PICK a \in kept : \A i \in kept : a <= i
  BY <1>2, LeastOf
<1>4. PICK b \in kept : \A i \in kept : b >= i
  BY <1>1, <1>2, <1>a, GreatestOf
<1>5. a \in 1 .. Len(text) /\ b \in 1 .. Len(text) /\ text[a] # " " /\ text[b] # " " /\ a <= b
  BY <1>1, <1>3, <1>4
<1>6. \A k \in 1 .. Len(text) : (a <= k /\ k <= b) \/ text[k] = " "
  BY <1>1, <1>3, <1>4
<1> QED  BY <1>5, <1>6 DEF Kept

(* Two cuts with none between them, and the piece they leave. *)
Neighbours(raw, from, to) ==
  /\ from \in Cuts(raw) /\ to \in Cuts(raw) /\ from < to
  /\ \A other \in Cuts(raw) : other <= from \/ other >= to
Piece(raw, from, to) == SubSeq(raw, from + 1, to - 1)

(* An item of the list, as ListedIn reads it off the text. *)
Comma(raw, i, j) == \E k \in i .. j : raw[k] = ","
Item(raw, i, j) ==
  /\ i <= j /\ ~Comma(raw, i, j) /\ raw[i] # " " /\ raw[j] # " "
  /\ \A k \in 1 .. i - 1 : Comma(raw, k, i) \/ raw[k] = " "
  /\ \A k \in j + 1 .. Len(raw) : Comma(raw, j, k) \/ raw[k] = " "

(* The candidates are what is left of the pieces. *)
LEMMA CandidatesArePieces ==
  ASSUME NEW raw, NEW x
  PROVE  x \in Candidates(raw) <=>
           /\ x # <<>>
           /\ \E from, to \in Cuts(raw) :
                Neighbours(raw, from, to) /\ x = Trim(Piece(raw, from, to))
<1>1. ASSUME NEW y
      PROVE  y \in Split(raw) <=>
               \E from, to \in Cuts(raw) : Neighbours(raw, from, to) /\ y = Piece(raw, from, to)
  <2> DEFINE neighbours == {cut \in Cuts(raw) \X Cuts(raw) :
                       /\ cut[1] < cut[2]
                       /\ \A other \in Cuts(raw) : other <= cut[1] \/ other >= cut[2]}
  <2>1. \A from, to \in Cuts(raw) : <<from, to>> \in neighbours <=> Neighbours(raw, from, to)
    BY DEF Neighbours
  <2>2. \A cut \in neighbours :
          cut[1] \in Cuts(raw) /\ cut[2] \in Cuts(raw) /\ Neighbours(raw, cut[1], cut[2])
    BY DEF Neighbours
  <2>3. y \in Split(raw) <=> \E cut \in neighbours : y = Piece(raw, cut[1], cut[2])
    BY DEF Split, Piece
  <2> HIDE DEF neighbours
  <2> QED  BY <2>1, <2>2, <2>3
<1>2. x \in Candidates(raw) <=> x # <<>> /\ \E y \in Split(raw) : x = Trim(y)
  BY DEF Candidates
<1> QED  BY <1>1, <1>2

(* The listed origins are the items. *)
LEMMA ListedAreItems ==
  ASSUME NEW raw, NEW x
  PROVE  x \in ListedIn(raw) <=>
           \E i, j \in 1 .. Len(raw) : Item(raw, i, j) /\ x = SubSeq(raw, i, j)
<1> DEFINE items == {p \in (1 .. Len(raw)) \X (1 .. Len(raw)) : Item(raw, p[1], p[2])}
<1>1. ListedIn(raw) = {SubSeq(raw, p[1], p[2]) : p \in items}
  BY DEF ListedIn, Item, Comma
<1>2. ASSUME NEW i \in 1 .. Len(raw), NEW j \in 1 .. Len(raw), Item(raw, i, j)
      PROVE  SubSeq(raw, i, j) \in ListedIn(raw)
  <2>1. <<i, j>> \in items /\ <<i, j>>[1] = i /\ <<i, j>>[2] = j
    BY <1>2
  <2> HIDE DEF items
  <2> QED  BY <1>1, <2>1
<1>3. \A p \in items :
        p[1] \in 1 .. Len(raw) /\ p[2] \in 1 .. Len(raw) /\ Item(raw, p[1], p[2])
  OBVIOUS
<1> HIDE DEF items
<1> QED  BY <1>1, <1>2, <1>3

(* A piece holds the tokens between its cuts, and no comma. *)
LEMMA PieceTokens ==
  ASSUME NEW raw \in Seq(Tokens), NEW from, NEW to, Neighbours(raw, from, to)
  PROVE  /\ from \in 0 .. Len(raw) /\ to \in 1 .. Len(raw) + 1
         /\ Piece(raw, from, to) \in Seq(Tokens)
         /\ Len(Piece(raw, from, to)) = to - from - 1
         /\ \A k \in 1 .. to - from - 1 :
              Piece(raw, from, to)[k] = raw[from + k] /\ raw[from + k] # ","
         /\ from # 0 => raw[from] = ","
         /\ to # Len(raw) + 1 => raw[to] = ","
<1>1. Len(raw) \in Nat /\ \A k \in 1 .. Len(raw) : raw[k] \in Tokens
  OBVIOUS
<1>2. ASSUME NEW cut \in Cuts(raw)
      PROVE  /\ cut \in 0 .. Len(raw) + 1
             /\ cut # 0 /\ cut # Len(raw) + 1 => raw[cut] = ","
  <2>1. cut = 0 \/ cut = Len(raw) + 1 \/ (cut \in 1 .. Len(raw) /\ raw[cut] = ",")
    BY DEF Cuts
  <2>2. CASE cut = 0
    BY <1>1, <2>2
  <2>3. CASE cut = Len(raw) + 1
    BY <1>1, <2>3
  <2>4. CASE cut \in 1 .. Len(raw) /\ raw[cut] = ","
    <3>1. ASSUME NEW k \in 1 .. Len(raw) PROVE k \in 0 .. Len(raw) + 1
      BY <1>1
    <3> QED  BY <2>4, <3>1
  <2> QED  BY <2>1, <2>2, <2>3, <2>4
<1>3. from \in 0 .. Len(raw) /\ to \in 1 .. Len(raw) + 1 /\ from < to
  <2>1. from \in 0 .. Len(raw) + 1 /\ to \in 0 .. Len(raw) + 1 /\ from < to
    BY <1>2 DEF Neighbours
  <2> QED  BY <1>1, <2>1
<1>4. \A k \in from + 1 .. to - 1 : k \in 1 .. Len(raw) /\ raw[k] \in Tokens
  BY <1>1, <1>3
<1>5. \A k \in from + 1 .. to - 1 : raw[k] # ","
  <2>1. SUFFICES ASSUME NEW k \in from + 1 .. to - 1, raw[k] = "," PROVE FALSE
    OBVIOUS
  <2>2. k \in Cuts(raw)
    <3>1. k \in 1 .. Len(raw)
      BY <1>4
    <3> QED  BY <2>1, <3>1 DEF Cuts
  <2>3. k <= from \/ k >= to
    BY <2>2 DEF Neighbours
  <2>4. from \in Int /\ to \in Int /\ k \in Int /\ from < k /\ k < to
    BY <1>1, <1>3
  <2> QED  BY <2>3, <2>4
<1>6. /\ Piece(raw, from, to) \in Seq(Tokens)
      /\ Len(Piece(raw, from, to)) =
           IF from + 1 <= to - 1 THEN (to - 1) - (from + 1) + 1 ELSE 0
      /\ \A k \in 1 .. (to - 1) - (from + 1) + 1 :
           Piece(raw, from, to)[k] = raw[(from + 1) + k - 1]
  <2>1. from + 1 \in Int /\ to - 1 \in Int
    BY <1>1, <1>3
  <2> QED  BY <2>1, <1>4, SubSeqProperties DEF Piece
<1>7. /\ Len(Piece(raw, from, to)) = to - from - 1
      /\ \A k \in 1 .. to - from - 1 : Piece(raw, from, to)[k] = raw[from + k]
  BY <1>1, <1>3, <1>6
<1>8. \A k \in 1 .. to - from - 1 : raw[from + k] # ","
  <2>1. ASSUME NEW k \in 1 .. to - from - 1 PROVE from + k \in from + 1 .. to - 1
    BY <1>1, <1>3
  <2> QED  BY <1>5, <2>1
<1>9. (from # 0 => raw[from] = ",") /\ (to # Len(raw) + 1 => raw[to] = ",")
  <2>1. from # Len(raw) + 1 /\ to # 0
    BY <1>1, <1>3
  <2> QED  BY <1>2, <2>1 DEF Neighbours
<1> QED  BY <1>3, <1>6, <1>7, <1>8, <1>9

(* A piece of a piece is a piece. *)
LEMMA PieceOfPiece ==
  ASSUME NEW raw \in Seq(Tokens), NEW i \in 1 .. Len(raw), NEW j \in 1 .. Len(raw),
         NEW m \in 1 .. j - i + 1, NEW n \in 1 .. j - i + 1,
         i <= j, m <= n
  PROVE  SubSeq(SubSeq(raw, i, j), m, n) = SubSeq(raw, i + m - 1, i + n - 1)
<1> DEFINE X == SubSeq(raw, i, j)
           Y == SubSeq(X, m, n)
           Z == SubSeq(raw, i + m - 1, i + n - 1)
<1>0. Len(raw) \in Nat
  OBVIOUS
<1>1. /\ i \in Int /\ j \in Int /\ m \in Int /\ n \in Int
      /\ 1 <= i /\ i <= j /\ j <= Len(raw) /\ 1 <= m /\ m <= n /\ n <= j - i + 1
  BY <1>0
<1>2. \A k \in i .. j : raw[k] \in Tokens
  <2>1. ASSUME NEW k \in i .. j PROVE k \in 1 .. Len(raw)
    BY <1>0, <1>1
  <2> QED  BY <2>1
<1>3. /\ X \in Seq(Tokens) /\ Len(X) = j - i + 1
      /\ \A k \in 1 .. j - i + 1 : X[k] = raw[i + k - 1]
  BY <1>1, <1>2, SubSeqProperties
<1> HIDE DEF X
<1>4. \A k \in m .. n : X[k] \in Tokens
  <2>1. ASSUME NEW k \in m .. n PROVE k \in 1 .. Len(X)
    BY <1>1, <1>3
  <2> QED  BY <1>3, <2>1
<1>5. /\ Y \in Seq(Tokens) /\ Len(Y) = n - m + 1
      /\ \A k \in 1 .. n - m + 1 : Y[k] = X[m + k - 1]
  BY <1>1, <1>4, SubSeqProperties
<1>6. \A k \in i + m - 1 .. i + n - 1 : raw[k] \in Tokens
  <2>1. ASSUME NEW k \in i + m - 1 .. i + n - 1 PROVE k \in i .. j
    BY <1>1
  <2> QED  BY <1>2, <2>1
<1>7. /\ Z \in Seq(Tokens) /\ Len(Z) = n - m + 1
      /\ \A k \in 1 .. n - m + 1 : Z[k] = raw[(i + m - 1) + k - 1]
  <2>1. i + m - 1 \in Int /\ i + n - 1 \in Int /\ i + m - 1 <= i + n - 1
        /\ (i + n - 1) - (i + m - 1) + 1 = n - m + 1
    BY <1>1
  <2> QED  BY <1>6, <2>1, SubSeqProperties
<1> HIDE DEF Y, Z
<1>8. ASSUME NEW k \in 1 .. n - m + 1 PROVE Y[k] = Z[k]
  <2>1. m + k - 1 \in 1 .. j - i + 1 /\ i + (m + k - 1) - 1 = (i + m - 1) + k - 1
    BY <1>1
  <2> QED  BY <1>3, <1>5, <1>7, <2>1
<1>9. Y = Z
  BY <1>5, <1>7, <1>8, SeqEqual
<1> QED  BY <1>9 DEF X, Y, Z

(* What is left of a piece is an item: the cuts around it are commas or the *)
(* ends of the text.                                                        *)
LEMMA PieceGivesItem ==
  ASSUME NEW raw \in Seq(Tokens), NEW from, NEW to, Neighbours(raw, from, to),
         Trim(Piece(raw, from, to)) # <<>>
  PROVE  \E i, j \in 1 .. Len(raw) :
           Item(raw, i, j) /\ Trim(Piece(raw, from, to)) = SubSeq(raw, i, j)
<1> DEFINE text == Piece(raw, from, to)
<1>t. /\ text \in Seq(Tokens) /\ Len(text) = to - from - 1
      /\ \A k \in 1 .. to - from - 1 : text[k] = raw[from + k] /\ raw[from + k] # ","
      /\ from # 0 => raw[from] = ","
      /\ to # Len(raw) + 1 => raw[to] = ","
  <2> HIDE DEF text
  <2>1. /\ from \in 0 .. Len(raw) /\ to \in 1 .. Len(raw) + 1
        /\ Piece(raw, from, to) \in Seq(Tokens)
        /\ Len(Piece(raw, from, to)) = to - from - 1
        /\ \A k \in 1 .. to - from - 1 :
             Piece(raw, from, to)[k] = raw[from + k] /\ raw[from + k] # ","
        /\ from # 0 => raw[from] = ","
        /\ to # Len(raw) + 1 => raw[to] = ","
    BY PieceTokens, Zenon
  <2> QED  BY <2>1 DEF text
<1> HIDE DEF text
<1>0. Len(raw) \in Nat
  OBVIOUS
<1>r. from \in 0 .. Len(raw) /\ to \in 1 .. Len(raw) + 1
  BY PieceTokens
<1>1. /\ from \in Int /\ to \in Int /\ Len(raw) \in Int
      /\ 0 <= from /\ from <= Len(raw) /\ 1 <= to /\ to <= Len(raw) + 1
  BY <1>0, <1>r
<1>2. PICK a, b \in 1 .. Len(text) : Kept(text, a, b)
  BY <1>t, TrimFinds DEF text
<1>p. a \in 1 .. to - from - 1 /\ b \in 1 .. to - from - 1 /\ a <= b
  BY <1>t, <1>2 DEF Kept
<1>3. a \in Int /\ b \in Int /\ 1 <= a /\ a <= b /\ b <= to - from - 1
  BY <1>1, <1>p
<1> DEFINE i == from + a
           j == from + b
<1>4. i \in 1 .. Len(raw) /\ j \in 1 .. Len(raw) /\ i <= j /\ from < i /\ j < to
  BY <1>1, <1>3
<1>5. Trim(text) = SubSeq(raw, i, j)
  <2>1. Trim(text) = SubSeq(text, a, b)
    BY <1>t, <1>2, TrimKeeps
  <2>2. /\ from + 1 \in 1 .. Len(raw) /\ to - 1 \in 1 .. Len(raw)
        /\ from + 1 <= to - 1 /\ a <= b
        /\ a \in 1 .. (to - 1) - (from + 1) + 1 /\ b \in 1 .. (to - 1) - (from + 1) + 1
    BY <1>1, <1>3
  <2>3. SubSeq(SubSeq(raw, from + 1, to - 1), a, b)
          = SubSeq(raw, (from + 1) + a - 1, (from + 1) + b - 1)
    BY <2>2, PieceOfPiece
  <2>4. (from + 1) + a - 1 = i /\ (from + 1) + b - 1 = j
    BY <1>1, <1>3
  <2> QED  BY <2>1, <2>3, <2>4 DEF text, Piece
<1>6. ASSUME NEW k \in from + 1 .. to - 1
      PROVE  raw[k] # "," /\ (k < i \/ k > j => raw[k] = " ")
  <2>1. k - from \in 1 .. to - from - 1 /\ from + (k - from) = k
    BY <1>1
  <2>2. text[k - from] = raw[k] /\ raw[k] # ","
    BY <1>t, <2>1
  <2>3. (a <= k - from /\ k - from <= b) \/ text[k - from] = " "
    BY <1>t, <1>2, <2>1 DEF Kept
  <2>4. k < i \/ k > j => ~ (a <= k - from /\ k - from <= b)
    BY <1>1, <1>3
  <2> QED  BY <2>2, <2>3, <2>4
<1>7. raw[i] # " " /\ raw[j] # " "
  <2>1. text[a] = raw[i] /\ text[b] = raw[j]
    BY <1>t, <1>p
  <2> QED  BY <1>2, <2>1 DEF Kept
<1>8. ~Comma(raw, i, j)
  <2>1. ASSUME NEW k \in i .. j PROVE k \in from + 1 .. to - 1
    BY <1>1, <1>4
  <2> QED  BY <1>6, <2>1 DEF Comma
<1>9. ASSUME NEW k \in 1 .. i - 1 PROVE Comma(raw, k, i) \/ raw[k] = " "
  <2>1. CASE k <= from
    <3>1. from \in k .. i /\ from # 0
      BY <1>1, <1>3, <2>1
    <3> QED  BY <1>t, <3>1 DEF Comma
  <2>2. CASE k > from
    <3>1. k \in from + 1 .. to - 1 /\ k < i
      BY <1>1, <1>4, <2>2
    <3> QED  BY <1>6, <3>1
  <2>3. k \in Int
    BY <1>1, <1>3
  <2>4. k <= from \/ k > from
    BY <1>1, <2>3
  <2> QED  BY <2>1, <2>2, <2>4
<1>10. ASSUME NEW k \in j + 1 .. Len(raw) PROVE Comma(raw, j, k) \/ raw[k] = " "
  <2>1. CASE k >= to
    <3>1. to \in j .. k /\ to # Len(raw) + 1
      BY <1>1, <1>4, <2>1
    <3> QED  BY <1>t, <3>1 DEF Comma
  <2>2. CASE k < to
    <3>1. k \in from + 1 .. to - 1 /\ k > j
      BY <1>1, <1>3, <2>2
    <3> QED  BY <1>6, <3>1
  <2>3. k \in Int
    BY <1>1, <1>3
  <2>4. k >= to \/ k < to
    BY <1>1, <2>3
  <2> QED  BY <2>1, <2>2, <2>4
<1>11. Item(raw, i, j)
  BY <1>4, <1>7, <1>8, <1>9, <1>10 DEF Item
<1> QED  BY <1>4, <1>5, <1>11 DEF text

(* An item is what is left of the piece between the last cut before it and  *)
(* the first one behind it.                                                 *)
LEMMA ItemGivesPiece ==
  ASSUME NEW raw \in Seq(Tokens), NEW i \in 1 .. Len(raw), NEW j \in 1 .. Len(raw),
         Item(raw, i, j)
  PROVE  /\ SubSeq(raw, i, j) # <<>>
         /\ \E from, to \in Cuts(raw) :
              Neighbours(raw, from, to) /\ SubSeq(raw, i, j) = Trim(Piece(raw, from, to))
<1>0. Len(raw) \in Nat
  OBVIOUS
<1>b. i <= j
  BY DEF Item
<1>1. /\ Len(raw) \in Nat /\ i \in Nat /\ j \in Nat
      /\ 1 <= i /\ i <= j /\ j <= Len(raw)
  BY <1>0, <1>b
<1>a. \A k \in i .. j : raw[k] # ","
  BY DEF Item, Comma
<1>2. ASSUME NEW k \in 1 .. Len(raw), raw[k] = "," PROVE k \in Cuts(raw)
  BY <1>2 DEF Cuts
<1>3. ASSUME NEW cut \in Cuts(raw)
      PROVE  /\ cut \in Nat /\ cut <= Len(raw) + 1
             /\ cut < i \/ cut > j
  <2>1. cut = 0 \/ cut = Len(raw) + 1 \/ (cut \in 1 .. Len(raw) /\ raw[cut] = ",")
    BY DEF Cuts
  <2>2. CASE cut = 0
    BY <1>1, <2>2
  <2>3. CASE cut = Len(raw) + 1
    BY <1>1, <2>3
  <2>4. CASE cut \in 1 .. Len(raw) /\ raw[cut] = ","
    <3>1. ASSUME NEW k \in 1 .. Len(raw), ~ (k < i \/ k > j) PROVE k \in i .. j
      BY <1>1, <3>1
    <3>2. ASSUME NEW k \in 1 .. Len(raw) PROVE k \in Nat /\ k <= Len(raw) + 1
      BY <1>1
    <3> QED  BY <1>a, <2>4, <3>1, <3>2
  <2> QED  BY <2>1, <2>2, <2>3, <2>4
<1> DEFINE before == {cut \in Cuts(raw) : cut < i}
           behind == {cut \in Cuts(raw) : cut > j}
<1>4. PICK from \in before : \A cut \in before : from >= cut
  <2>1. 0 \in before
    BY <1>1 DEF Cuts
  <2>2. \A cut \in before : cut \in Nat /\ cut <= Len(raw) + 1
    BY <1>3
  <2> HIDE DEF before
  <2>3. before \in SUBSET Nat /\ before # {} /\ Len(raw) + 1 \in Nat
    BY <1>1, <2>1, <2>2
  <2> QED  BY <2>2, <2>3, GreatestOf
<1>5. PICK to \in behind : \A cut \in behind : to <= cut
  <2>1. Len(raw) + 1 \in behind
    <3>1. Len(raw) + 1 \in Cuts(raw)
      BY DEF Cuts
    <3> QED  BY <1>1, <3>1
  <2>2. \A cut \in behind : cut \in Nat
    BY <1>3
  <2> HIDE DEF behind
  <2>3. behind \in SUBSET Nat /\ behind # {}
    BY <2>1, <2>2
  <2> QED  BY <2>3, LeastOf
<1>6. from \in Cuts(raw) /\ to \in Cuts(raw) /\ from < i /\ to > j
  BY <1>4, <1>5
<1>7. \A cut \in Cuts(raw) : (cut < i => from >= cut) /\ (cut > j => to <= cut)
  BY <1>4, <1>5
<1> HIDE DEF before, behind
<1>8. from \in Nat /\ to \in Nat
  BY <1>3, <1>6
<1>9. Neighbours(raw, from, to)
  <2>1. from < to
    BY <1>1, <1>6, <1>8
  <2>2. ASSUME NEW cut \in Cuts(raw) PROVE cut <= from \/ cut >= to
    <3>1. cut \in Nat
      BY <1>3
    <3> QED  BY <1>3, <1>7, <1>8, <3>1
  <2> QED  BY <1>6, <2>1, <2>2 DEF Neighbours
<1> DEFINE text == Piece(raw, from, to)
<1>t. /\ text \in Seq(Tokens) /\ Len(text) = to - from - 1
       /\ \A k \in 1 .. to - from - 1 : text[k] = raw[from + k]
  <2> HIDE DEF text
  <2>1. /\ from \in 0 .. Len(raw) /\ to \in 1 .. Len(raw) + 1
        /\ Piece(raw, from, to) \in Seq(Tokens)
        /\ Len(Piece(raw, from, to)) = to - from - 1
        /\ \A k \in 1 .. to - from - 1 :
             Piece(raw, from, to)[k] = raw[from + k] /\ raw[from + k] # ","
        /\ from # 0 => raw[from] = ","
        /\ to # Len(raw) + 1 => raw[to] = ","
    BY <1>9, PieceTokens, Zenon
  <2> QED  BY <2>1 DEF text
<1> HIDE DEF text
<1>r. from \in 0 .. Len(raw) /\ to \in 1 .. Len(raw) + 1
  BY <1>9, PieceTokens
<1>10. /\ from <= Len(raw) /\ to <= Len(raw) + 1
  BY <1>0, <1>r
<1> DEFINE a == i - from
           b == j - from
<1>11. a \in 1 .. to - from - 1 /\ b \in 1 .. to - from - 1 /\ a <= b
       /\ from + a = i /\ from + b = j
  BY <1>1, <1>6, <1>8
<1>12. ASSUME NEW k \in 1 .. to - from - 1, ~ (a <= k /\ k <= b) PROVE text[k] = " "
  <2>1. text[k] = raw[from + k]
    BY <1>t
  <2>2. /\ from + k \in 1 .. Len(raw) /\ from < from + k /\ from + k < to
        /\ from + k < i \/ from + k > j
    BY <1>1, <1>8, <1>10, <1>12
  <2>3. CASE from + k < i
    <3>1. from + k \in 1 .. i - 1
      BY <1>1, <1>8, <2>2, <2>3
    <3>2. ASSUME Comma(raw, from + k, i) PROVE FALSE
      <4>1. PICK c \in from + k .. i : raw[c] = ","
        BY <3>2 DEF Comma
      <4>2. c \in 1 .. Len(raw) /\ from < c /\ c <= i /\ c \in Nat
        BY <1>1, <1>8, <2>2
      <4>3. c \in Cuts(raw)
        BY <1>2, <4>1, <4>2
      <4>4. c < i
        BY <1>1, <1>3, <4>2, <4>3
      <4>5. from >= c
        BY <1>7, <4>3, <4>4
      <4> QED  BY <1>8, <4>2, <4>5
    <3> QED  BY <2>1, <3>1, <3>2 DEF Item
  <2>4. CASE from + k > j
    <3>1. from + k \in j + 1 .. Len(raw)
      BY <1>1, <1>8, <2>2, <2>4
    <3>2. ASSUME Comma(raw, j, from + k) PROVE FALSE
      <4>1. PICK c \in j .. from + k : raw[c] = ","
        BY <3>2 DEF Comma
      <4>2. c \in 1 .. Len(raw) /\ c < to /\ j <= c /\ c \in Nat
        BY <1>1, <1>8, <2>2
      <4>3. c \in Cuts(raw)
        BY <1>2, <4>1, <4>2
      <4>4. c > j
        BY <1>1, <1>3, <4>2, <4>3
      <4>5. to <= c
        BY <1>7, <4>3, <4>4
      <4> QED  BY <1>8, <4>2, <4>5
    <3> QED  BY <2>1, <3>1, <3>2 DEF Item
  <2> QED  BY <2>2, <2>3, <2>4
<1>13. text[a] # " " /\ text[b] # " "
  BY <1>t, <1>11 DEF Item
<1>14. Kept(text, a, b)
  <2> HIDE DEF a, b
  <2> QED  BY <1>t, <1>11, <1>12, <1>13 DEF Kept
<1>15. Trim(text) = SubSeq(text, a, b)
  BY <1>t, <1>14, TrimKeeps
<1>16. SubSeq(text, a, b) = SubSeq(raw, i, j)
  <2>1. /\ from + 1 \in 1 .. Len(raw) /\ to - 1 \in 1 .. Len(raw)
        /\ from + 1 <= to - 1 /\ a <= b
        /\ a \in 1 .. (to - 1) - (from + 1) + 1 /\ b \in 1 .. (to - 1) - (from + 1) + 1
        /\ (from + 1) + a - 1 = i /\ (from + 1) + b - 1 = j
    BY <1>1, <1>8, <1>10, <1>11
  <2> HIDE DEF a, b
  <2>2. SubSeq(SubSeq(raw, from + 1, to - 1), a, b)
          = SubSeq(raw, (from + 1) + a - 1, (from + 1) + b - 1)
    BY <2>1, PieceOfPiece
  <2> QED  BY <2>1, <2>2 DEF text, Piece
<1>17. SubSeq(raw, i, j) # <<>>
  <2>1. \A k \in i .. j : raw[k] \in Tokens
    BY <1>1
  <2>2. Len(SubSeq(raw, i, j)) = j - i + 1
    BY <1>1, <2>1, SubSeqProperties
  <2> QED  BY <1>1, <2>2
<1> QED  BY <1>6, <1>9, <1>15, <1>16, <1>17 DEF text

(* Splitting at the commas and trimming finds exactly the items of the      *)
(* text.                                                                    *)
LEMMA CandidatesAreListed ==
  ASSUME NEW raw \in Seq(Tokens)
  PROVE  Candidates(raw) = ListedIn(raw)
<1>1. ASSUME NEW x \in Candidates(raw) PROVE x \in ListedIn(raw)
  <2>1. x # <<>> /\ \E from, to \in Cuts(raw) :
                      Neighbours(raw, from, to) /\ x = Trim(Piece(raw, from, to))
    BY CandidatesArePieces
  <2>2. \E i, j \in 1 .. Len(raw) : Item(raw, i, j) /\ x = SubSeq(raw, i, j)
    BY <2>1, PieceGivesItem
  <2> QED  BY <2>2, ListedAreItems
<1>2. ASSUME NEW x \in ListedIn(raw) PROVE x \in Candidates(raw)
  <2>1. PICK i, j \in 1 .. Len(raw) : Item(raw, i, j) /\ x = SubSeq(raw, i, j)
    BY ListedAreItems
  <2>2. /\ x # <<>>
        /\ \E from, to \in Cuts(raw) :
             Neighbours(raw, from, to) /\ x = Trim(Piece(raw, from, to))
    BY <2>1, ItemGivesPiece
  <2> QED  BY <2>2, CandidatesArePieces
<1> QED  BY <1>1, <1>2

(* An item is a nonempty text without a comma. *)
LEMMA ListedTokens ==
  ASSUME NEW raw \in Seq(Tokens), NEW x \in ListedIn(raw)
  PROVE  /\ x \in Seq(Tokens) /\ x # <<>>
         /\ \A k \in 1 .. Len(x) : x[k] # ","
<1>1. PICK i, j \in 1 .. Len(raw) : Item(raw, i, j) /\ x = SubSeq(raw, i, j)
  BY ListedAreItems
<1>0. Len(raw) \in Nat
  OBVIOUS
<1>a. i <= j
  BY <1>1 DEF Item
<1>2. i \in Int /\ j \in Int /\ 1 <= i /\ i <= j /\ j <= Len(raw)
  BY <1>0, <1>a
<1>3. \A k \in i .. j : raw[k] \in Tokens
  <2>1. ASSUME NEW k \in i .. j PROVE k \in 1 .. Len(raw)
    BY <1>0, <1>2
  <2> QED  BY <2>1
<1>4. /\ x \in Seq(Tokens) /\ Len(x) = j - i + 1
      /\ \A k \in 1 .. j - i + 1 : x[k] = raw[i + k - 1]
  BY <1>1, <1>2, <1>3, SubSeqProperties
<1>5. ASSUME NEW k \in 1 .. Len(x) PROVE x[k] # ","
  <2>1. k \in 1 .. j - i + 1 /\ i + k - 1 \in i .. j
    BY <1>2, <1>4
  <2>2. x[k] = raw[i + k - 1]
    BY <1>4, <2>1
  <2>3. raw[i + k - 1] # ","
    BY <1>1, <2>1 DEF Item, Comma
  <2> QED  BY <2>2, <2>3
<1>6. x # <<>>
  BY <1>2, <1>4
<1> QED  BY <1>4, <1>5, <1>6

(* The text the origins are read from, if there is one. *)
Raw(e) == IF "CORS_ALLOWED_ORIGINS" \in DOMAIN e THEN e["CORS_ALLOWED_ORIGINS"] ELSE DefaultDevOrigins

(* The layer takes the items of its text, and is refused unless there is    *)
(* one and each is accepted; production has no text of its own.             *)
LEMMA CorsReads ==
  ASSUME NEW e \in Environments
  PROVE  /\ Raw(e) \in Seq(Tokens)
         /\ \A x \in CorsLayer(e).origins : x \in ListedIn(Raw(e))
         /\ CorsLayer(e).verdict # "bad" =>
              /\ CorsLayer(e).origins = ListedIn(Raw(e))
              /\ CorsLayer(e).origins # {}
              /\ \A x \in CorsLayer(e).origins : OriginAccepted(x)
              /\ "CORS_ALLOWED_ORIGINS" \in DOMAIN e
                   \/ ("APP_ENV" \in DOMAIN e => e["APP_ENV"] # "production")
<1>1. DefaultDevOrigins \in Seq(Tokens)
  BY DEF DefaultDevOrigins, Tokens
<1>2. Raw(e) \in Seq(Tokens)
  BY <1>1, RawAssumption DEF Raw
<1>3. ListedIn(Raw(e)) = Candidates(Raw(e))
  BY <1>2, CandidatesAreListed
<1>4. /\ ParseAllowedOrigins(Raw(e)).origins = Candidates(Raw(e))
      /\ ParseAllowedOrigins(Raw(e)).verdict # "bad" =>
           Candidates(Raw(e)) # {} /\ \A x \in Candidates(Raw(e)) : OriginAccepted(x)
  BY DEF ParseAllowedOrigins, Verdict
<1>5. CASE "CORS_ALLOWED_ORIGINS" \in DOMAIN e
  <2>1. CorsLayer(e) = ParseAllowedOrigins(Raw(e))
    BY <1>5 DEF CorsLayer, Raw
  <2> QED  BY <1>2, <1>3, <1>4, <1>5, <2>1
<1>6. CASE "CORS_ALLOWED_ORIGINS" \notin DOMAIN e
  <2>1. CASE "APP_ENV" \in DOMAIN e /\ e["APP_ENV"] = "production"
    BY <1>2, <1>6, <2>1 DEF CorsLayer
  <2>2. CASE ~ ("APP_ENV" \in DOMAIN e /\ e["APP_ENV"] = "production")
    <3>1. CorsLayer(e) = ParseAllowedOrigins(Raw(e))
      BY <1>6, <2>2 DEF CorsLayer, Raw
    <3> QED  BY <1>2, <1>3, <1>4, <2>2, <3>1
  <2> QED  BY <2>1, <2>2
<1> QED  BY <1>5, <1>6

-----------------------------------------------------------------------------
(* The invariant. *)

(* Main starts with nothing done and nobody served. *)
LEMMA InitLife == Init => LifeInv
<1> SUFFICES ASSUME Init PROVE LifeInv
  OBVIOUS
<1>1. TypeOK
  BY DEF Init, TypeOK, Phases, Steps, After
<1>2. Settled
  BY DEF Init, Settled, Past, Phases, Avenues
<1>3. Spawned /\ Taken /\ Whole
  BY DEF Init, Spawned, Taken, Whole, Avenues
<1> QED  BY <1>1, <1>2, <1>3 DEF LifeInv

(* The steps of main by name. *)
LEMMA PhaseNames ==
  /\ Steps = {"auth", "database", "schema", "cors", "tcp", "nats", "http"}
  /\ Phases = Steps \cup {"serving", "draining", "exited", "killed"}
  /\ After["auth"] = "database" /\ After["database"] = "schema" /\ After["schema"] = "cors"
  /\ After["cors"] = "tcp" /\ After["tcp"] = "nats" /\ After["nats"] = "http"
  /\ After["http"] = "serving"
BY DEF Steps, Phases, After

(* The phases behind a step by name. *)
LEMMA PastNames ==
  /\ Past("auth") =
       {"database", "schema", "cors", "tcp", "nats", "http", "serving", "draining"}
  /\ Past("schema") = {"cors", "tcp", "nats", "http", "serving", "draining"}
  /\ Past("cors") = {"tcp", "nats", "http", "serving", "draining"}
  /\ Past("tcp") = {"nats", "http", "serving", "draining"}
  /\ Past("nats") = {"http", "serving", "draining"}
BY PhaseNames DEF Past

(* What the process went on with, on one start. *)
LEMMA SettingNames ==
  /\ Setting("auth") = AuthSetting(env)
  /\ Setting("cors") = CorsLayer(env).verdict
  /\ \A a \in Avenues : Setting(a) = AvenueSetting(a)
BY DEF Setting, Avenues, AvenueSetting

(* Nothing but main's own steps and the transports changes what was found   *)
(* and left: the settings depend on the environment alone.                  *)
LEMMA SettingsStay ==
  ASSUME env' = env
  PROVE  /\ AuthSetting(env)' = AuthSetting(env)
         /\ CorsLayer(env)' = CorsLayer(env)
         /\ \A a \in Avenues : AvenueSetting(a)' = AvenueSetting(a)
BY DEF AvenueSetting

(* The end of the process keeps the invariant, if it cuts no HTTP request   *)
(* or is a signal's doing.                                                  *)
LEMMA EndKeeps ==
  ASSUME LifeInv, Alive, NEW how \in {"exited", "killed"}, End(how), stopping' \in BOOLEAN,
         how = "exited" => \A j \in Jobs : KindOf[j] = "http" => job[j] # "running"
  PROVE  LifeInv'
<1>0. TypeOK /\ Settled /\ Spawned /\ Taken /\ Whole
  BY DEF LifeInv
<1>1. TypeOK'
  BY <1>0 DEF TypeOK, End, Phases
<1>2. how \notin Steps /\ \A x \in {"auth", "schema", "cors", "tcp", "nats"} : how \notin Past(x)
  BY PhaseNames, PastNames
<1>3. \A a \in Avenues : (avenue'[a] = "none") = (avenue[a] = "none")
  BY <1>0 DEF TypeOK, End
<1>4. \A j \in Jobs : (job'[j] = "none") = (job[j] = "none")
  BY <1>0 DEF TypeOK, End
<1>5. Settled'
  BY <1>0, <1>2 DEF Settled, End, Avenues
<1>6. Spawned'
  BY <1>0, <1>3, SettingsStay DEF Spawned, End
<1>7. Taken'
  <2>1. phase' \notin Steps /\ migrated' = migrated
    BY <1>2 DEF End
  <2>2. \A a \in Avenues : Honoured(a) => Honoured(a)'
    BY <1>3, SettingsStay DEF Honoured, End
  <2> QED  BY <1>0, <1>3, <1>4, <2>1, <2>2 DEF Taken
<1>8. Whole'
  <2>1. ASSUME NEW j \in Jobs, KindOf[j] = "http", how = "exited"
        PROVE  job'[j] # "cut" /\ job'[j] # "running"
    <3>1. job[j] # "running" /\ job[j] # "cut"
      BY <1>0, <2>1 DEF Whole, Alive
    <3> QED  BY <3>1 DEF End
  <2> QED  BY <2>1 DEF Whole, End
<1> QED  BY <1>1, <1>5, <1>6, <1>7, <1>8 DEF LifeInv

(* A step of main that leaves jobs alone, and transports that have tasks,   *)
(* keeps what is said of work: there is none over HTTP yet.                 *)
LEMMA StartKeepsWork ==
  ASSUME LifeInv, phase \in Steps, phase' \in Phases \ {"exited", "killed"}, env' = env,
         job' = job, migrated => migrated',
         \A a \in Avenues : avenue[a] # "none" => avenue'[a] # "none"
  PROVE  Taken' /\ Whole'
<1>0. TypeOK /\ Taken /\ Whole
  BY DEF LifeInv
<1>1. \A j \in Jobs : KindOf[j] \in {"http", "socket"} => job[j] = "none"
  BY <1>0 DEF Taken
<1>2. Taken'
  <2>1. SUFFICES ASSUME NEW j \in Jobs, job[j] # "none"
                 PROVE  /\ migrated'
                        /\ KindOf[j] \in Avenues => avenue'[KindOf[j]] # "none"
                        /\ KindOf[j] \notin {"http", "socket"}
    BY DEF Taken
  <2> QED  BY <1>0, <1>1, <2>1 DEF Taken
<1>3. Whole'
  BY <1>1, PhaseNames DEF Whole
<1> QED  BY <1>2, <1>3

(* Steps of main that leave only a value behind. *)
LEMMA ConfiguredKeeps ==
  ASSUME LifeInv, NEW x \in {"auth", "database", "http"}, Configured(x)
  PROVE  LifeInv'
<1>0. TypeOK /\ Settled /\ Spawned
  BY DEF LifeInv
<1> USE DEF Configured, Passed
<1>1. TypeOK'
  BY <1>0, PhaseNames DEF TypeOK
<1>2. Settled'
  <2>1. \A a \in Avenues : Honoured(a)' = Honoured(a)
    BY SettingsStay DEF Honoured
  <2>2. phase' \in Past("auth") \/ migrated => AuthSetting(env) # "bad"
    BY <1>0, PastNames, PhaseNames, SettingNames DEF Settled
  <2>3. phase' \in Past("schema") => phase \in Past("schema")
    BY PastNames, PhaseNames
  <2>4. phase' \in Past("cors") => phase \in Past("cors")
    BY PastNames, PhaseNames
  <2>5. \A a \in Avenues : phase' \in Past(a) => phase \in Past(a)
    BY PastNames, PhaseNames DEF Avenues
  <2> QED  BY <1>0, <2>1, <2>2, <2>3, <2>4, <2>5 DEF Settled
<1>3. Spawned'
  BY <1>0, SettingsStay DEF Spawned
<1>4. Taken' /\ Whole'
  <2>1. phase \in Steps /\ phase' \in Phases \ {"exited", "killed"}
    BY PhaseNames
  <2> QED  BY <2>1, StartKeepsWork
<1> QED  BY <1>1, <1>2, <1>3, <1>4 DEF LifeInv

(* The migration. *)
LEMMA MigrateKeeps ==
  ASSUME LifeInv, Migrate
  PROVE  LifeInv'
<1>0. TypeOK /\ Settled /\ Spawned
  BY DEF LifeInv
<1> USE DEF Migrate, Passed
<1>1. TypeOK'
  BY <1>0, PhaseNames DEF TypeOK
<1>2. Settled'
  <2>1. AuthSetting(env) # "bad"
    BY <1>0, PastNames DEF Settled
  <2>2. phase' = "cors" /\ phase' \notin Past("cors") /\ \A a \in Avenues : phase' \notin Past(a)
    BY PastNames, PhaseNames DEF Avenues
  <2> QED  BY <1>0, <2>1, <2>2 DEF Settled
<1>3. Spawned'
  BY <1>0, SettingsStay DEF Spawned
<1>4. Taken' /\ Whole'
  <2>1. phase \in Steps /\ phase' \in Phases \ {"exited", "killed"}
    BY PhaseNames
  <2> QED  BY <2>1, StartKeepsWork
<1> QED  BY <1>1, <1>2, <1>3, <1>4 DEF LifeInv

(* The origin policy. *)
LEMMA ConfigureCorsKeeps ==
  ASSUME LifeInv, ConfigureCors
  PROVE  LifeInv'
<1>0. TypeOK /\ Settled /\ Spawned
  BY DEF LifeInv
<1> USE DEF ConfigureCors, Passed
<1>1. TypeOK'
  <2>1. env \in Environments
    BY <1>0 DEF Settled
  <2>2. \A origin \in origins' : origin \in Seq(Tokens) /\ origin # <<>>
    BY <2>1, CorsReads, ListedTokens
  <2> QED  BY <1>0, <2>2, PhaseNames DEF TypeOK
<1>2. Settled'
  <2>1. phase' = "tcp" /\ \A a \in Avenues : phase' \notin Past(a)
    BY PastNames, PhaseNames DEF Avenues
  <2>2. AuthSetting(env) # "bad" /\ migrated
    BY <1>0, PastNames DEF Settled
  <2> QED  BY <1>0, <2>1, <2>2, SettingNames DEF Settled
<1>3. Spawned'
  BY <1>0, SettingsStay DEF Spawned
<1>4. Taken' /\ Whole'
  <2>1. phase \in Steps /\ phase' \in Phases \ {"exited", "killed"}
    BY PhaseNames
  <2> QED  BY <2>1, StartKeepsWork
<1> QED  BY <1>1, <1>2, <1>3, <1>4 DEF LifeInv

(* The transports. *)
LEMMA StartAvenueKeeps ==
  ASSUME LifeInv, NEW a \in Avenues, StartAvenue(a)
  PROVE  LifeInv'
<1>0. TypeOK /\ Settled /\ Spawned
  BY DEF LifeInv
<1>a. avenue \in [Avenues -> {"none", "running", "ended"}]
  BY <1>0 DEF TypeOK
<1> USE DEF StartAvenue, Passed
<1>b. /\ phase = a /\ AvenueSetting(a) # "bad" /\ a \in Steps
      /\ phase \in Past("schema") /\ phase \in Past("auth")
      /\ phase' \in Past("auth") /\ phase' \in Phases \ {"exited", "killed"}
  BY PastNames, PhaseNames, SettingNames DEF Avenues
<1>c. migrated /\ AuthSetting(env) # "bad"
  BY <1>0, <1>b DEF Settled
<1>1. TypeOK'
  BY <1>0, <1>b DEF TypeOK
<1>2. \A v \in Avenues :
        avenue'[v] = IF v = a THEN (IF AvenueSetting(a) = "good" THEN "running" ELSE "none")
                     ELSE avenue[v]
  BY <1>a, SettingNames
<1>3. Settled'
  <2>1. ASSUME NEW v \in Avenues, phase' \in Past(v) PROVE Honoured(v)'
    <3>1. CASE v = a
      BY <1>b, <1>2, <3>1, SettingsStay DEF Honoured
    <3>2. CASE v # a
      <4>1. phase \in Past(v)
        BY <1>b, <2>1, <3>2, PastNames, PhaseNames DEF Avenues
      <4>2. Honoured(v)
        BY <1>0, <4>1 DEF Settled
      <4> QED  BY <1>2, <3>2, <4>2, SettingsStay DEF Honoured
    <3> QED  BY <3>1, <3>2
  <2>2. CorsLayer(env).verdict # "bad" /\ origins = CorsLayer(env).origins
    <3>1. phase \in Past("cors")
      BY <1>b, PastNames DEF Avenues
    <3> QED  BY <1>0, <3>1 DEF Settled
  <2> QED  BY <1>0, <1>c, <2>1, <2>2 DEF Settled
<1>4. Spawned'
  BY <1>0, <1>c, <1>2, SettingsStay DEF Spawned
<1>5. Taken' /\ Whole'
  <2>1. \A v \in Avenues : avenue[v] # "none" => avenue'[v] # "none"
    BY <1>0, <1>2 DEF Spawned
  <2> QED  BY <1>b, <2>1, StartKeepsWork
<1> QED  BY <1>1, <1>3, <1>4, <1>5 DEF LifeInv

(* A step that leaves main, its settings and the transports alone keeps     *)
(* what is said of them.                                                    *)
LEMMA WorkKeepsSettings ==
  ASSUME LifeInv, UNCHANGED <<env, phase, migrated, origins>>,
         \A a \in Avenues : (avenue'[a] = "none") = (avenue[a] = "none")
  PROVE  Settled' /\ Spawned' /\ \A a \in Avenues : Honoured(a)' = Honoured(a)
<1>0. Settled /\ Spawned
  BY DEF LifeInv
<1>1. \A a \in Avenues : Honoured(a)' = Honoured(a)
  BY SettingsStay DEF Honoured
<1>2. Settled'
  BY <1>0, <1>1 DEF Settled
<1>3. Spawned'
  BY <1>0, SettingsStay DEF Spawned
<1> QED  BY <1>1, <1>2, <1>3

(* Work is taken only where the code accepts it. *)
LEMMA BeginKeeps ==
  ASSUME LifeInv, NEW j \in Jobs, Begin(j)
  PROVE  LifeInv'
<1>0. TypeOK /\ Settled /\ Spawned /\ Taken /\ Whole
  BY DEF LifeInv
<1>a. job \in [Jobs -> {"none", "running", "done", "cut"}] /\ KindOf[j] \in Kinds
  BY <1>0, JobAssumption DEF TypeOK
<1>1. TypeOK'
  BY <1>0 DEF TypeOK, Begin
<1>2. Settled' /\ Spawned' /\ \A a \in Avenues : Honoured(a)' = Honoured(a)
  BY WorkKeepsSettings DEF Begin
<1>3. \A i \in Jobs : job'[i] = IF i = j THEN "running" ELSE job[i]
  BY <1>a DEF Begin
<1>4. CASE KindOf[j] \in {"http", "socket"}
  <2>1. phase = "serving" /\ phase' = phase
    BY <1>4 DEF Begin, Accepting
  <2>2. migrated /\ \A a \in Avenues : Honoured(a)
    BY <1>0, <2>1, PastNames DEF Settled, Avenues
  <2>3. Taken'
    <3>1. phase' \notin Steps /\ migrated' /\ KindOf[j] \notin Avenues /\ avenue' = avenue
      BY <1>4, <2>1, <2>2, PhaseNames DEF Begin, Avenues
    <3> QED  BY <1>0, <1>2, <1>3, <2>1, <2>2, <3>1 DEF Taken
  <2>4. Whole'
    BY <1>0, <1>3, <2>1 DEF Whole
  <2> QED  BY <1>1, <1>2, <2>3, <2>4 DEF LifeInv
<1>5. CASE KindOf[j] \in Avenues
  <2>1. /\ avenue[KindOf[j]] = "running" /\ KindOf[j] \notin {"http", "socket"}
        /\ UNCHANGED <<phase, migrated, avenue>>
    BY <1>5 DEF Begin, Accepting, Avenues
  <2>2. migrated
    BY <1>0, <1>5, <2>1 DEF Spawned
  <2>3. Taken'
    BY <1>0, <1>2, <1>3, <2>1, <2>2 DEF Taken
  <2>4. Whole'
    BY <1>0, <1>3, <2>1 DEF Whole
  <2> QED  BY <1>1, <1>2, <2>3, <2>4 DEF LifeInv
<1> QED  BY <1>a, <1>4, <1>5 DEF Kinds

(* Work that ends. *)
LEMMA FinishKeeps ==
  ASSUME LifeInv, NEW j \in Jobs, Finish(j)
  PROVE  LifeInv'
<1>0. TypeOK /\ Taken /\ Whole
  BY DEF LifeInv
<1>a. job \in [Jobs -> {"none", "running", "done", "cut"}]
  BY <1>0 DEF TypeOK
<1>1. TypeOK'
  BY <1>0 DEF TypeOK, Finish
<1>2. Settled' /\ Spawned' /\ \A a \in Avenues : Honoured(a)' = Honoured(a)
  BY WorkKeepsSettings DEF Finish
<1>3. \A i \in Jobs : job'[i] = IF i = j THEN "done" ELSE job[i]
  BY <1>a DEF Finish
<1>4. job[j] = "running" /\ UNCHANGED <<phase, migrated, avenue>>
  BY DEF Finish
<1>5. Taken'
  BY <1>0, <1>2, <1>3, <1>4 DEF Taken
<1>6. Whole'
  BY <1>0, <1>3, <1>4 DEF Whole
<1> QED  BY <1>1, <1>2, <1>5, <1>6 DEF LifeInv

(* A transport whose task ends, by an error or because it is told to: no    *)
(* HTTP request is touched.                                                 *)
LEMMA AvenueKeeps ==
  ASSUME LifeInv, NEW a \in Avenues, AvenueFails(a) \/ AvenueStops(a)
  PROVE  LifeInv'
<1>0. TypeOK /\ Taken /\ Whole
  BY DEF LifeInv
<1>a. /\ avenue \in [Avenues -> {"none", "running", "ended"}]
      /\ job \in [Jobs -> {"none", "running", "done", "cut"}]
  BY <1>0 DEF TypeOK
<1>b. /\ avenue[a] = "running" /\ avenue' = [avenue EXCEPT ![a] = "ended"]
      /\ UNCHANGED <<env, phase, migrated, origins, shutdown, pid1, stopping>>
  BY DEF AvenueFails, AvenueStops
<1>c. /\ job' \in [Jobs -> {"none", "running", "done", "cut"}]
      /\ \A j \in Jobs : job'[j] = job[j] \/ (KindOf[j] = "nats" /\ job[j] = "running")
      /\ \A j \in Jobs : job[j] = "none" => job'[j] = "none"
  <2>1. CASE AvenueFails(a)
    BY <1>a, <2>1 DEF AvenueFails, InFlight
  <2>2. CASE AvenueStops(a)
    BY <1>a, <2>2 DEF AvenueStops
  <2> QED  BY <2>1, <2>2
<1>1. TypeOK'
  BY <1>0, <1>a, <1>b, <1>c DEF TypeOK
<1>2. \A v \in Avenues : (avenue'[v] = "none") = (avenue[v] = "none")
  BY <1>a, <1>b
<1>3. Settled' /\ Spawned' /\ \A v \in Avenues : Honoured(v)' = Honoured(v)
  BY <1>b, <1>2, WorkKeepsSettings
<1>4. Taken'
  BY <1>0, <1>b, <1>c, <1>2, <1>3 DEF Taken
<1>5. Whole'
  BY <1>0, <1>b, <1>c DEF Whole
<1> QED  BY <1>1, <1>3, <1>4, <1>5 DEF LifeInv

(* The drain begins. *)
LEMMA InterruptKeeps ==
  ASSUME LifeInv, Interrupt
  PROVE  LifeInv'
<1>0. TypeOK /\ Settled /\ Spawned /\ Taken /\ Whole
  BY DEF LifeInv
<1>1. TypeOK'
  BY <1>0, PhaseNames DEF TypeOK, Interrupt
<1>2. \A a \in Avenues : Honoured(a)' = Honoured(a)
  BY SettingsStay DEF Honoured, Interrupt
<1>3. Settled'
  BY <1>0, <1>2, PastNames DEF Settled, Interrupt, Avenues
<1>4. Spawned'
  BY <1>0, SettingsStay DEF Spawned, Interrupt
<1>5. Taken'
  <2>1. phase' \notin Steps
    BY PhaseNames DEF Interrupt
  <2> QED  BY <1>0, <1>2, <2>1 DEF Taken, Interrupt
<1>6. Whole'
  BY <1>0 DEF Whole, Interrupt
<1> QED  BY <1>1, <1>3, <1>4, <1>5, <1>6 DEF LifeInv

(* The invariant is inductive. *)
LEMMA NextLife == LifeInv /\ [Next]_vars => LifeInv'
<1> SUFFICES ASSUME LifeInv, [Next]_vars PROVE LifeInv'
  OBVIOUS
<1>0. TypeOK /\ Taken /\ Whole
  BY DEF LifeInv
<1>1. CASE ConfigureAuth \/ ConnectDatabase \/ Listen
  BY <1>1, ConfiguredKeeps DEF ConfigureAuth, ConnectDatabase, Listen
<1>2. CASE Migrate
  BY <1>2, MigrateKeeps
<1>3. CASE ConfigureCors
  BY <1>3, ConfigureCorsKeeps
<1>4. CASE StartTcp \/ StartNats
  BY <1>4, StartAvenueKeeps DEF StartTcp, StartNats, Avenues
<1>5. CASE StartFails
  <2>1. phase \in Steps /\ End("exited") /\ stopping' \in BOOLEAN
    BY <1>0, <1>5 DEF StartFails, TypeOK
  <2>2. Alive /\ \A j \in Jobs : KindOf[j] = "http" => job[j] # "running"
    BY <1>0, <2>1, PhaseNames DEF Taken, Alive
  <2> QED  BY <2>1, <2>2, EndKeeps
<1>6. CASE Interrupt
  BY <1>6, InterruptKeeps
<1>7. CASE InterruptEarly
  <2>1. Alive /\ End("killed") /\ stopping' \in BOOLEAN
    BY <1>0, <1>7, PhaseNames DEF InterruptEarly, TypeOK, Alive
  <2> QED  BY <2>1, EndKeeps
<1>8. CASE Terminate
  <2>1. CASE pid1
    <3>1. /\ UNCHANGED <<env, phase, migrated, origins, avenue, shutdown, job, pid1>>
          /\ stopping' = TRUE
      BY <1>8, <2>1 DEF Terminate
    <3>2. Settled' /\ Spawned' /\ \A a \in Avenues : Honoured(a)' = Honoured(a)
      BY <3>1, WorkKeepsSettings
    <3>3. TypeOK' /\ Taken' /\ Whole'
      BY <1>0, <3>1, <3>2 DEF TypeOK, Taken, Whole
    <3> QED  BY <3>2, <3>3 DEF LifeInv
  <2>2. CASE ~pid1
    <3>1. Alive /\ End("killed") /\ stopping' \in BOOLEAN
      BY <1>8, <2>2 DEF Terminate
    <3> QED  BY <3>1, EndKeeps
  <2> QED  BY <2>1, <2>2
<1>9. CASE Kill
  <2>1. Alive /\ End("killed") /\ stopping' \in BOOLEAN
    BY <1>0, <1>9 DEF Kill, TypeOK
  <2> QED  BY <2>1, EndKeeps
<1>10. CASE Exit
  <2>1. phase = "draining" /\ InFlight("http") = {} /\ End("exited") /\ stopping' \in BOOLEAN
    BY <1>0, <1>10 DEF Exit, ExitOnce, TypeOK
  <2>2. Alive /\ \A j \in Jobs : KindOf[j] = "http" => job[j] # "running"
    BY <2>1 DEF Alive, InFlight
  <2> QED  BY <2>1, <2>2, EndKeeps
<1>11. ASSUME NEW j \in Jobs, Begin(j) \/ Finish(j) PROVE LifeInv'
  BY <1>11, BeginKeeps, FinishKeeps
<1>12. ASSUME NEW a \in Avenues, AvenueFails(a) \/ AvenueStops(a) PROVE LifeInv'
  BY <1>12, AvenueKeeps
<1>13. CASE UNCHANGED vars
  <2>1. UNCHANGED <<env, phase, migrated, origins, avenue, shutdown, job, pid1, stopping>>
    BY <1>13 DEF vars
  <2>2. Settled' /\ Spawned' /\ \A a \in Avenues : Honoured(a)' = Honoured(a)
    BY <2>1, WorkKeepsSettings
  <2>3. TypeOK' /\ Taken' /\ Whole'
    BY <1>0, <2>1, <2>2 DEF TypeOK, Taken, Whole
  <2> QED  BY <2>2, <2>3 DEF LifeInv
<1> QED  BY <1>1, <1>2, <1>3, <1>4, <1>5, <1>6, <1>7, <1>8, <1>9, <1>10, <1>11, <1>12, <1>13
            DEF Next, Start, Stop

(* In every reachable state the invariant holds. *)
LEMMA LifeAlways == Spec => []LifeInv
<1>1. Init => LifeInv
  BY InitLife
<1>2. LifeInv /\ [Next]_vars => LifeInv'
  BY NextLife
<1> QED  BY <1>1, <1>2, PTL DEF Spec

-----------------------------------------------------------------------------
(* The theorems. *)

(* main, the transports and the work stay within their types, and every     *)
(* origin of the allow-list is a nonempty text.                             *)
THEOREM LifecycleTyped == Spec => []TypeOK
<1>1. LifeInv => TypeOK
  BY DEF LifeInv
<1> QED  BY <1>1, LifeAlways, PTL

(* The work of an avenue is taken with its setting found right. *)
LEMMA AvenueComplete ==
  ASSUME NEW a \in Avenues, AvenueSetting(a) = "good"
  PROVE  IF a = "tcp"
         THEN /\ Has(env, "TCP_BIND")
              /\ \A file \in {"TLS_CERT_FILE", "TLS_KEY_FILE", "CLIENT_CA_FILE"} :
                   file \in DOMAIN env /\ env[file] = "usable"
              /\ \A limit \in DOMAIN Largest \cap DOMAIN env :
                   env[limit] # Blank => env[limit] > 0 /\ env[limit] <= Largest[limit]
         ELSE /\ Has(env, "NATS_URL") /\ env["NATS_URL"] = "tls"
              /\ "NATS_CREDENTIALS_FILE" \in DOMAIN env
              /\ env["NATS_CREDENTIALS_FILE"] = "usable"
<1>1. CASE a = "tcp"
  <2>1. TcpSetting(env) = "good"
    BY <1>1 DEF AvenueSetting
  <2>2. /\ Has(env, "TCP_BIND")
        /\ \A file \in TlsFiles : Has(env, file) /\ env[file] = "usable"
        /\ \A limit \in DOMAIN Largest : Has(env, limit) => env[limit] \in 1 .. Largest[limit]
    BY <2>1 DEF TcpSetting, TcpVerdict, Verdict
  <2>3. \A limit \in DOMAIN Largest : Largest[limit] \in Nat
    BY DEF Largest
  <2>4. ASSUME NEW limit \in DOMAIN Largest \cap DOMAIN env, env[limit] # Blank
        PROVE  env[limit] > 0 /\ env[limit] <= Largest[limit]
    <3>1. env[limit] \in 1 .. Largest[limit]
      BY <2>2, <2>4 DEF Has
    <3> QED  BY <2>3, <3>1
  <2> QED  BY <1>1, <2>2, <2>4 DEF TlsFiles, Has
<1>2. CASE a # "tcp"
  BY <1>2 DEF AvenueSetting, NatsSetting, Verdict, Has
<1> QED  BY <1>1, <1>2

(* Nobody is served before authentication is configured and the schema in   *)
(* place; a transport works only with its whole configuration, and HTTP     *)
(* only if every transport that was asked for is there.                     *)
THEOREM NobodyServedEarly == Spec => []ServedOnlyWhenReady
<1>1. LifeInv => ServedOnlyWhenReady
  <2> SUFFICES ASSUME LifeInv PROVE ServedOnlyWhenReady
    OBVIOUS
  <2>0. Settled /\ Spawned /\ Taken
    BY DEF LifeInv
  <2>1. ASSUME NEW j \in Jobs, job[j] # "none"
        PROVE  migrated /\ \A name \in AuthVariables : Has(env, name)
    <3>1. migrated
      BY <2>0, <2>1 DEF Taken
    <3>2. AuthSetting(env) # "bad"
      BY <2>0, <3>1 DEF Settled
    <3> QED  BY <3>1, <3>2 DEF AuthSetting, Verdict
  <2>2. ASSUME NEW j \in Jobs, job[j] # "none", KindOf[j] \in Avenues
        PROVE  AvenueSetting(KindOf[j]) = "good"
    BY <2>0, <2>2 DEF Taken, Spawned
  <2>3. ASSUME NEW j \in Jobs, job[j] # "none", KindOf[j] \in {"http", "socket"},
               NEW a \in Avenues, Has(env, IF a = "tcp" THEN "TCP_BIND" ELSE "NATS_URL")
        PROVE  AvenueSetting(a) = "good" /\ avenue[a] # "none"
    <3>1. Honoured(a)
      BY <2>0, <2>3 DEF Taken
    <3>2. AvenueSetting(a) \in {"good", "bad"}
      BY <2>3 DEF AvenueSetting, TcpSetting, TcpVerdict, NatsSetting, Verdict
    <3> QED  BY <3>1, <3>2 DEF Honoured
  <2> QED  BY <2>1, <2>2, <2>3, AvenueComplete DEF ServedOnlyWhenReady
<1> QED  BY <1>1, LifeAlways, PTL

(* Neither a failed start nor the end of a drain cuts an HTTP request. *)
THEOREM NoRequestCutByExit == Spec => []ExitCutsNoRequest
<1>1. LifeInv => ExitCutsNoRequest
  BY DEF LifeInv, TypeOK, Whole, ExitCutsNoRequest
<1> QED  BY <1>1, LifeAlways, PTL

(* An accepted origin is a scheme followed by an authority. *)
LEMMA AcceptedIsPlain ==
  ASSUME NEW x \in Seq(Tokens), x # <<>>, OriginAccepted(x)
  PROVE  /\ Len(x) > 1
         /\ \A i \in DOMAIN x :
              /\ x[i] \in Schemes <=> i = 1
              /\ x[i] \notin {"/", "control"}
<1>1. Len(x) \in Nat /\ DOMAIN x = 1 .. Len(x)
  OBVIOUS
<1>2. Len(Tail(x)) = Len(x) - 1 /\ Tail(x) \in Seq(Tokens)
  BY HeadTailProperties
<1>3. Tail(x) # <<>>
  BY DEF OriginAccepted
<1>4. Len(x) > 1
  <2>1. Len(Tail(x)) # 0
    BY <1>2, <1>3
  <2> QED  BY <1>1, <1>2, <2>1
<1>5. ASSUME NEW i \in 1 .. Len(x)
      PROVE  /\ x[i] \in Schemes <=> i = 1
             /\ x[i] \notin {"/", "control"}
  <2>1. CASE i = 1
    BY <2>1 DEF OriginAccepted, Schemes
  <2>2. CASE i # 1
    <3>1. i \in 2 .. Len(x)
      BY <1>1, <2>2
    <3>2. x[i] \notin NotInAuthority \cup {"control"}
      BY <3>1 DEF OriginAccepted
    <3> QED  BY <2>2, <3>2 DEF NotInAuthority
  <2> QED  BY <2>1, <2>2
<1> QED  BY <1>1, <1>4, <1>5

(* However the operator's list is punctuated, HTTP is served under exactly  *)
(* the origins written in it, each a scheme with an authority: splitting    *)
(* and trimming lose and invent nothing, and what is refused stops the      *)
(* start.                                                                   *)
THEOREM ServedUnderTheWrittenList == Spec => []AllowListExact
<1>1. LifeInv => AllowListExact
  <2> SUFFICES ASSUME LifeInv, phase \in {"serving", "draining"} PROVE AllowListExact
    BY DEF AllowListExact
  <2>0. Settled
    BY DEF LifeInv
  <2>1. env \in Environments /\ CorsLayer(env).verdict # "bad" /\ origins = CorsLayer(env).origins
    BY <2>0, PastNames DEF Settled
  <2>2. /\ Raw(env) \in Seq(Tokens)
        /\ origins = ListedIn(Raw(env)) /\ origins # {}
        /\ \A x \in origins : OriginAccepted(x)
        /\ "CORS_ALLOWED_ORIGINS" \in DOMAIN env
             \/ ("APP_ENV" \in DOMAIN env => env["APP_ENV"] # "production")
    BY <2>1, CorsReads
  <2>3. IF "CORS_ALLOWED_ORIGINS" \in DOMAIN env
        THEN origins = ListedIn(env["CORS_ALLOWED_ORIGINS"])
        ELSE "APP_ENV" \in DOMAIN env => env["APP_ENV"] # "production"
    BY <2>2 DEF Raw
  <2>4. ASSUME NEW x \in origins
        PROVE  /\ Len(x) > 1
               /\ \A i \in DOMAIN x :
                    /\ x[i] \in Schemes <=> i = 1
                    /\ x[i] \notin {"/", ",", "control"}
    <3>a. x \in Seq(Tokens) /\ x # <<>>
      BY <2>2, ListedTokens
    <3>1. \A k \in 1 .. Len(x) : x[k] # ","
      BY <2>2, ListedTokens
    <3>2. /\ Len(x) > 1
          /\ \A i \in DOMAIN x :
               /\ x[i] \in Schemes <=> i = 1
               /\ x[i] \notin {"/", "control"}
      BY <2>2, <3>a, AcceptedIsPlain
    <3>3. DOMAIN x = 1 .. Len(x)
      BY <3>a
    <3> QED  BY <3>1, <3>2, <3>3
  <2> QED  BY <2>2, <2>3, <2>4 DEF AllowListExact
<1> QED  BY <1>1, LifeAlways, PTL
=============================================================================

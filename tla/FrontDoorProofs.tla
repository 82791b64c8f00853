-------------------------- MODULE FrontDoorProofs ---------------------------
(***************************************************************************)
(* Proofs about FrontDoor: every list stays below its cap and no token is  *)
(* in the table twice, nobody holds a session or a socket without having   *)
(* given the password, the limiter bounds every sliding window, the        *)
(* throttle bounds the guesses, and a login is given up only for MaxTokens *)
(* later ones.  For any number of clients, tokens, caps and times.         *)
(*                                                                         *)
(* The invariant DInv adds to the types, for each of the tables, how it    *)
(* accounts for what the history remembers.  Entered: whatever gets a      *)
(* client past the gate - its token, the request between gate and handler, *)
(* its session, its socket - is that of a client that has given the        *)
(* password.  Limited and Throttled: the requests let in, and the refused  *)
(* passwords, that are within the window EMBED in the table's list, each   *)
(* in an entry of its own with the same age; the bound on the list's       *)
(* length is then a bound on them.  During a lockout the list is empty and *)
(* Throttled says instead that the guesses are at least as old as the      *)
(* lockout, so that they have left the span when it ends.  Standing: a     *)
(* token that is promised is in the table, with the time left that it was  *)
(* promised, and no more entries come after it than logins came later.     *)
(*                                                                         *)
(* What the lists keep when they are trimmed comes from ListsProofs.       *)
(*                                                                         *)
(* The last part is about the instance in which the runs check the front   *)
(* door and the watchlist: its behaviours are behaviours of both models,   *)
(* with their fairness.                                                    *)
(***************************************************************************)
EXTENDS MCWebServer, WatchlistProofs, ListsProofs

-----------------------------------------------------------------------------
(* The invariant                                                           *)

\* Every entry of a has its own of the same age in b.
Embeds(a, b) ==
    \E m \in [1..Len(a) -> 1..Len(b)] :
        /\ \A k \in 1..Len(a) : b[m[k]] = a[k]
        /\ \A k, l \in 1..Len(a) : m[k] = m[l] => k = l

\* Tokens and requests past the access gate are those of clients that have
\* given the password.
Entered ==
    \A c \in Client :
        access[c] # None \/ request[c] \in Route \ AccessPublic \/ sessions[c] > 0 \/ socket[c]
            => c \in entered

\* What the limiter let in is on its list.
Limited ==
    \A c \in Client :
        /\ Embeds(accepted[c], hits[c])
        /\ \A k \in 1..Len(accepted[c]) : accepted[c][k] < RateWindow

\* Refused passwords are on the throttle's list, or older than the lockout
\* that they have brought about.
Throttled ==
    \A c \in Client :
        /\ \A k \in 1..Len(guesses[c]) : guesses[c][k] < GuessSpan
        /\ until[c] = 0 => Embeds(guesses[c], fails[c])
        /\ until[c] > 0 =>
              /\ fails[c] = <<>>
              /\ Len(guesses[c]) <= FailureCap
              /\ \A k \in 1..Len(guesses[c]) : guesses[c][k] >= LockoutSecs - until[c]

\* No more tokens are behind a login's in the table than were issued later.
Standing ==
    \A t \in Token : promised[t] # None =>
        \/ promised[t].newer >= MaxTokens
        \/ \E i \in 1..Len(tokens) :
              /\ tokens[i].id = t /\ tokens[i].left = promised[t].left
              /\ Len(tokens) - i <= promised[t].newer

DInv == DoorTypeOK /\ Entered /\ Limited /\ Throttled /\ Standing

-----------------------------------------------------------------------------
(* Lists of ages                                                           *)

\* The arithmetic of the ages
LEMMA LeastIs ==
    \A x, y \in Nat : /\ Least(x, y) \in Nat /\ Least(x, y) <= x /\ Least(x, y) <= y
                      /\ Least(x, y) = x \/ Least(x, y) = y
BY DEF Least

\* What is embedded is no longer.
LEMMA EmbedsLen ==
    ASSUME NEW T, NEW a \in Seq(T), NEW b \in Seq(T), Embeds(a, b)
    PROVE  Len(a) <= Len(b)
<1>1. Len(a) \in Nat /\ Len(b) \in Nat
  BY LenProperties
<1>2. PICK m \in [1..Len(a) -> 1..Len(b)] : \A k, l \in 1..Len(a) : m[k] = m[l] => k = l
  BY DEF Embeds
<1>3. m \in Injection(1..Len(a), 1..Len(b))
  BY <1>2 DEF Injection, IsInjective
<1>4. /\ IsFiniteSet(1..Len(a)) /\ Cardinality(1..Len(a)) = Len(a)
      /\ IsFiniteSet(1..Len(b)) /\ Cardinality(1..Len(b)) = Len(b)
  <2>1. \A j \in Nat : IsFiniteSet(1..j) /\ Cardinality(1..j) = j
    <3> TAKE j \in Nat
    <3>1. 1 \in Int /\ j \in Int
      OBVIOUS
    <3>2. IsFiniteSet(1..j) /\ Cardinality(1..j) = IF 1 > j THEN 0 ELSE j - 1 + 1
      BY <3>1, FS_Interval
    <3> QED
      BY <3>2
  <2> QED
    BY <1>1, <2>1
<1> QED
  BY <1>3, <1>4, FS_Injection

\* The same entry is added to both.
LEMMA EmbedsAppend ==
    ASSUME NEW T, NEW a \in Seq(T), NEW b \in Seq(T), NEW x \in T, Embeds(a, b)
    PROVE  Embeds(Append(a, x), Append(b, x))
<1>1. Len(a) \in Nat /\ Len(b) \in Nat
  BY LenProperties
<1>2. PICK m \in [1..Len(a) -> 1..Len(b)] :
        /\ \A k \in 1..Len(a) : b[m[k]] = a[k]
        /\ \A k, l \in 1..Len(a) : m[k] = m[l] => k = l
  BY DEF Embeds
<1>3. /\ Len(Append(a, x)) = Len(a) + 1 /\ Append(a, x)[Len(a) + 1] = x
      /\ \A k \in 1..Len(a) : Append(a, x)[k] = a[k]
      /\ Len(Append(b, x)) = Len(b) + 1 /\ Append(b, x)[Len(b) + 1] = x
      /\ \A k \in 1..Len(b) : Append(b, x)[k] = b[k]
  BY AppendProperties
<1> DEFINE n == [k \in 1..Len(a) + 1 |-> IF k = Len(a) + 1 THEN Len(b) + 1 ELSE m[k]]
<1>4. \A k \in 1..Len(a) + 1 : k = Len(a) + 1 \/ (k \in 1..Len(a) /\ k # Len(a) + 1)
  BY <1>1
<1>5. \A k \in 1..Len(a) : n[k] = m[k] /\ m[k] \in 1..Len(b) /\ m[k] # Len(b) + 1
  BY <1>1
<1>6. n[Len(a) + 1] = Len(b) + 1 /\ Len(b) + 1 \in 1..Len(b) + 1
  BY <1>1
<1>7. n \in [1..Len(a) + 1 -> 1..Len(b) + 1]
  BY <1>1, <1>4, <1>5, <1>6
<1>8. \A k, l \in 1..Len(a) + 1 : n[k] = n[l] => k = l
  <2> HIDE DEF n
  <2> QED
    BY <1>2, <1>4, <1>5, <1>6
<1>9. \A k \in 1..Len(a) + 1 : Append(b, x)[n[k]] = Append(a, x)[k]
  <2> HIDE DEF n
  <2> QED
    BY <1>2, <1>3, <1>4, <1>5, <1>6
<1> HIDE DEF n
<1> DEFINE A == Append(a, x)
           B == Append(b, x)
<1>10. /\ n \in [1..Len(A) -> 1..Len(B)]
       /\ \A k \in 1..Len(A) : B[n[k]] = A[k]
       /\ \A k, l \in 1..Len(A) : n[k] = n[l] => k = l
  BY <1>3, <1>7, <1>8, <1>9
<1> HIDE DEF A, B
<1>11. Embeds(A, B)
  BY <1>10 DEF Embeds
<1> QED
  BY <1>11 DEF A, B

\* The young entries of a list are its own, in a list no longer than it.
LEMMA YoungerIs ==
    ASSUME NEW T, NEW s \in Seq(T), NEW w
    PROVE  /\ Younger(s, w) \in Seq(T) /\ Len(Younger(s, w)) <= Len(s)
           /\ \A k \in 1..Len(Younger(s, w)) : Younger(s, w)[k] < w
<1> DEFINE I == {i \in DOMAIN s : s[i] < w}
<1>1. DOMAIN s = 1..Len(s)
  BY LenProperties
<1>2. I \in SUBSET (1..Len(s))
  BY <1>1
<1>3. /\ KeepAt(s, I) \in Seq(T) /\ Len(KeepAt(s, I)) <= Len(s)
      /\ \A k \in 1..Len(KeepAt(s, I)) : \E i \in I : KeepAt(s, I)[k] = s[i]
  <2> HIDE DEF I
  <2> QED
    BY <1>2, KeptIs
<1> QED
  BY <1>3 DEF Younger

\* Trimming to a window keeps whatever is embedded and within the window.
LEMMA YoungerEmbeds ==
    ASSUME NEW T, NEW a \in Seq(T), NEW s \in Seq(T), NEW w, Embeds(a, s),
           \A k \in 1..Len(a) : a[k] < w
    PROVE  Embeds(a, Younger(s, w))
<1> DEFINE I == {i \in DOMAIN s : s[i] < w}
           F == KeepAt(s, I)
<1>1. DOMAIN s = 1..Len(s) /\ Len(a) \in Nat
  BY LenProperties
<1>2. I \in SUBSET (1..Len(s))
  BY <1>1
<1>3. PICK m \in [1..Len(a) -> 1..Len(s)] :
        /\ \A k \in 1..Len(a) : s[m[k]] = a[k]
        /\ \A k, l \in 1..Len(a) : m[k] = m[l] => k = l
  BY DEF Embeds
<1>4. \A k \in 1..Len(a) : m[k] \in I
  BY <1>1, <1>3
<1>5. /\ \A i \in I : Place(I, i) \in 1..Len(F) /\ F[Place(I, i)] = s[i]
      /\ \A i, j \in I : Place(I, i) = Place(I, j) => i = j
  <2> HIDE DEF I, F
  <2>1. F = KeepAt(s, I)
    BY DEF F
  <2>2. \A i \in I : Place(I, i) \in 1..Len(F) /\ F[Place(I, i)] = s[i]
    BY <1>2, <2>1, KeptAt
  <2>3. \A i, j \in I : Place(I, i) = Place(I, j) => i = j
    BY <1>2, KeptApart
  <2> QED
    BY <2>2, <2>3
<1> DEFINE n == [k \in 1..Len(a) |-> Place(I, m[k])]
<1> HIDE DEF I, F
<1>6. n \in [1..Len(a) -> 1..Len(F)]
  BY <1>4, <1>5
<1>7. \A k \in 1..Len(a) : F[n[k]] = a[k]
  BY <1>3, <1>4, <1>5
<1>8. \A k, l \in 1..Len(a) : n[k] = n[l] => k = l
  BY <1>3, <1>4, <1>5
<1> HIDE DEF n
<1>9. Embeds(a, F)
  BY <1>6, <1>7, <1>8 DEF Embeds
<1> QED
  BY <1>9 DEF Younger, I, F

\* A second later each entry is a second older, up to a cap.
LEMMA AgedIs ==
    ASSUME NEW cap \in Nat, NEW s \in Seq(0..cap)
    PROVE  /\ Aged(s, cap) \in Seq(0..cap) /\ Len(Aged(s, cap)) = Len(s)
           /\ \A i \in 1..Len(s) : Aged(s, cap)[i] = Least(s[i] + 1, cap)
<1>1. Len(s) \in Nat /\ DOMAIN s = 1..Len(s) /\ \A i \in 1..Len(s) : s[i] \in 0..cap
  BY LenProperties, ElementOfSeq
<1>2. \A i \in 1..Len(s) : Least(s[i] + 1, cap) \in 0..cap
  BY <1>1 DEF Least
<1>3. Aged(s, cap) = [i \in 1..Len(s) |-> Least(s[i] + 1, cap)]
  BY <1>1 DEF Aged
<1>4. Aged(s, cap) \in [1..Len(s) -> 0..cap]
  BY <1>2, <1>3
<1> QED
  BY <1>1, <1>3, <1>4, SeqDef, LenProperties, SMTT(30)

\* Each young entry of s has its own of the same age in b.
EmbedsYoung(s, w, b) ==
    \E m \in [1..Len(s) -> 1..Len(b)] :
        /\ \A i \in 1..Len(s) : s[i] < w => b[m[i]] = s[i]
        /\ \A i, j \in 1..Len(s) : m[i] = m[j] => i = j

\* Then the young entries alone are embedded.
LEMMA EmbedsYounger ==
    ASSUME NEW T, NEW s \in Seq(T), NEW w \in Nat, NEW b, EmbedsYoung(s, w, b)
    PROVE  Embeds(Younger(s, w), b)
<1> DEFINE I == {i \in DOMAIN s : s[i] < w}
           F == KeepAt(s, I)
<1>0. PICK m \in [1..Len(s) -> 1..Len(b)] :
        /\ \A i \in 1..Len(s) : s[i] < w => b[m[i]] = s[i]
        /\ \A i, j \in 1..Len(s) : m[i] = m[j] => i = j
  BY DEF EmbedsYoung
<1>1. DOMAIN s = 1..Len(s)
  BY LenProperties
<1>2. I \in SUBSET (1..Len(s)) /\ \A i \in I : i \in 1..Len(s) /\ b[m[i]] = s[i]
  BY <1>0, <1>1
<1>3. /\ \A k \in 1..Len(F) : \E i \in I : Place(I, i) = k /\ F[k] = s[i]
      /\ \A i, j \in I : Place(I, i) = Place(I, j) => i = j
  <2> HIDE DEF I, F
  <2>1. F = KeepAt(s, I) /\ I \in SUBSET (1..Len(s))
    BY <1>2 DEF F
  <2>2. \A k \in 1..Len(F) : \E i \in I : Place(I, i) = k /\ F[k] = s[i]
    BY <2>1, KeptFrom
  <2>3. \A i, j \in I : Place(I, i) = Place(I, j) => i = j
    BY <2>1, KeptApart
  <2> QED
    BY <2>2, <2>3
<1> DEFINE e(k) == CHOOSE i \in I : Place(I, i) = k /\ F[k] = s[i]
           n == [k \in 1..Len(F) |-> m[e(k)]]
<1> HIDE DEF I, F
<1>4. \A k \in 1..Len(F) : e(k) \in I /\ Place(I, e(k)) = k /\ F[k] = s[e(k)]
  BY <1>3
<1> HIDE DEF e
<1>5. n \in [1..Len(F) -> 1..Len(b)]
  BY <1>2, <1>4
<1>6. \A k \in 1..Len(F) : b[n[k]] = F[k]
  BY <1>2, <1>4
<1>7. \A k, l \in 1..Len(F) : n[k] = n[l] => k = l
  <2> SUFFICES ASSUME NEW k \in 1..Len(F), NEW l \in 1..Len(F), n[k] = n[l] PROVE k = l
    OBVIOUS
  <2>1. m[e(k)] = m[e(l)] /\ e(k) \in 1..Len(s) /\ e(l) \in 1..Len(s)
    BY <1>2, <1>4
  <2>2. e(k) = e(l)
    BY <1>0, <2>1
  <2> QED
    BY <1>4, <2>2
<1> HIDE DEF n
<1>8. Embeds(F, b)
  BY <1>5, <1>6, <1>7 DEF Embeds
<1> QED
  BY <1>8 DEF Younger, F, I

\* A second later, what is still within the shorter window g of one list is
\* on the other.
LEMMA PassedEmbeds ==
    ASSUME NEW g \in Nat, NEW w \in Nat, g <= w,
           NEW a \in Seq(0..g), NEW b \in Seq(0..w), Embeds(a, b)
    PROVE  Embeds(Passed(a, g), Aged(b, w))
<1>1. /\ Aged(a, g) \in Seq(0..g) /\ Len(Aged(a, g)) = Len(a)
      /\ \A i \in 1..Len(a) : Aged(a, g)[i] = Least(a[i] + 1, g)
      /\ Len(Aged(b, w)) = Len(b)
      /\ \A i \in 1..Len(b) : Aged(b, w)[i] = Least(b[i] + 1, w)
  BY AgedIs
<1>2. PICK m \in [1..Len(a) -> 1..Len(b)] :
        /\ \A k \in 1..Len(a) : b[m[k]] = a[k]
        /\ \A k, l \in 1..Len(a) : m[k] = m[l] => k = l
  BY DEF Embeds
<1>3. ASSUME NEW i \in 1..Len(a), Aged(a, g)[i] < g
      PROVE  Aged(b, w)[m[i]] = Aged(a, g)[i]
  <2>1. m[i] \in 1..Len(b) /\ b[m[i]] = a[i] /\ a[i] \in Nat
    <3>1. a[i] \in 0..g
      BY ElementOfSeq
    <3>2. a[i] \in Nat
      BY <3>1
    <3> QED
      BY <1>2, <3>2
  <2>2. Aged(a, g)[i] = Least(a[i] + 1, g) /\ Aged(b, w)[m[i]] = Least(a[i] + 1, w)
    BY <1>1, <2>1
  <2>3. Least(a[i] + 1, g) < g => Least(a[i] + 1, w) = Least(a[i] + 1, g)
    BY <2>1 DEF Least
  <2> QED
    BY <1>3, <2>2, <2>3
<1>4. EmbedsYoung(Aged(a, g), g, Aged(b, w))
  <2>1. /\ m \in [1..Len(Aged(a, g)) -> 1..Len(Aged(b, w))]
        /\ \A i \in 1..Len(Aged(a, g)) : Aged(a, g)[i] < g => Aged(b, w)[m[i]] = Aged(a, g)[i]
        /\ \A i, j \in 1..Len(Aged(a, g)) : m[i] = m[j] => i = j
    BY <1>1, <1>2, <1>3
  <2> QED
    BY <2>1 DEF EmbedsYoung
<1>5. \A T : \A s \in Seq(T) : \A c : EmbedsYoung(s, g, c) => Embeds(Younger(s, g), c)
  BY EmbedsYounger
<1> QED
  BY <1>1, <1>4, <1>5 DEF Passed

-----------------------------------------------------------------------------
(* The constants and the table of tokens                                   *)

\* Caps and windows are positive; the span of the guesses is within both of
\* the throttle's times.
LEMMA Constants ==
    /\ MaxToken \in Nat \ {0} /\ FailureCap \in Nat \ {0} /\ LockoutSecs \in Nat \ {0}
    /\ LoginWindow \in Nat \ {0} /\ TokenTtl \in Nat \ {0} /\ MaxTokens \in Nat \ {0}
    /\ SessionTtl \in Nat \ {0} /\ RateCap \in Nat \ {0} /\ RateWindow \in Nat \ {0}
    /\ GuessSpan \in Nat \ {0} /\ GuessSpan <= LoginWindow /\ GuessSpan <= LockoutSecs
<1>1. /\ MaxToken \in Nat \ {0} /\ FailureCap \in Nat \ {0} /\ LockoutSecs \in Nat \ {0}
      /\ LoginWindow \in Nat \ {0} /\ TokenTtl \in Nat \ {0} /\ MaxTokens \in Nat \ {0}
      /\ SessionTtl \in Nat \ {0} /\ RateCap \in Nat \ {0} /\ RateWindow \in Nat \ {0}
  BY FrontDoorAssumption DEF FrontDoorAssumption
<1> QED
  BY <1>1 DEF GuessSpan, Least

Distinct(s) == \A i, j \in 1..Len(s) : s[i].id = s[j].id => i = j

\* Filtering the table keeps its entries apart and its newest ones newest.
LEMMA TokensKept ==
    ASSUME NEW s \in Seq(TokenEntry), Distinct(s), NEW I \in SUBSET (1..Len(s)),
           NEW F, F = KeepAt(s, I)
    PROVE  /\ F \in Seq(TokenEntry) /\ Len(F) <= Len(s) /\ Distinct(F)
           /\ \A k \in 1..Len(F) : \E i \in I : F[k] = s[i]
           /\ \A i \in I : \E k \in 1..Len(F) : F[k] = s[i] /\ Len(F) - k <= Len(s) - i
<1>1. /\ F \in Seq(TokenEntry) /\ Len(F) <= Len(s)
      /\ \A i \in I : /\ Place(I, i) \in 1..Len(F) /\ F[Place(I, i)] = s[i]
                      /\ Len(F) - Place(I, i) <= Len(s) - i
  BY KeptIs
<1>2. \A k \in 1..Len(F) : \E i \in I : Place(I, i) = k /\ F[k] = s[i]
  BY KeptFrom
<1>3. Distinct(F)
  <2> SUFFICES ASSUME NEW k \in 1..Len(F), NEW l \in 1..Len(F), F[k].id = F[l].id PROVE k = l
    BY DEF Distinct
  <2>1. PICK i \in I : Place(I, i) = k /\ F[k] = s[i]
    BY <1>2
  <2>2. PICK j \in I : Place(I, j) = l /\ F[l] = s[j]
    BY <1>2
  <2>3. i = j
    BY <2>1, <2>2 DEF Distinct
  <2> QED
    BY <2>1, <2>2, <2>3
<1>4. \A i \in I : \E k \in 1..Len(F) : F[k] = s[i] /\ Len(F) - k <= Len(s) - i
  BY <1>1
<1> QED
  BY <1>1, <1>2, <1>3, <1>4

\* What the steps have to know of the tables.
LEMMA DoorTyped ==
    ASSUME DoorTypeOK
    PROVE  /\ fails \in [Client -> Seq(0..LoginWindow)]
           /\ guesses \in [Client -> Seq(0..GuessSpan)]
           /\ hits \in [Client -> Seq(0..RateWindow)]
           /\ accepted \in [Client -> Seq(0..RateWindow)]
           /\ \A c \in Client : Len(fails[c]) < FailureCap /\ Len(hits[c]) <= RateCap
           /\ until \in [Client -> 0..LockoutSecs]
           /\ tokens \in Seq(TokenEntry) /\ Len(tokens) <= MaxTokens /\ Distinct(tokens)
           /\ DOMAIN tokens = 1..Len(tokens) /\ Len(tokens) \in Nat
           /\ \A i \in 1..Len(tokens) : tokens[i] \in TokenEntry
<1>1. /\ fails \in [Client -> Seq(0..LoginWindow)]
      /\ guesses \in [Client -> Seq(0..GuessSpan)]
      /\ hits \in [Client -> Seq(0..RateWindow)]
      /\ accepted \in [Client -> Seq(0..RateWindow)]
  BY DEF DoorTypeOK, Ages
<1>2. /\ \A c \in Client : Len(fails[c]) < FailureCap /\ Len(hits[c]) <= RateCap
      /\ until \in [Client -> 0..LockoutSecs]
      /\ tokens \in Seq(TokenEntry) /\ Len(tokens) <= MaxTokens
  BY DEF DoorTypeOK
<1>3. DOMAIN tokens = 1..Len(tokens) /\ Len(tokens) \in Nat
  BY <1>2, LenProperties
<1>4. Distinct(tokens)
  BY <1>3 DEF DoorTypeOK, Distinct
<1> QED
  BY <1>1, <1>2, <1>3, <1>4, ElementOfSeq

\* The table after a purge
LEMMA UnexpiredIs ==
    ASSUME DoorTypeOK
    PROVE  /\ Unexpired \in Seq(TokenEntry) /\ Len(Unexpired) <= Len(tokens)
           /\ Distinct(Unexpired)
           /\ \A k \in 1..Len(Unexpired) :
                 \E i \in 1..Len(tokens) : Unexpired[k] = tokens[i] /\ tokens[i].left > 0
           /\ \A i \in 1..Len(tokens) : tokens[i].left > 0 =>
                 \E k \in 1..Len(Unexpired) :
                    Unexpired[k] = tokens[i] /\ Len(Unexpired) - k <= Len(tokens) - i
<1> DEFINE I == {i \in DOMAIN tokens : tokens[i].left > 0}
<1>1. /\ tokens \in Seq(TokenEntry) /\ Distinct(tokens) /\ DOMAIN tokens = 1..Len(tokens)
  BY DoorTyped
<1>2. I \in SUBSET (1..Len(tokens)) /\ Unexpired = KeepAt(tokens, I)
  BY <1>1 DEF Unexpired
<1>3. \A i : i \in I <=> i \in 1..Len(tokens) /\ tokens[i].left > 0
  BY <1>1
<1> HIDE DEF I
<1>4. Unexpired \in Seq(TokenEntry) /\ Len(Unexpired) <= Len(tokens) /\ Distinct(Unexpired)
  BY <1>1, <1>2, TokensKept
<1>5. \A k \in 1..Len(Unexpired) : \E i \in I : Unexpired[k] = tokens[i]
  BY <1>1, <1>2, TokensKept, SMTT(30)
<1>6. \A i \in I : \E k \in 1..Len(Unexpired) :
         Unexpired[k] = tokens[i] /\ Len(Unexpired) - k <= Len(tokens) - i
  BY <1>1, <1>2, TokensKept
<1> QED
  BY <1>3, <1>4, <1>5, <1>6

\* A new token is one that nobody knows.
LEMMA NewTokenIs ==
    ASSUME Token \ Known # {}
    PROVE  NewToken \in Token \ Known
<1>1. Token \ Known \subseteq Nat
  BY Constants DEF Token
<1>2. \E t \in Token \ Known : \A u \in Token \ Known : t <= u
  BY <1>1, FirstIs
<1> QED
  BY <1>2 DEF NewToken

\* The table that a new token is appended to: the oldest one is given up only
\* when it is full.
LEMMA BoundedIs ==
    ASSUME DoorTypeOK, NEW B, B = Bounded(Unexpired)
    PROVE  /\ B \in Seq(TokenEntry) /\ Len(B) < MaxTokens /\ Distinct(B)
           /\ \A k \in 1..Len(B) : \E i \in 1..Len(tokens) : B[k] = tokens[i]
           /\ \A i \in 1..Len(tokens) : tokens[i].left > 0 =>
                 \/ Len(tokens) - i >= MaxTokens - 1
                 \/ \E k \in 1..Len(B) : B[k] = tokens[i] /\ Len(B) - k <= Len(tokens) - i
<1>1. /\ Unexpired \in Seq(TokenEntry) /\ Len(Unexpired) <= Len(tokens) /\ Distinct(Unexpired)
      /\ \A k \in 1..Len(Unexpired) : \E i \in 1..Len(tokens) : Unexpired[k] = tokens[i]
      /\ \A i \in 1..Len(tokens) : tokens[i].left > 0 =>
            \E k \in 1..Len(Unexpired) :
               Unexpired[k] = tokens[i] /\ Len(Unexpired) - k <= Len(tokens) - i
  BY UnexpiredIs
<1>2. Len(Unexpired) \in Nat /\ Len(tokens) \in Nat /\ Len(tokens) <= MaxTokens
      /\ MaxTokens \in Nat \ {0}
  BY <1>1, DoorTyped, LenProperties, Constants
<1>3. CASE Len(Unexpired) < MaxTokens
  <2>1. B = Unexpired
    BY <1>2, <1>3 DEF Bounded
  <2> QED
    BY <1>1, <1>2, <1>3, <2>1
<1>4. CASE ~(Len(Unexpired) < MaxTokens)
  <2>1. B = Tail(Unexpired) /\ Unexpired # <<>>
    BY <1>2, <1>4, EmptySeq DEF Bounded, Evicted
  <2>2. /\ B \in Seq(TokenEntry) /\ Len(B) = Len(Unexpired) - 1
        /\ \A k \in 1..Len(B) : B[k] = Unexpired[k + 1]
    BY <1>1, <2>1, HeadTailProperties
  <2>3. \A k \in 1..Len(B) : k + 1 \in 1..Len(Unexpired)
    BY <1>2, <2>2
  <2>4. Distinct(B)
    <3> SUFFICES ASSUME NEW k \in 1..Len(B), NEW l \in 1..Len(B), B[k].id = B[l].id PROVE k = l
      BY DEF Distinct
    <3>1. Unexpired[k + 1].id = Unexpired[l + 1].id
      BY <2>2
    <3>2. k + 1 = l + 1
      BY <1>1, <2>3, <3>1 DEF Distinct
    <3> QED
      BY <1>2, <2>2, <3>2
  <2>5. ASSUME NEW i \in 1..Len(tokens), tokens[i].left > 0
        PROVE  \/ Len(tokens) - i >= MaxTokens - 1
               \/ \E k \in 1..Len(B) : B[k] = tokens[i] /\ Len(B) - k <= Len(tokens) - i
    <3>1. PICK k \in 1..Len(Unexpired) :
             Unexpired[k] = tokens[i] /\ Len(Unexpired) - k <= Len(tokens) - i
      BY <1>1, <2>5
    <3>2. CASE k = 1
      BY <1>2, <1>4, <3>1, <3>2
    <3>3. CASE k # 1
      <4>1. k - 1 \in 1..Len(B)
        BY <1>2, <2>2, <3>3
      <4>2. B[k - 1] = Unexpired[k]
        BY <1>2, <2>2, <4>1
      <4>3. Len(B) - (k - 1) <= Len(tokens) - i
        BY <1>2, <2>2, <3>1
      <4> QED
        BY <3>1, <4>1, <4>2, <4>3
    <3> QED
      BY <3>2, <3>3
  <2> QED
    BY <1>1, <1>2, <2>2, <2>3, <2>4, <2>5
<1> QED
  BY <1>3, <1>4

-----------------------------------------------------------------------------
(* Types, one part of the state after the other                            *)

ThrottleTyped ==
    /\ fails \in [Client -> Seq(0..LoginWindow)] /\ guesses \in [Client -> Seq(0..GuessSpan)]
    /\ \A c \in Client : Len(fails[c]) < FailureCap
    /\ until \in [Client -> 0..LockoutSecs]

LimiterTyped ==
    /\ hits \in [Client -> Seq(0..RateWindow)] /\ accepted \in [Client -> Seq(0..RateWindow)]
    /\ \A c \in Client : Len(hits[c]) <= RateCap

Promise == [left : 1..TokenTtl, newer : 0..MaxTokens]

TableTyped ==
    /\ tokens \in Seq(TokenEntry) /\ Len(tokens) <= MaxTokens /\ Distinct(tokens)
    /\ promised \in [Token -> Promise \cup {None}]
    /\ access \in [Client -> Token \cup {None}]
    /\ entered \subseteq Client

RestTyped ==
    /\ sessions \in [Client -> 0..SessionTtl]
    /\ request \in [Client -> Route \cup {None}]
    /\ socket \in [Client -> BOOLEAN]

\* The parts make up the type invariant.
LEMMA TypedParts == ThrottleTyped /\ LimiterTyped /\ TableTyped /\ RestTyped <=> DoorTypeOK
<1>1. tokens \in Seq(TokenEntry) =>
        (Distinct(tokens) <=>
           \A i, j \in DOMAIN tokens : tokens[i].id = tokens[j].id => i = j)
  BY LenProperties DEF Distinct
<1>2. ThrottleTyped /\ LimiterTyped <=>
        /\ fails \in [Client -> Ages(LoginWindow)] /\ guesses \in [Client -> Ages(GuessSpan)]
        /\ hits \in [Client -> Ages(RateWindow)] /\ accepted \in [Client -> Ages(RateWindow)]
        /\ \A c \in Client : Len(fails[c]) < FailureCap /\ Len(hits[c]) <= RateCap
        /\ until \in [Client -> 0..LockoutSecs]
  BY DEF ThrottleTyped, LimiterTyped, Ages
<1>3. TableTyped <=>
        /\ tokens \in Seq(TokenEntry) /\ Len(tokens) <= MaxTokens
        /\ \A i, j \in DOMAIN tokens : tokens[i].id = tokens[j].id => i = j
        /\ access \in [Client -> Token \cup {None}]
        /\ promised \in [Token -> [left : 1..TokenTtl, newer : 0..MaxTokens] \cup {None}]
        /\ entered \subseteq Client
  BY <1>1 DEF TableTyped, Promise
<1> QED
  BY <1>2, <1>3 DEF RestTyped, DoorTypeOK

\* In the beginning all is empty.
LEMMA InitTyped == DoorInit => ThrottleTyped /\ LimiterTyped /\ TableTyped /\ RestTyped
<1> SUFFICES ASSUME DoorInit PROVE ThrottleTyped /\ LimiterTyped /\ TableTyped /\ RestTyped
  OBVIOUS
<1>1. \A T : <<>> \in Seq(T) /\ Len(<<>>) = 0
  BY EmptySeq
<1>2. ThrottleTyped
  BY <1>1, Constants DEF DoorInit, ThrottleTyped
<1>3. LimiterTyped
  BY <1>1, Constants DEF DoorInit, LimiterTyped
<1>4. Distinct(tokens)
  BY <1>1 DEF DoorInit, Distinct
<1>5. TableTyped
  BY <1>1, <1>4, Constants DEF DoorInit, TableTyped
<1>6. RestTyped
  BY Constants DEF DoorInit, RestTyped
<1> QED
  BY <1>2, <1>3, <1>5, <1>6

\* The throttle's lists stay below the number of failures that locks.
LEMMA StepThrottleTyped ==
    ASSUME ThrottleTyped, [DoorNext]_doorVars
    PROVE  ThrottleTyped'
<1> USE DEF throttleVars, rateVars, tokenVars
<1>1. ASSUME NEW c \in Client, LoginWrong(c) PROVE ThrottleTyped'
  <2>1. CASE c \in Loopback
    BY <1>1, <2>1 DEF LoginWrong, ThrottleTyped
  <2>2. CASE c \notin Loopback
    <3> DEFINE Y == Younger(fails[c], LoginWindow)
               K == Append(Y, 0)
               T == 0..LoginWindow
    <3>1. Y \in Seq(T)
      BY YoungerIs DEF ThrottleTyped
    <3>2. 0 \in T /\ 0 \in 0..GuessSpan /\ LockoutSecs \in 0..LockoutSecs
      BY Constants
    <3>3. /\ fails' = [fails EXCEPT ![c] = IF Len(K) >= FailureCap THEN <<>> ELSE K]
          /\ until' = IF Len(K) >= FailureCap THEN [until EXCEPT ![c] = LockoutSecs] ELSE until
          /\ guesses' = [guesses EXCEPT ![c] = Append(guesses[c], 0)]
      BY <1>1, <2>2 DEF LoginWrong, RecordFailure
    <3> HIDE DEF Y
    <3>4. K \in Seq(T) /\ Len(K) \in Nat
      BY <3>1, <3>2, AppendProperties, LenProperties
    <3> HIDE DEF K
    <3>5. fails \in [Client -> Seq(T)] /\ <<>> \in Seq(T) /\ Len(<<>>) = 0
      BY EmptySeq DEF ThrottleTyped
    <3> HIDE DEF T
    <3>6. fails' \in [Client -> Seq(T)]
      BY <3>3, <3>4, <3>5
    <3>7. \A d \in Client : Len(fails'[d]) < FailureCap
      <4> TAKE d \in Client
      <4>1. CASE d # c
        BY <3>3, <3>5, <4>1 DEF ThrottleTyped
      <4>2. CASE d = c
        BY <3>3, <3>4, <3>5, <4>2, Constants
      <4> QED
        BY <4>1, <4>2
    <3>8. until' \in [Client -> 0..LockoutSecs]
      BY <3>2, <3>3 DEF ThrottleTyped
    <3>9. guesses' \in [Client -> Seq(0..GuessSpan)]
      BY <3>2, <3>3, AppendProperties DEF ThrottleTyped
    <3> QED
      BY <3>6, <3>7, <3>8, <3>9 DEF ThrottleTyped, T
  <2> QED
    BY <2>1, <2>2
<1>2. ASSUME NEW c \in Client, LoginRight(c) PROVE ThrottleTyped'
  <2>1. \A T : <<>> \in Seq(T) /\ Len(<<>>) = 0
    BY EmptySeq
  <2>2. fails' \in [Client -> Seq(0..LoginWindow)] /\ guesses' \in [Client -> Seq(0..GuessSpan)]
    BY <1>2, <2>1 DEF LoginRight, ThrottleTyped
  <2>3. until' \in [Client -> 0..LockoutSecs]
    BY <1>2, Constants DEF LoginRight, ThrottleTyped
  <2>4. \A d \in Client : Len(fails'[d]) < FailureCap
    BY <1>2, <2>1, Constants DEF LoginRight, ThrottleTyped
  <2> QED
    BY <2>2, <2>3, <2>4 DEF ThrottleTyped
<1>3. ASSUME Tick PROVE ThrottleTyped'
  <2>1. \A c \in Client : /\ Aged(fails[c], LoginWindow) \in Seq(0..LoginWindow)
                          /\ Len(Aged(fails[c], LoginWindow)) = Len(fails[c])
    BY Constants, AgedIs DEF ThrottleTyped
  <2>2. \A c \in Client : Passed(guesses[c], GuessSpan) \in Seq(0..GuessSpan)
    <3> TAKE c \in Client
    <3>1. Aged(guesses[c], GuessSpan) \in Seq(0..GuessSpan)
      BY Constants, AgedIs DEF ThrottleTyped
    <3> QED
      BY <3>1, YoungerIs DEF Passed
  <2>3. \A c \in Client : Down(until[c]) \in 0..LockoutSecs
    BY Constants DEF ThrottleTyped, Down
  <2> QED
    BY <1>3, <2>1, <2>2, <2>3 DEF Tick, ThrottleTyped
<1>4. ASSUME NEW c \in Client,
             \/ TooMany(c) \/ (\E path \in Route : Arrive(c, path)) \/ LoginLocked(c)
             \/ Logout(c) \/ Handshake(c) \/ Serve(c) \/ OpenSocket(c) \/ CloseSocket(c)
      PROVE  ThrottleTyped'
  BY <1>4 DEF TooMany, Arrive, LoginLocked, Logout, Handshake, Serve, OpenSocket, CloseSocket,
              ThrottleTyped
<1>5. CASE UNCHANGED doorVars
  BY <1>5 DEF doorVars, ThrottleTyped
<1> QED
  BY <1>1, <1>2, <1>3, <1>4, <1>5 DEF DoorNext

\* The limiter's list stays within its cap.
LEMMA StepLimiterTyped ==
    ASSUME LimiterTyped, [DoorNext]_doorVars
    PROVE  LimiterTyped'
<1> USE DEF throttleVars, rateVars, tokenVars
<1>0. \A c \in Client : /\ Younger(hits[c], RateWindow) \in Seq(0..RateWindow)
                        /\ Len(Younger(hits[c], RateWindow)) <= Len(hits[c])
                        /\ Len(Younger(hits[c], RateWindow)) \in Nat /\ Len(hits[c]) \in Nat
  BY YoungerIs, LenProperties DEF LimiterTyped
<1>1. ASSUME NEW c \in Client, TooMany(c) PROVE LimiterTyped'
  <2>1. hits' = hits \/ hits' = [hits EXCEPT ![c] = Younger(hits[c], RateWindow)]
    BY <1>1 DEF TooMany, TrimHits
  <2>2. hits' \in [Client -> Seq(0..RateWindow)]
    BY <1>0, <2>1 DEF LimiterTyped
  <2>3. \A d \in Client : Len(hits'[d]) <= RateCap
    <3> TAKE d \in Client
    <3>1. Len(hits'[d]) = Len(hits[d]) \/ Len(hits'[d]) = Len(Younger(hits[d], RateWindow))
      BY <2>1 DEF LimiterTyped
    <3>2. Len(hits[d]) <= RateCap
      BY DEF LimiterTyped
    <3> QED
      BY <1>0, <3>1, <3>2, Constants
  <2> QED
    BY <1>1, <2>2, <2>3 DEF TooMany, LimiterTyped
<1>2. ASSUME NEW c \in Client, NEW path \in Route, Arrive(c, path) PROVE LimiterTyped'
  <2>1. CASE c \in Loopback
    BY <1>2, <2>1 DEF Arrive, RecordHit, LimiterTyped
  <2>2. CASE c \notin Loopback
    <3> DEFINE Y == Younger(hits[c], RateWindow)
    <3>1. /\ hits' = [hits EXCEPT ![c] = Append(Y, 0)]
          /\ accepted' = [accepted EXCEPT ![c] = Append(accepted[c], 0)]
          /\ Len(Y) < RateCap
      BY <1>2, <2>2 DEF Arrive, RecordHit, LetIn
    <3>2. 0 \in 0..RateWindow
      BY Constants
    <3>3. Y \in Seq(0..RateWindow) /\ Len(Y) \in Nat
      BY <1>0
    <3> HIDE DEF Y
    <3>4. Append(Y, 0) \in Seq(0..RateWindow) /\ Len(Append(Y, 0)) <= RateCap
      BY <3>1, <3>2, <3>3, AppendProperties, Constants
    <3>5. Append(accepted[c], 0) \in Seq(0..RateWindow)
      BY <3>2, AppendProperties DEF LimiterTyped
    <3>6. hits' \in [Client -> Seq(0..RateWindow)] /\ accepted' \in [Client -> Seq(0..RateWindow)]
      BY <3>1, <3>4, <3>5 DEF LimiterTyped
    <3>7. \A d \in Client : Len(hits'[d]) <= RateCap
      BY <3>1, <3>4 DEF LimiterTyped
    <3> QED
      BY <3>6, <3>7 DEF LimiterTyped
  <2> QED
    BY <2>1, <2>2
<1>3. ASSUME Tick PROVE LimiterTyped'
  <2>1. \A c \in Client : /\ Aged(hits[c], RateWindow) \in Seq(0..RateWindow)
                          /\ Len(Aged(hits[c], RateWindow)) = Len(hits[c])
    BY Constants, AgedIs DEF LimiterTyped
  <2>2. \A c \in Client : Passed(accepted[c], RateWindow) \in Seq(0..RateWindow)
    <3> TAKE c \in Client
    <3>1. Aged(accepted[c], RateWindow) \in Seq(0..RateWindow)
      BY Constants, AgedIs DEF LimiterTyped
    <3> QED
      BY <3>1, YoungerIs DEF Passed
  <2> QED
    BY <1>3, <2>1, <2>2 DEF Tick, LimiterTyped
<1>4. ASSUME NEW c \in Client,
             \/ LoginLocked(c) \/ LoginWrong(c) \/ LoginRight(c)
             \/ Logout(c) \/ Handshake(c) \/ Serve(c) \/ OpenSocket(c) \/ CloseSocket(c)
      PROVE  LimiterTyped'
  BY <1>4 DEF LoginLocked, LoginWrong, LoginRight, Logout, Handshake, Serve, OpenSocket,
              CloseSocket, LimiterTyped
<1>5. CASE UNCHANGED doorVars
  BY <1>5 DEF doorVars, LimiterTyped
<1> QED
  BY <1>1, <1>2, <1>3, <1>4, <1>5 DEF DoorNext

\* What a login does to the table and to what is promised.
LEMMA IssueIs ==
    ASSUME DoorTypeOK, NEW c \in Client, Issue(c)
    PROVE  \E t \in Token \ Known :
              /\ tokens' = Append(Bounded(Unexpired), [id |-> t, left |-> TokenTtl])
              /\ promised' = [u \in Token |->
                     IF u = t THEN [left |-> TokenTtl, newer |-> 0]
                     ELSE IF promised[u] = None THEN None
                     ELSE [promised[u] EXCEPT !.newer = Least(promised[u].newer + 1, MaxTokens)]]
              /\ access' = [access EXCEPT ![c] = t]
              /\ entered' = entered \cup {c}
<1>1. NewToken \in Token \ Known
  BY NewTokenIs DEF Issue
<1>2. /\ tokens' = Append(Bounded(Unexpired), [id |-> NewToken, left |-> TokenTtl])
      /\ promised' = [u \in Token |->
             IF u = NewToken THEN [left |-> TokenTtl, newer |-> 0]
             ELSE IF promised[u] = None THEN None
             ELSE [promised[u] EXCEPT !.newer = Least(promised[u].newer + 1, MaxTokens)]]
      /\ access' = [access EXCEPT ![c] = NewToken]
      /\ entered' = entered \cup {c}
  BY DEF Issue
<1> QED
  BY <1>1, <1>2

\* The table of tokens stays within its cap, and no token is in it twice.
LEMMA StepTableTyped ==
    ASSUME DoorTypeOK, TableTyped, [DoorNext]_doorVars
    PROVE  TableTyped'
<1> USE DEF throttleVars, rateVars, tokenVars
<1>0. Len(tokens) \in Nat /\ DOMAIN tokens = 1..Len(tokens) /\ MaxTokens \in Nat \ {0}
  BY DoorTyped, Constants
\* A purge of the table alone
<1>1. ASSUME tokens' = tokens \/ tokens' = Unexpired, UNCHANGED <<promised, access, entered>>
      PROVE  TableTyped'
  <2>1. /\ Unexpired \in Seq(TokenEntry) /\ Len(Unexpired) <= Len(tokens) /\ Distinct(Unexpired)
        /\ Len(Unexpired) \in Nat
    BY UnexpiredIs, LenProperties
  <2>2. tokens' \in Seq(TokenEntry) /\ Len(tokens') <= MaxTokens
    BY <1>0, <1>1, <2>1 DEF TableTyped
  <2>3. Distinct(tokens)'
    BY <1>1, <2>1 DEF TableTyped, Distinct
  <2> QED
    BY <1>1, <2>2, <2>3 DEF TableTyped
<1>2. ASSUME NEW c \in Client, (\E path \in Route : Arrive(c, path)) \/ OpenSocket(c)
      PROVE  TableTyped'
  BY <1>1, <1>2 DEF Arrive, OpenSocket
<1>3. ASSUME NEW c \in Client, LoginRight(c) PROVE TableTyped'
  <2> DEFINE B == Bounded(Unexpired)
  <2>1. PICK t \in Token \ Known :
           /\ tokens' = Append(B, [id |-> t, left |-> TokenTtl])
           /\ promised' = [u \in Token |->
                  IF u = t THEN [left |-> TokenTtl, newer |-> 0]
                  ELSE IF promised[u] = None THEN None
                  ELSE [promised[u] EXCEPT !.newer = Least(promised[u].newer + 1, MaxTokens)]]
           /\ access' = [access EXCEPT ![c] = t]
           /\ entered' = entered \cup {c}
    BY <1>3, IssueIs DEF LoginRight
  <2>2. /\ B \in Seq(TokenEntry) /\ Len(B) < MaxTokens /\ Distinct(B)
        /\ \A k \in 1..Len(B) : \E i \in 1..Len(tokens) : B[k] = tokens[i]
    BY BoundedIs
  <2> HIDE DEF B
  <2>3. [id |-> t, left |-> TokenTtl] \in TokenEntry
    BY Constants DEF TokenEntry
  <2>4. /\ tokens' \in Seq(TokenEntry) /\ Len(tokens') = Len(B) + 1 /\ Len(B) \in Nat
        /\ \A k \in 1..Len(B) : tokens'[k] = B[k]
        /\ tokens'[Len(B) + 1] = [id |-> t, left |-> TokenTtl]
    BY <2>1, <2>2, <2>3, AppendProperties, LenProperties
  <2>5. \A k \in 1..Len(B) : tokens'[k].id # t
    <3> TAKE k \in 1..Len(B)
    <3>1. PICK i \in 1..Len(tokens) : B[k] = tokens[i]
      BY <2>2
    <3>2. tokens[i].id \in Known
      BY <1>0 DEF Known
    <3> QED
      BY <2>4, <3>1, <3>2
  <2>6. Distinct(tokens)'
    <3> SUFFICES ASSUME NEW i \in 1..Len(tokens'), NEW j \in 1..Len(tokens'),
                        tokens'[i].id = tokens'[j].id
                 PROVE  i = j
      BY DEF Distinct
    <3>1. \A k \in 1..Len(tokens') : k \in 1..Len(B) \/ k = Len(B) + 1
      BY <2>4
    <3>2. tokens'[Len(B) + 1].id = t
      BY <2>4
    <3>3. CASE i \in 1..Len(B) /\ j \in 1..Len(B)
      BY <2>2, <2>4, <3>3 DEF Distinct
    <3> QED
      BY <2>5, <3>1, <3>2, <3>3
  <2>7. promised' \in [Token -> Promise \cup {None}]
    <3>1. [left |-> TokenTtl, newer |-> 0] \in Promise
      BY Constants DEF Promise
    <3>2. \A r \in Promise : [r EXCEPT !.newer = Least(r.newer + 1, MaxTokens)] \in Promise
      <4> TAKE r \in Promise
      <4>1. r.newer \in 0..MaxTokens
        BY DEF Promise
      <4>2. Least(r.newer + 1, MaxTokens) \in 0..MaxTokens
        BY <1>0, <4>1 DEF Least
      <4> QED
        BY <4>2 DEF Promise
    <3>3. \A u \in Token : promised[u] \in Promise \cup {None}
      BY DEF TableTyped
    <3> HIDE DEF Promise
    <3> QED
      BY <2>1, <3>1, <3>2, <3>3
  <2>8. access' \in [Client -> Token \cup {None}] /\ entered' \subseteq Client
    BY <2>1 DEF TableTyped
  <2> QED
    BY <1>0, <2>2, <2>4, <2>6, <2>7, <2>8 DEF TableTyped
<1>4. ASSUME NEW c \in Client, Logout(c) PROVE TableTyped'
  <2> DEFINE I == {i \in DOMAIN tokens : tokens[i].id # access[c]}
  <2>1. tokens \in Seq(TokenEntry) /\ Distinct(tokens)
    BY DoorTyped
  <2>2. I \in SUBSET (1..Len(tokens)) /\ tokens' = KeepAt(tokens, I)
    BY <1>0, <1>4 DEF Logout
  <2> HIDE DEF I
  <2>3. tokens' \in Seq(TokenEntry) /\ Len(tokens') <= Len(tokens)
    BY <2>1, <2>2, TokensKept
  <2>4. Distinct(KeepAt(tokens, I))
    BY <2>1, <2>2, TokensKept
  <2>5. Distinct(tokens)'
    BY <2>2, <2>4 DEF Distinct
  <2>6. promised' \in [Token -> Promise \cup {None}]
    BY <1>4 DEF Logout, TableTyped
  <2>7. Len(tokens') <= MaxTokens
    <3>1. Len(tokens') \in Nat /\ Len(tokens) <= MaxTokens
      BY <2>3, LenProperties DEF TableTyped
    <3> QED
      BY <1>0, <2>3, <3>1
  <2> QED
    BY <1>4, <2>3, <2>5, <2>6, <2>7 DEF Logout, TableTyped
<1>5. ASSUME Tick PROVE TableTyped'
  <2>1. /\ tokens' = [i \in 1..Len(tokens) |-> [tokens[i] EXCEPT !.left = Down(tokens[i].left)]]
        /\ promised' = [t \in Token |->
               IF promised[t] = None \/ promised[t].left = 1 THEN None
               ELSE [promised[t] EXCEPT !.left = promised[t].left - 1]]
    BY <1>0, <1>5 DEF Tick
  <2>2. \A e \in TokenEntry : /\ [e EXCEPT !.left = Down(e.left)] \in TokenEntry
                              /\ [e EXCEPT !.left = Down(e.left)].id = e.id
    <3> TAKE e \in TokenEntry
    <3>1. e.left \in 0..TokenTtl
      BY DEF TokenEntry
    <3>2. Down(e.left) \in 0..TokenTtl
      BY <3>1, Constants DEF Down
    <3> QED
      BY <3>2 DEF TokenEntry
  <2>3. \A i \in 1..Len(tokens) : tokens[i] \in TokenEntry
    BY DoorTyped
  <2>4. tokens' \in [1..Len(tokens) -> TokenEntry]
    BY <2>1, <2>2, <2>3
  <2>5. tokens' \in Seq(TokenEntry) /\ Len(tokens') = Len(tokens)
    BY <1>0, <2>4, SeqDef, LenProperties
  <2>6. \A i \in 1..Len(tokens) : tokens'[i].id = tokens[i].id
    BY <2>1, <2>2, <2>3
  <2>7. Distinct(tokens)'
    BY <2>5, <2>6 DEF TableTyped, Distinct
  <2>8. promised' \in [Token -> Promise \cup {None}]
    <3>1. \A r \in Promise : r.left # 1 => [r EXCEPT !.left = r.left - 1] \in Promise
      <4> SUFFICES ASSUME NEW r \in Promise, r.left # 1
                   PROVE  [r EXCEPT !.left = r.left - 1] \in Promise
        OBVIOUS
      <4>1. r.left \in 1..TokenTtl
        BY DEF Promise
      <4>2. r.left - 1 \in 1..TokenTtl
        BY <4>1, Constants
      <4> QED
        BY <4>2 DEF Promise
    <3>2. \A u \in Token : promised[u] \in Promise \cup {None}
      BY DEF TableTyped
    <3> HIDE DEF Promise
    <3> QED
      BY <2>1, <3>1, <3>2
  <2> QED
    BY <1>5, <2>5, <2>7, <2>8 DEF Tick, TableTyped
<1>6. ASSUME NEW c \in Client,
             \/ TooMany(c) \/ LoginLocked(c) \/ LoginWrong(c) \/ Handshake(c) \/ Serve(c)
             \/ CloseSocket(c)
      PROVE  TableTyped'
  BY <1>1, <1>6 DEF TooMany, LoginLocked, LoginWrong, Handshake, Serve, CloseSocket
<1>7. CASE UNCHANGED doorVars
  BY <1>1, <1>7 DEF doorVars
<1> QED
  BY <1>2, <1>3, <1>4, <1>5, <1>6, <1>7 DEF DoorNext

\* Sessions, requests and sockets keep their types.
LEMMA StepRestTyped ==
    ASSUME RestTyped, [DoorNext]_doorVars
    PROVE  RestTyped'
<1> USE Constants DEF RestTyped
<1>1. ASSUME Tick PROVE RestTyped'
  BY <1>1 DEF Tick, Down
<1>2. ASSUME NEW c \in Client, NEW path \in Route, Arrive(c, path) PROVE RestTyped'
  BY <1>2 DEF Arrive
<1>3. ASSUME NEW c \in Client,
             \/ LoginLocked(c) \/ LoginWrong(c) \/ LoginRight(c) \/ Logout(c) \/ Serve(c)
      PROVE  RestTyped'
  BY <1>3 DEF LoginLocked, LoginWrong, LoginRight, Logout, Serve, Handling
<1>4. ASSUME NEW c \in Client, Handshake(c) PROVE RestTyped'
  BY <1>4 DEF Handshake, Handling
<1>5. ASSUME NEW c \in Client, TooMany(c) \/ OpenSocket(c) \/ CloseSocket(c) PROVE RestTyped'
  BY <1>5 DEF TooMany, OpenSocket, CloseSocket
<1>6. CASE UNCHANGED doorVars
  BY <1>6 DEF doorVars
<1> QED
  BY <1>1, <1>2, <1>3, <1>4, <1>5, <1>6 DEF DoorNext

-----------------------------------------------------------------------------
(* The password                                                            *)

\* Nobody is let in without a token.
LEMMA VerifiedIs ==
    ASSUME DoorTypeOK, NEW c \in Client, Verified(access[c])
    PROVE  access[c] # None
<1>1. Unexpired \in Seq(TokenEntry)
  BY UnexpiredIs
<1>2. PICK i \in 1..Len(Unexpired) : Unexpired[i].id = access[c]
  BY <1>1, LenProperties DEF Verified
<1>3. Unexpired[i] \in TokenEntry
  BY <1>1, ElementOfSeq
<1>4. access[c] \in Int
  BY <1>2, <1>3, Constants DEF TokenEntry, Token
<1> QED
  BY <1>4, FrontDoorAssumption DEF FrontDoorAssumption

\* No step lets a client past the gates that has not given the password.
LEMMA StepEntered ==
    ASSUME DoorTypeOK, TableTyped, RestTyped, Entered, [DoorNext]_doorVars
    PROVE  Entered'
<1> USE DEF throttleVars, rateVars, tokenVars
<1>0. /\ access \in [Client -> Token \cup {None}]
      /\ sessions \in [Client -> 0..SessionTtl]
      /\ request \in [Client -> Route \cup {None}]
      /\ socket \in [Client -> BOOLEAN]
      /\ None \notin Route
  BY FrontDoorAssumption DEF FrontDoorAssumption, Route, TableTyped, RestTyped
\* A client's tables change for one that has entered, if at all.
<1>1. ASSUME entered \subseteq entered',
             \A c \in Client :
                \/ c \in entered'
                \/ /\ access'[c] = access[c] \/ access'[c] = None
                   /\ request'[c] = request[c] \/ request'[c] \in AccessPublic \cup {None}
                   /\ sessions'[c] > 0 => sessions[c] > 0
                   /\ socket'[c] => socket[c]
      PROVE  Entered'
  <2> SUFFICES ASSUME NEW c \in Client,
                      \/ access'[c] # None \/ request'[c] \in Route \ AccessPublic
                      \/ sessions'[c] > 0 \/ socket'[c]
               PROVE  c \in entered'
    BY DEF Entered
  <2>1. CASE c \in entered'
    BY <2>1
  <2>2. CASE c \notin entered'
    <3>1. \/ access[c] # None \/ request[c] \in Route \ AccessPublic
          \/ sessions[c] > 0 \/ socket[c]
      BY <1>0, <1>1, <2>2
    <3> QED
      BY <1>1, <3>1 DEF Entered
  <2> QED
    BY <2>1, <2>2
<1>2. ASSUME NEW c \in Client, NEW path \in Route, Arrive(c, path) PROVE Entered'
  <2>1. /\ entered' = entered /\ access' = access /\ sessions' = sessions /\ socket' = socket
        /\ \A d \in Client \ {c} : request'[d] = request[d]
    BY <1>0, <1>2 DEF Arrive
  <2>2. CASE request' = request
    BY <1>1, <2>1, <2>2
  <2>3. CASE request' # request
    <3>1. AccessGate(c, path) /\ request'[c] = path
      BY <1>0, <1>2, <2>3 DEF Arrive
    <3>2. CASE path \in AccessPublic
      BY <1>1, <2>1, <3>1, <3>2
    <3>3. CASE path \notin AccessPublic
      <4>1. c \in entered
        BY <3>1, <3>3, VerifiedIs DEF AccessGate, Entered
      <4> QED
        BY <1>1, <2>1, <4>1
    <3> QED
      BY <3>2, <3>3
  <2> QED
    BY <2>2, <2>3
<1>3. ASSUME NEW c \in Client, LoginRight(c) PROVE Entered'
  <2>1. /\ entered' = entered \cup {c} /\ sessions' = sessions /\ socket' = socket
        /\ \A d \in Client \ {c} : access'[d] = access[d] /\ request'[d] = request[d]
    BY <1>0, <1>3 DEF LoginRight, Issue, Handling
  <2> QED
    BY <1>1, <2>1
<1>4. ASSUME NEW c \in Client, LoginLocked(c) \/ LoginWrong(c) \/ Logout(c) \/ Serve(c)
      PROVE  Entered'
  <2>1. /\ entered' = entered /\ access' = access /\ sessions' = sessions /\ socket' = socket
        /\ request' = [request EXCEPT ![c] = None]
    BY <1>4 DEF LoginLocked, LoginWrong, Logout, Serve, Handling
  <2>2. \A d \in Client : request'[d] = request[d] \/ request'[d] = None
    BY <1>0, <2>1
  <2> QED
    BY <1>1, <2>1, <2>2
<1>5. ASSUME NEW c \in Client, Handshake(c) PROVE Entered'
  <2>1. /\ entered' = entered /\ access' = access /\ socket' = socket
        /\ request[c] = "handshake"
        /\ \A d \in Client \ {c} : sessions'[d] = sessions[d] /\ request'[d] = request[d]
    BY <1>0, <1>5 DEF Handshake, Handling
  <2>2. c \in entered
    BY <2>1 DEF Entered, Route, AccessPublic
  <2> QED
    BY <1>1, <2>1, <2>2
<1>6. ASSUME NEW c \in Client, OpenSocket(c) PROVE Entered'
  <2>1. /\ entered' = entered /\ access' = access /\ sessions' = sessions /\ request' = request
        /\ \A d \in Client \ {c} : socket'[d] = socket[d]
    BY <1>0, <1>6 DEF OpenSocket
  <2>2. c \in entered
    BY <1>6, VerifiedIs DEF OpenSocket, Entered
  <2> QED
    BY <1>1, <2>1, <2>2
<1>7. ASSUME NEW c \in Client, CloseSocket(c) PROVE Entered'
  <2>1. /\ entered' = entered /\ access' = access /\ sessions' = sessions /\ request' = request
        /\ \A d \in Client : socket'[d] => socket[d]
    BY <1>0, <1>7 DEF CloseSocket
  <2> QED
    BY <1>1, <2>1
<1>8. ASSUME Tick PROVE Entered'
  <2>1. /\ entered' = entered /\ access' = access /\ request' = request /\ socket' = socket
        /\ \A d \in Client : sessions'[d] = Down(sessions[d])
    BY <1>8 DEF Tick
  <2>2. \A d \in Client : sessions'[d] > 0 => sessions[d] > 0
    BY <1>0, <2>1, Constants DEF Down
  <2> QED
    BY <1>1, <2>1, <2>2
<1>9. ASSUME NEW c \in Client, TooMany(c) PROVE Entered'
  BY <1>1, <1>9 DEF TooMany
<1>10. CASE UNCHANGED doorVars
  BY <1>1, <1>10 DEF doorVars
<1> QED
  BY <1>2, <1>3, <1>4, <1>5, <1>6, <1>7, <1>8, <1>9, <1>10 DEF DoorNext

-----------------------------------------------------------------------------
(* The limiter                                                             *)

\* What is let in goes on the limiter's list, and leaves it with its window.
LEMMA StepLimited ==
    ASSUME LimiterTyped, Limited, [DoorNext]_doorVars
    PROVE  Limited'
<1> USE DEF throttleVars, rateVars, tokenVars
<1>0. /\ hits \in [Client -> Seq(0..RateWindow)] /\ accepted \in [Client -> Seq(0..RateWindow)]
      /\ RateWindow \in Nat \ {0} /\ 0 \in 0..RateWindow
  BY Constants DEF LimiterTyped
\* Trimming the list loses nothing that is still within the window.
<1>1. \A c \in Client : /\ Embeds(accepted[c], Younger(hits[c], RateWindow))
                        /\ Younger(hits[c], RateWindow) \in Seq(0..RateWindow)
  <2> TAKE c \in Client
  <2> DEFINE T == 0..RateWindow
  <2>1. hits[c] \in Seq(T) /\ accepted[c] \in Seq(T)
    BY <1>0
  <2>2. /\ Embeds(accepted[c], hits[c])
        /\ \A k \in 1..Len(accepted[c]) : accepted[c][k] < RateWindow
    BY DEF Limited
  <2> HIDE DEF T
  <2>3. Embeds(accepted[c], Younger(hits[c], RateWindow))
    BY <2>1, <2>2, YoungerEmbeds
  <2>4. Younger(hits[c], RateWindow) \in Seq(T)
    BY <2>1, YoungerIs
  <2> QED
    BY <2>3, <2>4 DEF T
<1>2. ASSUME NEW c \in Client, TooMany(c) PROVE Limited'
  <2>1. /\ accepted' = accepted
        /\ \A d \in Client : hits'[d] = hits[d] \/ hits'[d] = Younger(hits[d], RateWindow)
    BY <1>0, <1>2 DEF TooMany, TrimHits
  <2> QED
    BY <1>1, <2>1 DEF Limited
<1>3. ASSUME NEW c \in Client, NEW path \in Route, Arrive(c, path) PROVE Limited'
  <2>1. CASE c \in Loopback
    BY <1>3, <2>1 DEF Arrive, RecordHit, Limited
  <2>2. CASE c \notin Loopback
    <3> DEFINE Y == Younger(hits[c], RateWindow)
    <3>1. /\ hits'[c] = Append(Y, 0) /\ accepted'[c] = Append(accepted[c], 0)
          /\ \A d \in Client \ {c} : hits'[d] = hits[d] /\ accepted'[d] = accepted[d]
      BY <1>0, <1>3, <2>2 DEF Arrive, RecordHit
    <3>2. Embeds(accepted[c], Y) /\ Y \in Seq(0..RateWindow)
      BY <1>1
    <3> HIDE DEF Y
    <3>3. Embeds(Append(accepted[c], 0), Append(Y, 0))
      BY <1>0, <3>2, EmbedsAppend
    <3>4. \A k \in 1..Len(Append(accepted[c], 0)) : Append(accepted[c], 0)[k] < RateWindow
      <4>1. /\ Len(Append(accepted[c], 0)) = Len(accepted[c]) + 1
            /\ \A k \in 1..Len(accepted[c]) : Append(accepted[c], 0)[k] = accepted[c][k]
            /\ Append(accepted[c], 0)[Len(accepted[c]) + 1] = 0
            /\ Len(accepted[c]) \in Nat
        BY <1>0, AppendProperties, LenProperties
      <4>2. \A k \in 1..Len(accepted[c]) : accepted[c][k] < RateWindow
        BY DEF Limited
      <4>3. \A k \in 1..Len(accepted[c]) + 1 : k \in 1..Len(accepted[c]) \/ k = Len(accepted[c]) + 1
        BY <4>1
      <4>4. 0 < RateWindow
        BY <1>0
      <4> QED
        BY <4>1, <4>2, <4>3, <4>4
    <3> QED
      BY <3>1, <3>3, <3>4 DEF Limited
  <2> QED
    BY <2>1, <2>2
<1>4. ASSUME Tick PROVE Limited'
  <2> SUFFICES ASSUME NEW c \in Client
               PROVE  /\ Embeds(accepted'[c], hits'[c])
                      /\ \A k \in 1..Len(accepted'[c]) : accepted'[c][k] < RateWindow
    BY DEF Limited
  <2>1. /\ hits'[c] = Aged(hits[c], RateWindow)
        /\ accepted'[c] = Passed(accepted[c], RateWindow)
    BY <1>4 DEF Tick
  <2>2. Embeds(accepted[c], hits[c])
    BY DEF Limited
  <2>3. Embeds(accepted'[c], hits'[c])
    BY <1>0, <2>1, <2>2, PassedEmbeds
  <2>4. Aged(accepted[c], RateWindow) \in Seq(0..RateWindow)
    BY <1>0, AgedIs
  <2>5. \A k \in 1..Len(accepted'[c]) : accepted'[c][k] < RateWindow
    BY <2>1, <2>4, YoungerIs DEF Passed
  <2> QED
    BY <2>3, <2>5
<1>5. ASSUME NEW c \in Client,
             \/ LoginLocked(c) \/ LoginWrong(c) \/ LoginRight(c)
             \/ Logout(c) \/ Handshake(c) \/ Serve(c) \/ OpenSocket(c) \/ CloseSocket(c)
      PROVE  Limited'
  BY <1>5 DEF LoginLocked, LoginWrong, LoginRight, Logout, Handshake, Serve, OpenSocket,
              CloseSocket, Limited
<1>6. CASE UNCHANGED doorVars
  BY <1>6 DEF doorVars, Limited
<1> QED
  BY <1>2, <1>3, <1>4, <1>5, <1>6 DEF DoorNext

-----------------------------------------------------------------------------
(* The throttle                                                            *)

\* Nothing has to be embedded of an empty list.
LEMMA EmbedsNone ==
    ASSUME NEW a, NEW b, Len(a) = 0
    PROVE  Embeds(a, b)
<1> DEFINE m == [k \in {} |-> 0]
<1>1. 1..Len(a) = {}
  OBVIOUS
<1>2. m \in [1..Len(a) -> 1..Len(b)]
  BY <1>1
<1> QED
  BY <1>1, <1>2 DEF Embeds

\* What has not left the window is a second older than it was.
LEMMA PassedIs ==
    ASSUME NEW g \in Nat, NEW a \in Seq(0..g), NEW P, P = Passed(a, g)
    PROVE  /\ P \in Seq(0..g) /\ Len(P) <= Len(a) /\ Len(P) \in Nat
           /\ \A k \in 1..Len(P) : P[k] < g /\ \E i \in 1..Len(a) : P[k] = a[i] + 1
<1> DEFINE A == Aged(a, g)
           I == {i \in DOMAIN A : A[i] < g}
           T == 0..g
<1>1. /\ A \in Seq(T) /\ Len(A) = Len(a)
      /\ \A i \in 1..Len(a) : A[i] = Least(a[i] + 1, g)
  BY AgedIs
<1>2. \A i \in 1..Len(a) : a[i] \in Nat
  <2> TAKE i \in 1..Len(a)
  <2>1. a[i] \in 0..g
    BY ElementOfSeq
  <2> QED
    BY <2>1
<1>3. P = Younger(A, g) /\ P = KeepAt(A, I)
  BY DEF Passed, Younger
<1> HIDE DEF A
<1>4. DOMAIN A = 1..Len(A)
  BY <1>1, LenProperties
<1>5. I \in SUBSET (1..Len(A)) /\ \A i \in I : i \in 1..Len(a) /\ A[i] < g
  BY <1>1, <1>4
<1> HIDE DEF I, T
<1>6. P \in Seq(T) /\ Len(P) <= Len(A) /\ Len(P) \in Nat
  <2>1. Younger(A, g) \in Seq(T) /\ Len(Younger(A, g)) <= Len(A)
    BY <1>1, YoungerIs
  <2> QED
    BY <1>3, <2>1, LenProperties
<1>7. \A k \in 1..Len(P) : \E i \in I : P[k] = A[i]
  <2>1. \A k \in 1..Len(P) : \E i \in I : Place(I, i) = k /\ P[k] = A[i]
    BY <1>1, <1>3, <1>5, KeptFrom, SMTT(30)
  <2> QED
    BY <2>1
<1>8. \A i \in I : A[i] < g /\ A[i] = a[i] + 1
  BY <1>1, <1>2, <1>5 DEF Least
<1> QED
  BY <1>1, <1>5, <1>6, <1>7, <1>8 DEF T

\* What Throttled says of a client, of its three variables
Checked(f, u, g) ==
    /\ \A k \in 1..Len(g) : g[k] < GuessSpan
    /\ u = 0 => Embeds(g, f)
    /\ u > 0 => /\ f = <<>>
                /\ Len(g) <= FailureCap
                /\ \A k \in 1..Len(g) : g[k] >= LockoutSecs - u

\* One more refused password: it joins the others on the list or locks.
LEMMA GuessChecked ==
    ASSUME NEW f \in Seq(0..LoginWindow), NEW g \in Seq(0..GuessSpan),
           Len(f) < FailureCap, Checked(f, 0, g),
           NEW K, K = Append(Younger(f, LoginWindow), 0)
    PROVE  /\ Checked(K, 0, Append(g, 0))
           /\ Checked(<<>>, LockoutSecs, Append(g, 0))
<1> DEFINE T == 0..LoginWindow
           Y == Younger(f, LoginWindow)
           G == Append(g, 0)
<1>0. f \in Seq(T) /\ 0 \in T /\ g \in Seq(T)
  <2>1. 0..GuessSpan \subseteq T /\ 0 \in T
    BY Constants
  <2> QED
    BY <2>1, SeqMonotonic
<1>1. /\ Len(g) \in Nat /\ Len(f) \in Nat /\ Len(G) = Len(g) + 1 /\ G[Len(g) + 1] = 0
      /\ \A k \in 1..Len(g) : G[k] = g[k]
  <2> HIDE DEF T
  <2> QED
    BY <1>0, AppendProperties, LenProperties
<1>2. \A k \in 1..Len(g) : g[k] < GuessSpan /\ g[k] < LoginWindow /\ g[k] >= 0
  <2> TAKE k \in 1..Len(g)
  <2>1. g[k] \in 0..GuessSpan
    BY ElementOfSeq
  <2>2. g[k] < GuessSpan
    BY DEF Checked
  <2> QED
    BY <2>1, <2>2, Constants
<1>3. Embeds(g, f)
  BY DEF Checked
<1>4. Len(g) <= Len(f)
  <2> HIDE DEF T
  <2> QED
    BY <1>0, <1>3, EmbedsLen
<1>5. Embeds(g, Y) /\ Y \in Seq(T)
  <2> HIDE DEF T
  <2> QED
    BY <1>0, <1>2, <1>3, YoungerEmbeds, YoungerIs
<1>6. Embeds(G, K)
  <2> HIDE DEF T, Y
  <2>1. K = Append(Y, 0)
    BY DEF Y
  <2> QED
    BY <1>0, <1>5, <2>1, EmbedsAppend
<1>7. \A k \in 1..Len(G) : G[k] < GuessSpan /\ G[k] >= 0
  <2> HIDE DEF G
  <2>1. \A k \in 1..Len(G) : k \in 1..Len(g) \/ k = Len(g) + 1
    BY <1>1
  <2>2. 0 < GuessSpan
    BY Constants
  <2> QED
    BY <1>1, <1>2, <2>1, <2>2
<1>8. Len(G) <= FailureCap
  BY <1>1, <1>4, Constants
<1> HIDE DEF G
<1>9. Checked(K, 0, G)
  BY <1>6, <1>7 DEF Checked
<1>10. Checked(<<>>, LockoutSecs, G)
  <2>1. LockoutSecs > 0 /\ LockoutSecs - LockoutSecs = 0
    BY Constants
  <2> QED
    BY <1>7, <1>8, <2>1 DEF Checked
<1> QED
  BY <1>9, <1>10 DEF G

\* A second passes; with the lockout's last one, the last guess is forgotten.
LEMMA TickChecked ==
    ASSUME NEW f \in Seq(0..LoginWindow), NEW g \in Seq(0..GuessSpan),
           NEW u \in 0..LockoutSecs, Checked(f, u, g)
    PROVE  Checked(Aged(f, LoginWindow), Down(u), Passed(g, GuessSpan))
<1> DEFINE P == Passed(g, GuessSpan)
           A == Aged(f, LoginWindow)
<1>0. GuessSpan \in Nat /\ LoginWindow \in Nat /\ LockoutSecs \in Nat
      /\ GuessSpan <= LoginWindow /\ GuessSpan <= LockoutSecs /\ FailureCap \in Nat
  BY Constants
<1>1. /\ P \in Seq(0..GuessSpan) /\ Len(P) <= Len(g) /\ Len(P) \in Nat
      /\ \A k \in 1..Len(P) : P[k] < GuessSpan /\ \E i \in 1..Len(g) : P[k] = g[i] + 1
  BY <1>0, PassedIs
<1>2. \A i \in 1..Len(g) : g[i] \in Nat
  <2> TAKE i \in 1..Len(g)
  <2>1. g[i] \in 0..GuessSpan
    BY ElementOfSeq
  <2> QED
    BY <1>0, <2>1
<1>3. CASE u = 0
  <2>1. Embeds(P, A)
    BY <1>0, <1>3, PassedEmbeds DEF Checked
  <2>2. Down(u) = 0
    BY <1>3 DEF Down
  <2> HIDE DEF P, A
  <2>3. Checked(A, 0, P)
    BY <1>1, <2>1 DEF Checked
  <2> QED
    BY <2>2, <2>3 DEF P, A
<1>4. CASE u > 0
  <2>1. Down(u) = u - 1 /\ u - 1 \in Nat /\ u \in Nat
    BY <1>0, <1>4 DEF Down
  <2>2. /\ f = <<>> /\ Len(g) <= FailureCap
        /\ \A k \in 1..Len(g) : g[k] >= LockoutSecs - u
    BY <1>4 DEF Checked
  <2> HIDE DEF P, A
  <2>3. \A k \in 1..Len(P) : P[k] >= LockoutSecs - (u - 1)
    <3> TAKE k \in 1..Len(P)
    <3>1. PICK i \in 1..Len(g) : P[k] = g[i] + 1
      BY <1>1
    <3>2. g[i] >= LockoutSecs - u /\ g[i] \in Nat
      BY <1>2, <2>2
    <3> QED
      BY <1>0, <2>1, <3>1, <3>2
  <2>4. u - 1 = 0 => Len(P) = 0
    <3> SUFFICES ASSUME u - 1 = 0, Len(P) # 0 PROVE FALSE
      OBVIOUS
    <3>1. 1 \in 1..Len(P)
      BY <1>1
    <3>2. P[1] < GuessSpan /\ P[1] >= LockoutSecs - 0
      BY <1>1, <2>3, <3>1
    <3>3. PICK i \in 1..Len(g) : P[1] = g[i] + 1
      BY <1>1, <3>1
    <3>4. P[1] \in Nat
      BY <1>2, <3>3
    <3> QED
      BY <1>0, <3>2, <3>4
  <2>5. u - 1 = 0 => Embeds(P, A)
    BY <2>4, EmbedsNone
  <2>6. Len(P) <= FailureCap
    <3>1. Len(g) \in Nat
      BY LenProperties
    <3> QED
      BY <1>0, <1>1, <2>2, <3>1
  <2>7. A = <<>>
    <3>1. Len(A) = 0 /\ A \in Seq(0..LoginWindow)
      BY <1>0, <2>2, AgedIs, EmptySeq DEF A
    <3> QED
      BY <3>1, EmptySeq
  <2>8. Checked(A, u - 1, P)
    BY <1>1, <2>3, <2>5, <2>6, <2>7 DEF Checked
  <2> QED
    BY <2>1, <2>8 DEF P, A
<1> QED
  BY <1>3, <1>4, <1>0

\* No step leaves a refused password out of the throttle's account.
LEMMA StepThrottled ==
    ASSUME ThrottleTyped, Throttled, [DoorNext]_doorVars
    PROVE  Throttled'
<1> USE DEF throttleVars, rateVars, tokenVars
<1>0. /\ fails \in [Client -> Seq(0..LoginWindow)] /\ guesses \in [Client -> Seq(0..GuessSpan)]
      /\ \A c \in Client : Len(fails[c]) < FailureCap
      /\ until \in [Client -> 0..LockoutSecs]
      /\ \A c \in Client : Checked(fails[c], until[c], guesses[c])
  BY DEF ThrottleTyped, Throttled, Checked
<1>1. Throttled' <=> \A c \in Client : Checked(fails'[c], until'[c], guesses'[c])
  BY DEF Throttled, Checked
<1>2. ASSUME NEW c \in Client, LoginWrong(c) PROVE Throttled'
  <2>1. CASE c \in Loopback
    BY <1>0, <1>1, <1>2, <2>1 DEF LoginWrong
  <2>2. CASE c \notin Loopback
    <3> DEFINE K == Append(Younger(fails[c], LoginWindow), 0)
    <3>1. /\ fails' = [fails EXCEPT ![c] = IF Len(K) >= FailureCap THEN <<>> ELSE K]
          /\ until' = IF Len(K) >= FailureCap THEN [until EXCEPT ![c] = LockoutSecs] ELSE until
          /\ guesses' = [guesses EXCEPT ![c] = Append(guesses[c], 0)]
      BY <1>2, <2>2 DEF LoginWrong, RecordFailure
    <3>2. until[c] = 0
      BY <1>0, <1>2, <2>2, Constants DEF LoginWrong, LockedOut
    <3>3. /\ Checked(K, 0, Append(guesses[c], 0))
          /\ Checked(<<>>, LockoutSecs, Append(guesses[c], 0))
      BY <1>0, <3>2, GuessChecked
    <3> HIDE DEF K
    <3>4. Checked(fails'[c], until'[c], guesses'[c])
      <4>1. CASE Len(K) >= FailureCap
        <5>1. fails'[c] = <<>> /\ until'[c] = LockoutSecs /\ guesses'[c] = Append(guesses[c], 0)
          BY <1>0, <3>1, <4>1
        <5> QED
          BY <3>3, <5>1
      <4>2. CASE ~(Len(K) >= FailureCap)
        <5>1. fails'[c] = K /\ until'[c] = 0 /\ guesses'[c] = Append(guesses[c], 0)
          BY <1>0, <3>1, <3>2, <4>2
        <5> QED
          BY <3>3, <5>1
      <4> QED
        BY <4>1, <4>2
    <3>5. \A d \in Client \ {c} :
             fails'[d] = fails[d] /\ until'[d] = until[d] /\ guesses'[d] = guesses[d]
      BY <1>0, <3>1
    <3> QED
      BY <1>0, <1>1, <3>4, <3>5
  <2> QED
    BY <2>1, <2>2
<1>3. ASSUME NEW c \in Client, LoginRight(c) PROVE Throttled'
  <2>1. fails'[c] = <<>> /\ until'[c] = 0 /\ guesses'[c] = <<>>
    BY <1>0, <1>3 DEF LoginRight
  <2>2. \A d \in Client \ {c} :
           fails'[d] = fails[d] /\ until'[d] = until[d] /\ guesses'[d] = guesses[d]
    BY <1>0, <1>3 DEF LoginRight
  <2>3. Checked(<<>>, 0, <<>>)
    BY EmbedsNone, EmptySeq DEF Checked
  <2> QED
    BY <1>0, <1>1, <2>1, <2>2, <2>3
<1>4. ASSUME Tick PROVE Throttled'
  <2> SUFFICES ASSUME NEW c \in Client PROVE Checked(fails'[c], until'[c], guesses'[c])
    BY <1>1
  <2>1. /\ fails'[c] = Aged(fails[c], LoginWindow) /\ until'[c] = Down(until[c])
        /\ guesses'[c] = Passed(guesses[c], GuessSpan)
    BY <1>4 DEF Tick
  <2> QED
    BY <1>0, <2>1, TickChecked
<1>5. ASSUME NEW c \in Client,
             \/ TooMany(c) \/ (\E path \in Route : Arrive(c, path)) \/ LoginLocked(c)
             \/ Logout(c) \/ Handshake(c) \/ Serve(c) \/ OpenSocket(c) \/ CloseSocket(c)
      PROVE  Throttled'
  <2>1. UNCHANGED throttleVars
    BY <1>5 DEF TooMany, Arrive, LoginLocked, Logout, Handshake, Serve, OpenSocket, CloseSocket
  <2> QED
    BY <1>0, <1>1, <2>1
<1>6. CASE UNCHANGED doorVars
  BY <1>0, <1>1, <1>6 DEF doorVars
<1> QED
  BY <1>2, <1>3, <1>4, <1>5, <1>6 DEF DoorNext

-----------------------------------------------------------------------------
(* The table of tokens                                                     *)

\* What Standing says of a token t with the promise r
Stands(table, t, r) ==
    \/ r.newer >= MaxTokens
    \/ \E i \in 1..Len(table) :
          /\ table[i].id = t /\ table[i].left = r.left
          /\ Len(table) - i <= r.newer

\* No step takes a token that is still promised out of the table before
\* MaxTokens others have been issued.
LEMMA StepStanding ==
    ASSUME DoorTypeOK, TableTyped, Standing, [DoorNext]_doorVars
    PROVE  Standing'
<1> USE DEF throttleVars, rateVars, tokenVars
<1>0. /\ Len(tokens) \in Nat /\ DOMAIN tokens = 1..Len(tokens) /\ MaxTokens \in Nat \ {0}
      /\ TokenTtl \in Nat \ {0} /\ tokens \in Seq(TokenEntry) /\ Distinct(tokens)
      /\ \A i \in 1..Len(tokens) : tokens[i] \in TokenEntry
  BY DoorTyped, Constants
<1>1. \A t \in Token : promised[t] # None =>
         /\ promised[t] \in Promise /\ promised[t].left \in 1..TokenTtl
         /\ promised[t].newer \in 0..MaxTokens
         /\ Stands(tokens, t, promised[t])
  BY DEF TableTyped, Promise, Standing, Stands
<1>2. Standing' <=> \A t \in Token : promised'[t] # None => Stands(tokens', t, promised'[t])
  BY DEF Standing, Stands
\* A purge of the table alone
<1>3. ASSUME tokens' = tokens \/ tokens' = Unexpired, promised' = promised
      PROVE  Standing'
  <2>1. CASE tokens' = tokens
    BY <1>1, <1>2, <1>3, <2>1
  <2>2. CASE tokens' = Unexpired
    <3> SUFFICES ASSUME NEW t \in Token, promised[t] # None
                 PROVE  Stands(Unexpired, t, promised[t])
      BY <1>2, <1>3, <2>2
    <3>1. CASE promised[t].newer >= MaxTokens
      BY <3>1 DEF Stands
    <3>2. CASE ~(promised[t].newer >= MaxTokens)
      <4>1. PICK i \in 1..Len(tokens) :
               /\ tokens[i].id = t /\ tokens[i].left = promised[t].left
               /\ Len(tokens) - i <= promised[t].newer
        BY <1>1, <3>2 DEF Stands
      <4>2. tokens[i].left > 0
        BY <1>0, <1>1, <4>1
      <4>3. PICK k \in 1..Len(Unexpired) :
               Unexpired[k] = tokens[i] /\ Len(Unexpired) - k <= Len(tokens) - i
        BY <4>2, UnexpiredIs
      <4>4. Len(Unexpired) \in Nat
        BY UnexpiredIs, LenProperties
      <4>5. Len(Unexpired) - k <= promised[t].newer
        BY <1>0, <1>1, <4>1, <4>3, <4>4
      <4> QED
        BY <4>1, <4>3, <4>5 DEF Stands
    <3> QED
      BY <3>1, <3>2
  <2> QED
    BY <1>3, <2>1, <2>2
<1>4. ASSUME NEW c \in Client, (\E path \in Route : Arrive(c, path)) \/ OpenSocket(c)
      PROVE  Standing'
  BY <1>3, <1>4 DEF Arrive, OpenSocket
<1>5. ASSUME NEW c \in Client, LoginRight(c) PROVE Standing'
  <2> DEFINE B == Bounded(Unexpired)
  <2>1. PICK n \in Token \ Known :
           /\ tokens' = Append(B, [id |-> n, left |-> TokenTtl])
           /\ promised' = [u \in Token |->
                  IF u = n THEN [left |-> TokenTtl, newer |-> 0]
                  ELSE IF promised[u] = None THEN None
                  ELSE [promised[u] EXCEPT !.newer = Least(promised[u].newer + 1, MaxTokens)]]
    BY <1>5, IssueIs DEF LoginRight
  <2>2. /\ B \in Seq(TokenEntry)
        /\ \A i \in 1..Len(tokens) : tokens[i].left > 0 =>
              \/ Len(tokens) - i >= MaxTokens - 1
              \/ \E k \in 1..Len(B) : B[k] = tokens[i] /\ Len(B) - k <= Len(tokens) - i
    BY BoundedIs
  <2> HIDE DEF B
  <2>3. [id |-> n, left |-> TokenTtl] \in TokenEntry
    BY <1>0 DEF TokenEntry
  <2>4. /\ Len(tokens') = Len(B) + 1 /\ Len(B) \in Nat
        /\ \A k \in 1..Len(B) : tokens'[k] = B[k]
        /\ tokens'[Len(B) + 1] = [id |-> n, left |-> TokenTtl]
    BY <2>1, <2>2, <2>3, AppendProperties, LenProperties
  <2> SUFFICES ASSUME NEW t \in Token, promised'[t] # None
               PROVE  Stands(tokens', t, promised'[t])
    BY <1>2
  <2>5. CASE t = n
    <3>1. promised'[t] = [left |-> TokenTtl, newer |-> 0]
      BY <2>1, <2>5
    <3>2. Len(B) + 1 \in 1..Len(tokens') /\ Len(tokens') - (Len(B) + 1) <= 0
      BY <2>4
    <3> QED
      BY <2>4, <2>5, <3>1, <3>2 DEF Stands
  <2>6. CASE t # n
    <3>1. /\ promised[t] # None
          /\ promised'[t] = [promised[t] EXCEPT !.newer = Least(promised[t].newer + 1, MaxTokens)]
      BY <2>1, <2>6
    <3>2. /\ promised[t].newer \in Nat /\ promised[t].newer <= MaxTokens
          /\ promised[t].left > 0 /\ Stands(tokens, t, promised[t])
      BY <1>0, <1>1, <3>1
    <3>3. /\ promised'[t].left = promised[t].left
          /\ promised'[t].newer = Least(promised[t].newer + 1, MaxTokens)
      BY <1>1, <3>1 DEF Promise
    <3>4. CASE promised[t].newer + 1 >= MaxTokens
      <4>1. promised'[t].newer = MaxTokens
        BY <1>0, <3>2, <3>3, <3>4 DEF Least
      <4> QED
        BY <1>0, <4>1 DEF Stands
    <3>5. CASE ~(promised[t].newer + 1 >= MaxTokens)
      <4>1. promised'[t].newer = promised[t].newer + 1
        BY <1>0, <3>2, <3>3, <3>5 DEF Least
      <4>2. PICK i \in 1..Len(tokens) :
               /\ tokens[i].id = t /\ tokens[i].left = promised[t].left
               /\ Len(tokens) - i <= promised[t].newer
        BY <1>0, <3>2, <3>5 DEF Stands
      <4>3. ~(Len(tokens) - i >= MaxTokens - 1)
        BY <1>0, <3>2, <3>5, <4>2
      <4>4. PICK k \in 1..Len(B) : B[k] = tokens[i] /\ Len(B) - k <= Len(tokens) - i
        BY <2>2, <3>2, <4>2, <4>3
      <4>5. k \in 1..Len(tokens') /\ Len(tokens') - k <= promised[t].newer + 1
        BY <1>0, <2>4, <3>2, <4>2, <4>4
      <4> QED
        BY <2>4, <3>3, <4>1, <4>2, <4>4, <4>5 DEF Stands
    <3> QED
      BY <3>4, <3>5
  <2> QED
    BY <2>5, <2>6
<1>6. ASSUME NEW c \in Client, Logout(c) PROVE Standing'
  <2> DEFINE I == {i \in DOMAIN tokens : tokens[i].id # access[c]}
  <2>1. /\ I \in SUBSET (1..Len(tokens)) /\ tokens' = KeepAt(tokens, I)
        /\ \A i \in 1..Len(tokens) : tokens[i].id # access[c] => i \in I
    BY <1>0, <1>6 DEF Logout
  <2>2. promised' = [t \in Token |-> IF t = access[c] THEN None ELSE promised[t]]
    BY <1>6 DEF Logout
  <2> HIDE DEF I
  <2>3. /\ tokens' \in Seq(TokenEntry)
        /\ \A i \in I : \E k \in 1..Len(tokens') :
              tokens'[k] = tokens[i] /\ Len(tokens') - k <= Len(tokens) - i
    BY <1>0, <2>1, TokensKept
  <2> SUFFICES ASSUME NEW t \in Token, promised'[t] # None
               PROVE  Stands(tokens', t, promised'[t])
    BY <1>2
  <2>4. t # access[c] /\ promised[t] # None /\ promised'[t] = promised[t]
    BY <2>2
  <2>5. CASE promised[t].newer >= MaxTokens
    BY <2>4, <2>5 DEF Stands
  <2>6. CASE ~(promised[t].newer >= MaxTokens)
    <3>1. PICK i \in 1..Len(tokens) :
             /\ tokens[i].id = t /\ tokens[i].left = promised[t].left
             /\ Len(tokens) - i <= promised[t].newer
      BY <1>1, <2>4, <2>6 DEF Stands
    <3>2. PICK k \in 1..Len(tokens') :
             tokens'[k] = tokens[i] /\ Len(tokens') - k <= Len(tokens) - i
      BY <2>1, <2>3, <2>4, <3>1
    <3>3. Len(tokens') \in Nat
      BY <2>3, LenProperties
    <3>4. Len(tokens') - k <= promised[t].newer
      BY <1>0, <1>1, <2>4, <3>1, <3>2, <3>3
    <3> QED
      BY <2>4, <3>1, <3>2, <3>4 DEF Stands
  <2> QED
    BY <2>5, <2>6
<1>7. ASSUME Tick PROVE Standing'
  <2>1. /\ tokens' = [i \in 1..Len(tokens) |-> [tokens[i] EXCEPT !.left = Down(tokens[i].left)]]
        /\ promised' = [t \in Token |->
               IF promised[t] = None \/ promised[t].left = 1 THEN None
               ELSE [promised[t] EXCEPT !.left = promised[t].left - 1]]
    BY <1>0, <1>7 DEF Tick
  <2>2. Len(tokens') = Len(tokens)
    BY <1>0, <2>1, LenProperties
  <2>3. \A i \in 1..Len(tokens) :
           tokens'[i].id = tokens[i].id /\ tokens'[i].left = Down(tokens[i].left)
    BY <1>0, <2>1 DEF TokenEntry
  <2> SUFFICES ASSUME NEW t \in Token, promised'[t] # None
               PROVE  Stands(tokens', t, promised'[t])
    BY <1>2
  <2>4. /\ promised[t] # None /\ promised[t].left # 1
        /\ promised'[t] = [promised[t] EXCEPT !.left = promised[t].left - 1]
    BY <2>1
  <2>5. promised'[t].left = promised[t].left - 1 /\ promised'[t].newer = promised[t].newer
    BY <1>1, <2>4 DEF Promise
  <2>6. promised[t].left \in Nat /\ promised[t].left > 0 /\ Stands(tokens, t, promised[t])
    BY <1>0, <1>1, <2>4
  <2>7. Down(promised[t].left) = promised[t].left - 1
    BY <2>6 DEF Down
  <2> QED
    BY <2>2, <2>3, <2>5, <2>6, <2>7 DEF Stands
<1>8. ASSUME NEW c \in Client,
             \/ TooMany(c) \/ LoginLocked(c) \/ LoginWrong(c) \/ Handshake(c) \/ Serve(c)
             \/ CloseSocket(c)
      PROVE  Standing'
  BY <1>3, <1>8 DEF TooMany, LoginLocked, LoginWrong, Handshake, Serve, CloseSocket
<1>9. CASE UNCHANGED doorVars
  BY <1>3, <1>9 DEF doorVars
<1> QED
  BY <1>4, <1>5, <1>6, <1>7, <1>8, <1>9 DEF DoorNext

-----------------------------------------------------------------------------
(* The theorems                                                            *)

\* In the beginning nobody has asked, failed or logged in.
LEMMA InitDInv == DoorInit => DInv
<1> SUFFICES ASSUME DoorInit PROVE DInv
  OBVIOUS
<1>1. DoorTypeOK
  BY InitTyped, TypedParts
<1>2. Entered
  BY FrontDoorAssumption DEF FrontDoorAssumption, DoorInit, Entered, Route
<1>3. Limited
  <2>1. \A c \in Client : accepted[c] = <<>> /\ hits[c] = <<>>
    BY DEF DoorInit
  <2>2. Embeds(<<>>, <<>>)
    BY EmbedsNone, EmptySeq
  <2> QED
    BY <2>1, <2>2 DEF Limited
<1>4. Throttled
  <2>1. \A c \in Client : fails[c] = <<>> /\ guesses[c] = <<>> /\ until[c] = 0
    BY DEF DoorInit
  <2>2. Embeds(<<>>, <<>>)
    BY EmbedsNone, EmptySeq
  <2> QED
    BY <2>1, <2>2 DEF Throttled
<1>5. Standing
  BY DEF DoorInit, Standing
<1> QED
  BY <1>1, <1>2, <1>3, <1>4, <1>5 DEF DInv

\* Every step preserves it.
LEMMA StepDInv == DInv /\ [DoorNext]_doorVars => DInv'
<1> SUFFICES ASSUME DInv, [DoorNext]_doorVars PROVE DInv'
  OBVIOUS
<1>1. /\ DoorTypeOK /\ Entered /\ Limited /\ Throttled /\ Standing
      /\ ThrottleTyped /\ LimiterTyped /\ TableTyped /\ RestTyped
  BY TypedParts DEF DInv
<1>2. ThrottleTyped' /\ LimiterTyped' /\ TableTyped' /\ RestTyped'
  BY <1>1, StepThrottleTyped, StepLimiterTyped, StepTableTyped, StepRestTyped
<1>3. DoorTypeOK'
  <2>1. (ThrottleTyped /\ LimiterTyped /\ TableTyped /\ RestTyped <=> DoorTypeOK)'
    BY TypedParts, PTL
  <2> QED
    BY <1>2, <2>1
<1>4. Entered' /\ Limited' /\ Throttled' /\ Standing'
  BY <1>1, StepEntered, StepLimited, StepThrottled, StepStanding
<1> QED
  BY <1>3, <1>4 DEF DInv

\* The inductive invariant holds in every reachable state.
THEOREM DoorInvariant == DoorSpec => []DInv
BY InitDInv, StepDInv, PTL DEF DoorSpec

\* Types: the throttle's and the limiter's lists and the table of access
\* tokens stay below their caps, and no token is in the table twice.
THEOREM DoorWellFormed == DoorSpec => []DoorTypeOK
<1>1. DInv => DoorTypeOK
  BY DEF DInv
<1> QED
  BY <1>1, DoorInvariant, PTL

\* No session is set up and no socket opened for a client that has not given
\* the password, whatever comes between the gates and the handlers.
THEOREM NobodyPassesWithoutPassword == DoorSpec => []BehindLogin
<1>1. DInv => BehindLogin
  BY DEF DInv, Entered, BehindLogin
<1> QED
  BY <1>1, DoorInvariant, PTL

\* The limiter bounds every sliding window.
THEOREM LimiterSpacesRequests == DoorSpec => []RequestsAreSpaced
<1>1. DInv => RequestsAreSpaced
  <2> SUFFICES ASSUME DInv, NEW c \in Client PROVE Len(accepted[c]) <= RateCap
    BY DEF RequestsAreSpaced
  <2>1. /\ accepted[c] \in Seq(0..RateWindow) /\ hits[c] \in Seq(0..RateWindow)
        /\ Len(hits[c]) <= RateCap
    BY DoorTyped DEF DInv
  <2>2. Embeds(accepted[c], hits[c])
    BY DEF DInv, Limited
  <2>3. Len(accepted[c]) <= Len(hits[c])
    BY <2>1, <2>2, EmbedsLen
  <2>4. Len(accepted[c]) \in Nat /\ Len(hits[c]) \in Nat
    BY <2>1, LenProperties
  <2> QED
    BY <2>1, <2>3, <2>4, Constants
<1> QED
  BY <1>1, DoorInvariant, PTL

\* Brute force is bounded, by the list of failures before a lockout and by
\* what the lockout replaces it with afterwards.
THEOREM ThrottleSpacesGuesses == DoorSpec => []GuessesAreSpaced
<1>1. DInv => GuessesAreSpaced
  <2> SUFFICES ASSUME DInv, NEW c \in Client PROVE Len(guesses[c]) <= FailureCap
    BY DEF GuessesAreSpaced
  <2> DEFINE T == 0..LoginWindow
  <2>1. /\ fails[c] \in Seq(T) /\ guesses[c] \in Seq(0..GuessSpan)
        /\ Len(fails[c]) < FailureCap /\ until[c] \in 0..LockoutSecs
    BY DoorTyped DEF DInv
  <2>2. guesses[c] \in Seq(T)
    <3>1. 0..GuessSpan \subseteq T
      BY Constants
    <3> QED
      BY <2>1, <3>1, SeqMonotonic
  <2> HIDE DEF T
  <2>3. CASE until[c] = 0
    <3>1. Embeds(guesses[c], fails[c])
      BY <2>3 DEF DInv, Throttled
    <3>2. Len(guesses[c]) <= Len(fails[c])
      BY <2>1, <2>2, <3>1, EmbedsLen
    <3>3. Len(guesses[c]) \in Nat /\ Len(fails[c]) \in Nat
      BY <2>1, <2>2, LenProperties
    <3> QED
      BY <2>1, <3>2, <3>3, Constants
  <2>4. CASE until[c] > 0
    BY <2>4 DEF DInv, Throttled
  <2> QED
    BY <2>1, <2>3, <2>4, Constants
<1> QED
  BY <1>1, DoorInvariant, PTL

\* A login is given up only for MaxTokens later ones.
THEOREM LoginsStand == DoorSpec => []EvictionIsEarned
<1>1. DInv => EvictionIsEarned
  <2> SUFFICES ASSUME DInv, NEW t \in Token, promised[t] # None, ~(promised[t].newer >= MaxTokens)
               PROVE  Verified(t)
    BY DEF EvictionIsEarned
  <2>1. PICK i \in 1..Len(tokens) : tokens[i].id = t /\ tokens[i].left = promised[t].left
    BY DEF DInv, Standing
  <2>2. promised[t].left \in 1..TokenTtl
    BY DEF DInv, DoorTypeOK
  <2>3. tokens[i].left > 0
    BY <2>1, <2>2, Constants
  <2>4. \E k \in 1..Len(Unexpired) : Unexpired[k] = tokens[i]
    BY <2>3, UnexpiredIs DEF DInv
  <2>5. DOMAIN Unexpired = 1..Len(Unexpired)
    BY UnexpiredIs, LenProperties DEF DInv
  <2> QED
    BY <2>1, <2>4, <2>5 DEF Verified
<1> QED
  BY <1>1, DoorInvariant, PTL


-----------------------------------------------------------------------------
(* The instance that runs the watchlist or the front door                  *)

\* A step of the instance is one of the watchlist, or one of the front door,
\* and leaves the other as it is.
LEMMA WebStep ==
    [WebNext]_webVars => [Next]_vars /\ [DoorNext]_doorVars
BY DEF WebNext, webVars

\* Every behaviour of the instance is one of the watchlist and one of the front
\* door, with the fairness that their liveness properties assume: what is proved
\* of either, and what a run of the instance refutes of it, concerns the model
\* itself.
THEOREM WebPartsBehave == WebSpec => FairSpec /\ DoorSpec
<1>1. WebInit => Init /\ DoorInit
  BY DEF WebInit
<1> QED
  BY <1>1, WebStep, PTL DEF WebSpec, FairSpec, Spec, DoorSpec

\* Every variable of the server's two models has its type in every behaviour of
\* the instance, whichever of them runs.
THEOREM WebServerIsTyped == WebSpec => []WebTypeOK
<1>1. TypeOK /\ DoorTypeOK => WebTypeOK
  BY DEF WebTypeOK
<1>2. FairSpec => []TypeOK
  BY LockIsKept, PTL DEF FairSpec
<1> QED
  BY WebPartsBehave, <1>1, <1>2, DoorWellFormed, PTL
=============================================================================

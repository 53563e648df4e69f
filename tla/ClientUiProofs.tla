---------------------------- MODULE ClientUiProofs ----------------------------
(***************************************************************************)
(* Proofs about the parts of the Qt client's user interface, for every     *)
(* bound and configuration: the player of an ffmpeg process is attended    *)
(* for as long as it is on; a camera that was moved is stopped; the window *)
(* believes the truth about the server; and the preview ends with the      *)
(* newest frame.  The parts share no variable, and each has a section.     *)
(***************************************************************************)
EXTENDS ServerStreamPlayer, FfmpegPlayer, PtzClient, MainWindow, Integers, SequenceTheorems,
        WellFoundedInduction, TLAPS

-------------------------------------------------------------------------------
(* RtspPlayer and FilePlaybackPlayer.  That a timer or the watchdog is      *)
(* active whenever the player is on has to be known together with what      *)
(* stop() finds: only a player of a file goes on behind it; the timer is    *)
(* never active beside a process that works, so that restartAfterBackoff    *)
(* starts one; and the watchdog watches a process.                          *)
FfmpegInv ==
  /\ StreamAttended
  /\ live \in BOOLEAN
  /\ thenPlay => ~live /\ source
  /\ stopping => manualStop /\ ~timer /\ process \in {"none", "dying"}
  /\ ~manualStop => source
  /\ timer => process \in {"none", "dying"} \/ readFailed
  /\ watchdog => process # "none"

LEMMA StartStreamKept ==
  ASSUME FfmpegInv, ~stopping, NEW active, active = timer \/ (~active /\ timer), StartStream(active)
  PROVE  FfmpegInv'
<1> USE DEF FfmpegInv, StreamAttended, StartStream
<1>1. CASE ~source
  BY <1>1
<1>2. CASE source /\ (process \in {"running", "dying"} \/ active)
  <2>1. timer' = active /\ UNCHANGED <<label, manualStop, process, watchdog, pipeVars>>
        /\ UNCHANGED <<live, source, stopping, thenPlay, readFailed>>
    BY <1>2
  <2> QED
    BY <1>2, <2>1
<1>3. CASE source /\ ~(process \in {"running", "dying"} \/ active)
  <2>1. timer' = active /\ Launch /\ label' = "connecting" /\ watchdog' = TRUE
        /\ UNCHANGED <<live, source, stopping, thenPlay, readFailed>>
    BY <1>3
  <2> QED
    BY <1>3, <2>1 DEF Launch
<1> QED
  BY <1>1, <1>2, <1>3

LEMMA FfmpegKept == ASSUME FfmpegInv, [FfmpegNext]_ffmpegVars PROVE FfmpegInv'
<1>1. CASE UNCHANGED ffmpegVars
  BY <1>1 DEF FfmpegInv, StreamAttended, ffmpegVars
<1>2. ASSUME BeginStop, thenPlay' => ~live /\ source' PROVE FfmpegInv'
  BY <1>2 DEF FfmpegInv, StreamAttended, BeginStop
<1>3. CASE StopPlayer
  BY <1>2, <1>3 DEF StopPlayer
<1>4. ASSUME NEW good \in BOOLEAN, SetSource(good) \/ Play(good) PROVE FfmpegInv'
  BY <1>2, <1>4 DEF SetSource, Play
<1>5. CASE StopEnds
  BY <1>5 DEF FfmpegInv, StreamAttended, StopEnds, Launch
<1>6. CASE StartPlayer
  BY <1>6, StartStreamKept DEF FfmpegInv, StartPlayer, StreamAttended
<1>7. CASE RestartAfterBackoff
  BY <1>7, StartStreamKept DEF FfmpegInv, RestartAfterBackoff, StreamAttended
<1>8. CASE FrameTimeout
  BY <1>8 DEF FfmpegInv, StreamAttended, FrameTimeout
<1>9. CASE Started
  BY <1>9 DEF FfmpegInv, StreamAttended, Started
<1>10. CASE FailedToStart
  BY <1>10 DEF FfmpegInv, StreamAttended, FailedToStart, Handled
<1>11. ASSUME NEW well \in BOOLEAN, Finished(well) PROVE FfmpegInv'
  BY <1>11 DEF FfmpegInv, StreamAttended, Finished, Handled
<1>12. CASE ReadError
  BY <1>12 DEF FfmpegInv, StreamAttended, ReadError, Handled
<1>13. ASSUME NEW bytes, NEW seen \in BOOLEAN, ReadStandardOutput(bytes, seen) PROVE FfmpegInv'
  BY <1>13 DEF FfmpegInv, StreamAttended, ReadStandardOutput
<1> QED
  BY <1>1, <1>3, <1>4, <1>5, <1>6, <1>7, <1>8, <1>9, <1>10, <1>11, <1>12, <1>13 DEF FfmpegNext

(* A camera's player that is on is attended by a timer, the watchdog or the *)
(* end of its process; one that was stopped is quiet; and "playing" is said *)
(* of a process that is there (RtspPlayer.cpp, FilePlaybackPlayer.cpp).     *)
THEOREM PlayerAttended == FfmpegSpec => []StreamAttended
<1>1. ASSUME FfmpegInit PROVE FfmpegInv
  <2>1. manualStop /\ ~stopping /\ ~thenPlay /\ ~watchdog /\ ~timer
    BY <1>1, Zenon DEF FfmpegInit
  <2>2. live \in BOOLEAN /\ process = "none" /\ label # "playing"
    BY <1>1, Zenon DEF FfmpegInit
  <2> QED
    BY <2>1, <2>2 DEF FfmpegInv, StreamAttended
<1>2. FfmpegInv => StreamAttended
  BY DEF FfmpegInv
<1> QED
  BY <1>1, <1>2, FfmpegKept, PTL DEF FfmpegSpec

-------------------------------------------------------------------------------
(* extractJpegFrames.  The model's loop is a recursive function, and what it *)
(* does with every sequence of bytes needs induction.  A set of naturals has *)
(* a least element; from that follow the two inductions used here, over the  *)
(* places of a sequence from its end and over the lengths of sequences.      *)

LEMMA Least ==
  ASSUME NEW T, T \subseteq Nat, T # {}
  PROVE  \E m \in T : \A k \in T : m <= k
<1> DEFINE R == {ss \in Nat \X Nat : ss[1] < ss[2]}
<1>1. IsWellFoundedOn(R, Nat)
  BY NatLessThanWellFounded DEF OpToRel
<1>2. PICK m \in T : \A y \in T : ~(<<y, m>> \in R)
  BY <1>1, WFMin
<1>3. \A k \in T : ~(k < m)
  BY <1>2
<1> QED
  BY <1>3

(* What holds at a place when it holds at every later one, holds everywhere. *)
LEMMA Downward ==
  ASSUME NEW m \in Nat, NEW T, \A i \in 1 .. m : (\A j \in i + 1 .. m : j \in T) => i \in T
  PROVE  1 .. m \subseteq T
<1> DEFINE Bad == {d \in Nat : d < m /\ m - d \notin T}
<1>1. SUFFICES ASSUME NEW i \in 1 .. m, i \notin T PROVE FALSE
  OBVIOUS
<1>2. m - i \in Bad
  BY <1>1
<1>3. PICK d \in Bad : \A k \in Bad : d <= k
  BY <1>2, Least
<1>4. m - d \in 1 .. m /\ m - d \notin T
  BY <1>3
<1>5. ASSUME NEW j \in m - d + 1 .. m PROVE j \in T
  <2>1. m - j \in Nat /\ m - j < d
    BY <1>3
  <2>2. m - j \notin Bad
    BY <1>3, <2>1
  <2> QED
    BY <2>1, <2>2, <1>3
<1> QED
  BY <1>4, <1>5

Pictures == [frames : Seq(Seq(Bytes)), rest : Seq(Bytes), overflow : BOOLEAN]

Result(f, r, o) == [frames |-> f, rest |-> r, overflow |-> o]

(* Where the next picture starts, and where the one being read ends. *)
Opens(b, i) == Find(b, <<"FF", "D8">>, i)
Closes(b, i) == Find(b, <<"FF", "D9">>, i)

(* The step of the loop that begins at the byte i. *)
Loop(bytes, limit, from, i) ==
  LET here == SubSeq(bytes, i, Len(bytes))
      start == Opens(bytes, i)
      end == Closes(bytes, start + 2)
      size == end + 2 - start
  IN IF start = 0 THEN
       IF Len(here) > limit THEN Result(<<>>, <<>>, TRUE) ELSE Result(<<>>, Kept(here), FALSE)
     ELSE IF end = 0 THEN
       IF Len(bytes) + 1 - start > limit THEN Result(<<>>, <<>>, TRUE)
       ELSE Result(<<>>, SubSeq(bytes, start, Len(bytes)), FALSE)
     ELSE LET later == from[end + 2] IN
       IF size > limit THEN [later EXCEPT !.overflow = TRUE]
       ELSE [later EXCEPT !.frames = <<SubSeq(bytes, start, end + 1)>> \o @]

Scan(bytes, limit) ==
  CHOOSE from : from = [i \in 1 .. Len(bytes) + 1 |-> Loop(bytes, limit, from, i)]

LEMMA ExtractIsScan ==
  ASSUME NEW bytes, NEW limit
  PROVE  Extract(bytes, limit) = Scan(bytes, limit)[1]
BY Zenon DEF Extract, Scan, Loop, Result, Opens, Closes

(* The place that Find returns. *)
FirstIs(b, x, y, k, p) ==
  /\ p = 0 => \A i \in k .. Len(b) - 1 : ~(b[i] = x /\ b[i + 1] = y)
  /\ p # 0 => /\ p \in k .. Len(b) - 1
              /\ b[p] = x /\ b[p + 1] = y
              /\ \A i \in k .. p - 1 : ~(b[i] = x /\ b[i + 1] = y)

LEMMA PairAt ==
  ASSUME NEW b \in Seq(Bytes), NEW i \in 1 .. Len(b) - 1, NEW x, NEW y
  PROVE  SubSeq(b, i, i + 1) = <<x, y>> <=> b[i] = x /\ b[i + 1] = y
<1>1. Len(SubSeq(b, i, i + 1)) = 2 /\ SubSeq(b, i, i + 1)[1] = b[i]
      /\ SubSeq(b, i, i + 1)[2] = b[i + 1] /\ SubSeq(b, i, i + 1) \in Seq(Bytes)
  <2>1. \A j \in i .. i + 1 : b[j] \in Bytes
    BY ElementOfSeq
  <2> QED
    BY <2>1, SubSeqProperties
<1>2. ASSUME b[i] = x, b[i + 1] = y PROVE SubSeq(b, i, i + 1) = <<x, y>>
  <2>1. x \in Bytes /\ y \in Bytes
    BY <1>2, ElementOfSeq
  <2>2. <<x, y>> \in Seq(Bytes) /\ Len(<<x, y>>) = 2 /\ <<x, y>>[1] = x /\ <<x, y>>[2] = y
    BY <2>1
  <2>3. \A j \in 1 .. 2 : SubSeq(b, i, i + 1)[j] = <<x, y>>[j]
    <3>1. \A j \in 1 .. 2 : j = 1 \/ j = 2
      OBVIOUS
    <3> QED
      BY <3>1, <1>1, <1>2, <2>2
  <2> QED
    BY <1>1, <2>2, <2>3, SeqEqual
<1>3. ASSUME SubSeq(b, i, i + 1) = <<x, y>> PROVE b[i] = x /\ b[i + 1] = y
  <2>1. <<x, y>>[1] = x /\ <<x, y>>[2] = y
    OBVIOUS
  <2> QED
    BY <1>1, <1>3, <2>1
<1> QED
  BY <1>2, <1>3

LEMMA FindIsFirst ==
  ASSUME NEW b \in Seq(Bytes), NEW x, NEW y, NEW k \in Nat \ {0}
  PROVE  FirstIs(b, x, y, k, Find(b, <<x, y>>, k))
<1> DEFINE places == {i \in k .. Len(b) - 1 : SubSeq(b, i, i + 1) = <<x, y>>}
           first == CHOOSE i \in places : \A j \in places : i <= j
<1>1. Find(b, <<x, y>>, k) = IF places = {} THEN 0 ELSE first
  BY DEF Find
<1>2. places = {i \in k .. Len(b) - 1 : b[i] = x /\ b[i + 1] = y}
  <2>1. \A i \in k .. Len(b) - 1 : i \in 1 .. Len(b) - 1
    OBVIOUS
  <2>2. \A i \in k .. Len(b) - 1 : SubSeq(b, i, i + 1) = <<x, y>> <=> b[i] = x /\ b[i + 1] = y
    <3>1. SUFFICES ASSUME NEW i \in k .. Len(b) - 1
          PROVE  SubSeq(b, i, i + 1) = <<x, y>> <=> b[i] = x /\ b[i + 1] = y
      OBVIOUS
    <3>2. i \in 1 .. Len(b) - 1
      BY <2>1
    <3>3. \A a \in Seq(Bytes) : \A j \in 1 .. Len(a) - 1 : \A u, v :
            SubSeq(a, j, j + 1) = <<u, v>> <=> a[j] = u /\ a[j + 1] = v
      BY PairAt
    <3>4. \A j \in 1 .. Len(b) - 1 : \A u, v :
            SubSeq(b, j, j + 1) = <<u, v>> <=> b[j] = u /\ b[j + 1] = v
      BY <3>3, Zenon
    <3>5. \A u, v : SubSeq(b, i, i + 1) = <<u, v>> <=> b[i] = u /\ b[i + 1] = v
      BY <3>2, <3>4, Zenon
    <3> QED
      BY <3>5, Zenon
  <2> QED
    BY <2>2
<1>3. CASE places = {}
  BY <1>1, <1>2, <1>3 DEF FirstIs
<1>4. CASE places # {}
  <2>1. \E i \in places : \A j \in places : i <= j
    <3>1. places \subseteq Nat
      OBVIOUS
    <3> HIDE DEF places
    <3> QED
      BY <1>4, <3>1, Least
  <2>2. first \in places /\ \A j \in places : first <= j
    BY <2>1
  <2>3. first \in k .. Len(b) - 1 /\ b[first] = x /\ b[first + 1] = y
    BY <1>2, <2>2
  <2>4. \A i \in k .. first - 1 : ~(b[i] = x /\ b[i + 1] = y)
    <3> HIDE DEF first
    <3>1. SUFFICES ASSUME NEW i \in k .. first - 1, b[i] = x /\ b[i + 1] = y PROVE FALSE
      OBVIOUS
    <3>2. i \in k .. Len(b) - 1 /\ ~(first <= i)
      BY <2>3
    <3>3. i \in places
      BY <3>1, <3>2, <1>2
    <3> QED
      BY <2>2, <3>2, <3>3
  <2>5. Find(b, <<x, y>>, k) = first
    BY <1>1, <1>4
  <2> HIDE DEF first, places
  <2> QED
    BY <2>3, <2>4, <2>5, SMTT(40) DEF FirstIs
<1> QED
  BY <1>3, <1>4

LEMMA FirstIsOne ==
  ASSUME NEW b \in Seq(Bytes), NEW x, NEW y, NEW k \in Nat \ {0}, NEW p,
         FirstIs(b, x, y, k, p)
  PROVE  Find(b, <<x, y>>, k) = p
<1> DEFINE q == Find(b, <<x, y>>, k)
<1>1. FirstIs(b, x, y, k, q)
  BY FindIsFirst
<1> HIDE DEF q
<1>2. p = 0 => q = 0
  BY <1>1 DEF FirstIs
<1>3. q = 0 => p = 0
  BY <1>1 DEF FirstIs
<1>4. p # 0 /\ q # 0 => p = q
  <2>1. SUFFICES ASSUME p # 0, q # 0, p # q PROVE FALSE
    OBVIOUS
  <2>2. /\ p \in k .. Len(b) - 1 /\ b[p] = x /\ b[p + 1] = y
        /\ \A i \in k .. p - 1 : ~(b[i] = x /\ b[i + 1] = y)
    BY <2>1 DEF FirstIs
  <2>3. /\ q \in k .. Len(b) - 1 /\ b[q] = x /\ b[q + 1] = y
        /\ \A i \in k .. q - 1 : ~(b[i] = x /\ b[i + 1] = y)
    BY <1>1, <2>1 DEF FirstIs
  <2>4. p < q \/ q < p
    BY <2>1, <2>2, <2>3
  <2>5. p \notin k .. q - 1 /\ q \notin k .. p - 1
    BY <2>2, <2>3
  <2> QED
    BY <2>2, <2>3, <2>4, <2>5
<1> QED
  BY <1>2, <1>3, <1>4 DEF q

LEMMA MarkersAre ==
  ASSUME NEW b \in Seq(Bytes), NEW k \in Nat \ {0}
  PROVE  /\ FirstIs(b, "FF", "D8", k, Opens(b, k))
         /\ FirstIs(b, "FF", "D9", k, Closes(b, k))
BY FindIsFirst DEF Opens, Closes

LEMMA ScanUnfolds ==
  ASSUME NEW b \in Seq(Bytes), NEW limit
  PROVE  \A i \in 1 .. Len(b) + 1 : Scan(b, limit)[i] = Loop(b, limit, Scan(b, limit), i)
<1> DEFINE m == Len(b) + 1
           L(g, i) == Loop(b, limit, g, i)
           T == {i \in 1 .. m : \E g : g = [j \in i .. m |-> L(g, j)]}
<1>1. ASSUME NEW i \in 1 .. m, NEW g, NEW h, \A j \in i + 1 .. m : g[j] = h[j]
      PROVE  L(g, i) = L(h, i)
  <2> DEFINE start == Opens(b, i)
             end == Closes(b, start + 2)
  <2>1. start = 0 \/ start \in i .. Len(b) - 1
    BY MarkersAre DEF FirstIs
  <2>2. end = 0 \/ end \in start + 2 .. Len(b) - 1
    BY MarkersAre, <2>1 DEF FirstIs
  <2>3. start # 0 /\ end # 0 => g[end + 2] = h[end + 2]
    <3> HIDE DEF start, end
    <3> QED
      BY <1>1, <2>1, <2>2
  <2> QED
    BY <2>3 DEF Loop
<1>2. ASSUME NEW i \in 1 .. m, \A j \in i + 1 .. m : j \in T
      PROVE  i \in T
  <2>1. PICK g : \A j \in i + 1 .. m : g[j] = L(g, j)
    <3>1. CASE i = m
      BY <3>1
    <3>2. CASE i # m
      <4>1. i + 1 \in T
        BY <1>2, <3>2
      <4>2. PICK g : g = [j \in i + 1 .. m |-> L(g, j)]
        BY <4>1
      <4> HIDE DEF L
      <4> QED
        BY <4>2
    <3> QED
      BY <3>1, <3>2
  <2> DEFINE h == [j \in i .. m |-> IF j = i THEN L(g, i) ELSE g[j]]
  <2>2. \A j \in i + 1 .. m : h[j] = g[j]
    OBVIOUS
  <2>3. \A j \in i .. m : L(g, j) = L(h, j)
    <3>1. SUFFICES ASSUME NEW j \in i .. m PROVE L(g, j) = L(h, j)
      OBVIOUS
    <3>2. j \in 1 .. m /\ \A o \in j + 1 .. m : g[o] = h[o]
      BY <2>2
    <3> HIDE DEF L, h
    <3> QED
      BY <1>1, <3>2
  <2>4. \A j \in i .. m : h[j] = L(h, j)
    <3> HIDE DEF L
    <3> QED
      BY <2>1, <2>3
  <2>5. h = [j \in i .. m |-> L(h, j)]
    <3> HIDE DEF L
    <3> QED
      BY <2>4
  <2> QED
    BY <2>5
<1>3. 1 \in T
  <2>1. m \in Nat /\ 1 \in 1 .. m
    OBVIOUS
  <2>2. \A i \in 1 .. m : (\A j \in i + 1 .. m : j \in T) => i \in T
    BY <1>2
  <2> HIDE DEF T, m
  <2>3. 1 .. m \subseteq T
    BY <2>1, <2>2, Downward
  <2> QED
    BY <2>1, <2>3
<1>4. \E g : g = [j \in 1 .. m |-> L(g, j)]
  BY <1>3
<1>5. Scan(b, limit) = [i \in 1 .. m |-> L(Scan(b, limit), i)]
  BY <1>4 DEF Scan
<1>6. \A i \in 1 .. m : Scan(b, limit)[i] = L(Scan(b, limit), i)
  <2> HIDE DEF L
  <2> QED
    BY <1>5
<1> QED
  BY <1>6, Zenon

From(b, k) == SubSeq(b, k, Len(b))

LEMMA FromIs ==
  ASSUME NEW S, NEW b \in Seq(S), NEW k \in 1 .. Len(b) + 1
  PROVE  /\ From(b, k) \in Seq(S)
         /\ Len(From(b, k)) = Len(b) - k + 1
         /\ \A i \in 1 .. Len(b) - k + 1 : From(b, k)[i] = b[k - 1 + i]
         /\ \A i \in k .. Len(b) : From(b, k)[i - k + 1] = b[i]
<1>1. \A i \in k .. Len(b) : b[i] \in S
  BY ElementOfSeq
<1>2. /\ From(b, k) \in Seq(S)
      /\ Len(From(b, k)) = IF k <= Len(b) THEN Len(b) - k + 1 ELSE 0
      /\ \A i \in 1 .. Len(b) - k + 1 : From(b, k)[i] = b[k + i - 1]
  BY <1>1, SubSeqProperties DEF From
<1>3. ASSUME NEW i \in 1 .. Len(b) - k + 1 PROVE From(b, k)[i] = b[k - 1 + i]
  <2>1. k + i - 1 = k - 1 + i
    OBVIOUS
  <2> QED
    BY <1>2, <2>1
<1>4. ASSUME NEW i \in k .. Len(b) PROVE From(b, k)[i - k + 1] = b[i]
  <2>1. i - k + 1 \in 1 .. Len(b) - k + 1 /\ k + (i - k + 1) - 1 = i
    OBVIOUS
  <2> QED
    BY <1>2, <2>1
<1> QED
  BY <1>2, <1>3, <1>4

LEMMA FromFrom ==
  ASSUME NEW S, NEW b \in Seq(S), NEW k \in 1 .. Len(b) + 1, NEW j \in 1 .. Len(b) - k + 2
  PROVE  From(From(b, k), j) = From(b, k + j - 1)
<1> DEFINE c == From(b, k)  l == From(c, j)  r == From(b, k + j - 1)
<1>1. /\ c \in Seq(S) /\ Len(c) = Len(b) - k + 1
      /\ \A i \in 1 .. Len(b) - k + 1 : c[i] = b[k - 1 + i]
  BY FromIs
<1>2. j \in 1 .. Len(c) + 1 /\ k + j - 1 \in 1 .. Len(b) + 1
  BY <1>1
<1> HIDE DEF c
<1>3. /\ l \in Seq(S) /\ Len(l) = Len(c) - j + 1
      /\ \A i \in 1 .. Len(c) - j + 1 : l[i] = c[j - 1 + i]
  BY <1>1, <1>2, FromIs
<1>4. /\ r \in Seq(S) /\ Len(r) = Len(b) - (k + j - 1) + 1
      /\ \A i \in 1 .. Len(b) - (k + j - 1) + 1 : r[i] = b[(k + j - 1) - 1 + i]
  BY <1>2, FromIs
<1> HIDE DEF l, r
<1>5. Len(l) = Len(r)
  BY <1>1, <1>3, <1>4
<1>6. ASSUME NEW i \in 1 .. Len(l) PROVE l[i] = r[i]
  <2>0. i \in 1 .. Len(c) - j + 1
    BY <1>1, <1>3
  <2>1. l[i] = c[j - 1 + i] /\ j - 1 + i \in 1 .. Len(b) - k + 1
    <3>1. l[i] = c[j - 1 + i]
      BY <1>3, <2>0
    <3>2. j - 1 + i \in 1 .. Len(b) - k + 1
      BY <1>1, <2>0
    <3> QED
      BY <3>1, <3>2
  <2>2. c[j - 1 + i] = b[k - 1 + (j - 1 + i)]
    BY <1>1, <2>1
  <2>3. i \in 1 .. Len(b) - (k + j - 1) + 1 /\ k - 1 + (j - 1 + i) = (k + j - 1) - 1 + i
    BY <1>1, <1>3
  <2> QED
    BY <1>4, <2>1, <2>2, <2>3
<1>7. l = r
  BY <1>3, <1>4, <1>5, <1>6, SeqEqual
<1> QED
  BY <1>7 DEF l, r, c

(* Where the first pair is, seen from a later beginning. *)
LEMMA FindFrom ==
  ASSUME NEW b \in Seq(Bytes), NEW x, NEW y, NEW k \in 1 .. Len(b) + 1,
         NEW i \in Nat \ {0}
  PROVE  Find(From(b, k), <<x, y>>, i)
           = IF Find(b, <<x, y>>, k - 1 + i) = 0 THEN 0
             ELSE Find(b, <<x, y>>, k - 1 + i) - (k - 1)
<1> DEFINE c == From(b, k)  p == Find(b, <<x, y>>, k - 1 + i)
           q == IF p = 0 THEN 0 ELSE p - (k - 1)
<1>1. /\ c \in Seq(Bytes) /\ Len(c) = Len(b) - k + 1
      /\ \A j \in 1 .. Len(b) - k + 1 : c[j] = b[k - 1 + j]
  BY FromIs
<1>2. FirstIs(b, x, y, k - 1 + i, p)
  <2>1. k - 1 + i \in Nat \ {0}
    OBVIOUS
  <2> QED
    BY <2>1, FindIsFirst
<1> HIDE DEF c, p
<1>3. ASSUME NEW j \in i .. Len(c) - 1
      PROVE  /\ k - 1 + j \in k - 1 + i .. Len(b) - 1
             /\ c[j] = b[k - 1 + j] /\ c[j + 1] = b[k - 1 + j + 1]
  <2>1. j \in 1 .. Len(b) - k + 1 /\ j + 1 \in 1 .. Len(b) - k + 1
    BY <1>1
  <2>2. k - 1 + (j + 1) = k - 1 + j + 1 /\ k - 1 + j \in k - 1 + i .. Len(b) - 1
    BY <2>1
  <2>3. c[j + 1] = b[k - 1 + (j + 1)] /\ c[j] = b[k - 1 + j]
    BY <1>1, <2>1
  <2> QED
    BY <2>2, <2>3
<1>4. FirstIs(c, x, y, i, q)
  <2>1. CASE p = 0
    <3>1. \A j \in k - 1 + i .. Len(b) - 1 : ~(b[j] = x /\ b[j + 1] = y)
      BY <1>2, <2>1 DEF FirstIs
    <3>2. \A j \in i .. Len(c) - 1 : ~(c[j] = x /\ c[j + 1] = y)
      <4>1. SUFFICES ASSUME NEW j \in i .. Len(c) - 1 PROVE ~(c[j] = x /\ c[j + 1] = y)
        OBVIOUS
      <4>2. /\ k - 1 + j \in k - 1 + i .. Len(b) - 1
            /\ c[j] = b[k - 1 + j] /\ c[j + 1] = b[k - 1 + j + 1]
        BY <1>3
      <4> QED
        BY <3>1, <4>2
    <3> QED
      BY <2>1, <3>2 DEF FirstIs
  <2>2. CASE p # 0
    <3>1. /\ p \in k - 1 + i .. Len(b) - 1 /\ b[p] = x /\ b[p + 1] = y
          /\ \A o \in k - 1 + i .. p - 1 : ~(b[o] = x /\ b[o + 1] = y)
      BY <1>2, <2>2 DEF FirstIs
    <3>2. q = p - (k - 1) /\ q \in i .. Len(c) - 1 /\ k - 1 + q = p /\ q # 0
      BY <1>1, <2>2, <3>1
    <3> HIDE DEF q
    <3>3. c[q] = x /\ c[q + 1] = y
      BY <1>3, <3>1, <3>2
    <3>4. ASSUME NEW j \in i .. q - 1 PROVE ~(c[j] = x /\ c[j + 1] = y)
      <4>1. j \in i .. Len(c) - 1 /\ k - 1 + j \in k - 1 + i .. p - 1
        BY <3>1, <3>2
      <4> QED
        BY <1>3, <3>1, <4>1
    <3> QED
      BY <3>2, <3>3, <3>4 DEF FirstIs
  <2> QED
    BY <2>1, <2>2
<1>5. Find(c, <<x, y>>, i) = q
  <2> HIDE DEF q
  <2> QED
    BY <1>1, <1>4, FirstIsOne
<1> QED
  BY <1>5 DEF c, p

LEMMA OpensFrom ==
  ASSUME NEW b \in Seq(Bytes), NEW k \in 1 .. Len(b) + 1, NEW i \in Nat \ {0}
  PROVE  Opens(From(b, k), i) = IF Opens(b, k - 1 + i) = 0 THEN 0 ELSE Opens(b, k - 1 + i) - (k - 1)
BY FindFrom DEF Opens
LEMMA ClosesFrom ==
  ASSUME NEW b \in Seq(Bytes), NEW k \in 1 .. Len(b) + 1, NEW i \in Nat \ {0}
  PROVE  Closes(From(b, k), i) = IF Closes(b, k - 1 + i) = 0 THEN 0 ELSE Closes(b, k - 1 + i) - (k - 1)
BY FindFrom DEF Closes
(* The step that begins at a byte is the first step on the rest. *)
LEMMA ScanFrom ==
  ASSUME NEW b \in Seq(Bytes), NEW limit, NEW k \in 1 .. Len(b) + 1
  PROVE  \A i \in k .. Len(b) + 1 : Scan(From(b, k), limit)[i - k + 1] = Scan(b, limit)[i]
<1> DEFINE c == From(b, k)  m == Len(b) + 1  f == Scan(b, limit)  g == Scan(c, limit)
           T == {i \in 1 .. m : i >= k => g[i - k + 1] = f[i]}
<1>1. c \in Seq(Bytes) /\ Len(c) = Len(b) - k + 1
  BY FromIs
<1>2. \A i \in 1 .. m : f[i] = Loop(b, limit, f, i)
  BY ScanUnfolds
<1>3. \A i \in 1 .. Len(c) + 1 : g[i] = Loop(c, limit, g, i)
  <2> HIDE DEF c
  <2> QED
    BY <1>1, ScanUnfolds
<1>4. ASSUME NEW i \in 1 .. m, \A j \in i + 1 .. m : j \in T PROVE i \in T
  <2>1. SUFFICES ASSUME i >= k PROVE g[i - k + 1] = f[i]
    OBVIOUS
  <2> DEFINE o == i - k + 1
             start == Opens(b, i)
             end == Closes(b, start + 2)
             cstart == Opens(c, o)
             cend == Closes(c, cstart + 2)
  <2>2. o \in 1 .. Len(c) + 1 /\ k - 1 + o = i /\ o \in Nat \ {0} /\ k + o - 1 = i
        /\ o \in 1 .. Len(b) - k + 2
    BY <1>1, <2>1
  <2>3. cstart = IF start = 0 THEN 0 ELSE start - (k - 1)
    <3> HIDE DEF o, cstart, start
    <3>1. Opens(From(b, k), o)
            = IF Opens(b, k - 1 + o) = 0 THEN 0 ELSE Opens(b, k - 1 + o) - (k - 1)
      BY <2>2, OpensFrom
    <3>2. Opens(b, k - 1 + o) = start
      BY <2>2 DEF start
    <3> QED
      BY <3>1, <3>2 DEF cstart
  <2>4. start = 0 \/ start \in i .. Len(b) - 1
    BY MarkersAre DEF FirstIs
  <2>5. start # 0 => cend = IF end = 0 THEN 0 ELSE end - (k - 1)
    <3>1. SUFFICES ASSUME start # 0 PROVE cend = IF end = 0 THEN 0 ELSE end - (k - 1)
      OBVIOUS
    <3>2. cstart + 2 \in Nat \ {0} /\ k - 1 + (cstart + 2) = start + 2
      <4> HIDE DEF start, cstart
      <4> QED
        BY <2>1, <2>3, <2>4, <3>1
    <3> HIDE DEF start, cstart, cend, end
    <3> DEFINE then == cstart + 2
    <3> HIDE DEF then
    <3>3. then \in Nat \ {0}
      BY <3>2 DEF then
    <3>4. Closes(From(b, k), then)
            = IF Closes(b, k - 1 + then) = 0 THEN 0 ELSE Closes(b, k - 1 + then) - (k - 1)
      BY <3>3, ClosesFrom
    <3>5. Closes(b, k - 1 + then) = end
      BY <3>2 DEF end, then
    <3> QED
      BY <3>4, <3>5 DEF cend, then
  <2>6. start # 0 => end = 0 \/ end \in start + 2 .. Len(b) - 1
    BY MarkersAre, <2>4 DEF FirstIs
  <2>7. From(c, o) = From(b, i)
    <3> HIDE DEF o, c
    <3>1. From(From(b, k), o) = From(b, k + o - 1)
      BY <2>2, FromFrom
    <3> QED
      BY <3>1, <2>2 DEF c
  <2>8. start # 0 => From(c, cstart) = From(b, start)
    <3> HIDE DEF start, cstart
    <3>1. start # 0 => cstart \in 1 .. Len(b) - k + 2 /\ k + cstart - 1 = start
      BY <2>1, <2>3, <2>4
    <3> QED
      BY <3>1, FromFrom
  <2>9. start # 0 /\ end # 0 => /\ SubSeq(c, cstart, cend + 1) = SubSeq(b, start, end + 1)
                                /\ g[cend + 2] = f[end + 2]
                                /\ cend + 2 - cstart = end + 2 - start
    <3> HIDE DEF start, cstart, end, cend
    <3>1. SUFFICES ASSUME start # 0, end # 0
          PROVE  /\ SubSeq(c, cstart, cend + 1) = SubSeq(b, start, end + 1)
                 /\ g[cend + 2] = f[end + 2]
                 /\ cend + 2 - cstart = end + 2 - start
      OBVIOUS
    <3>2. /\ cstart = start - (k - 1) /\ cend = end - (k - 1)
          /\ cstart \in 1 .. Len(c) /\ cend + 1 \in cstart .. Len(c)
          /\ end + 2 \in i + 1 .. m /\ end + 2 >= k /\ (end + 2) - k + 1 = cend + 2
          /\ start \in 1 .. Len(b) /\ end + 1 \in start .. Len(b)
          /\ end \in 1 .. Len(b) /\ cend \in 1 .. Len(c)
      <4> HIDE DEF c
      <4>1. start \in i .. Len(b) - 1 /\ end \in start + 2 .. Len(b) - 1
        BY <2>4, <2>6, <3>1
      <4>2. cstart = start - (k - 1) /\ cend = end - (k - 1)
        BY <2>3, <2>5, <3>1
      <4> QED
        BY <1>1, <2>1, <4>1, <4>2
    <3>3. g[cend + 2] = f[end + 2]
      <4> HIDE DEF f, g, m
      <4>1. end + 2 \in T
        BY <1>4, <3>2
      <4> QED
        BY <3>2, <4>1
    <3>4. SubSeq(c, cstart, cend + 1) = SubSeq(b, start, end + 1)
      <4> DEFINE l == SubSeq(c, cstart, cend + 1)  r == SubSeq(b, start, end + 1)
      <4>1. \A j \in cstart .. cend + 1 : c[j] \in Bytes
        <5> HIDE DEF c
        <5> QED
          BY <1>1, <3>2, ElementOfSeq
      <4>2. \A j \in start .. end + 1 : b[j] \in Bytes
        BY <2>4, <2>6, <3>1, ElementOfSeq
      <4>3. /\ l \in Seq(Bytes)
            /\ Len(l) = IF cstart <= cend + 1 THEN (cend + 1) - cstart + 1 ELSE 0
            /\ \A j \in 1 .. (cend + 1) - cstart + 1 : l[j] = c[cstart + j - 1]
        <5> HIDE DEF c
        <5> QED
          BY <1>1, <3>2, <4>1, SubSeqProperties
      <4>4. /\ r \in Seq(Bytes)
            /\ Len(r) = IF start <= end + 1 THEN (end + 1) - start + 1 ELSE 0
            /\ \A j \in 1 .. (end + 1) - start + 1 : r[j] = b[start + j - 1]
        BY <2>4, <2>6, <3>1, <4>2, SubSeqProperties, SMTT(40)
      <4>5. \A j \in 1 .. Len(b) - k + 1 : c[j] = b[k - 1 + j]
        BY FromIs
      <4>6. Len(l) = Len(r)
        <5> HIDE DEF l, r, c
        <5> QED
          BY <3>2, <4>3, <4>4
      <4>7. ASSUME NEW j \in 1 .. Len(l) PROVE l[j] = r[j]
        <5> HIDE DEF l, r, c
        <5>1. l[j] = c[cstart + j - 1] /\ r[j] = b[start + j - 1]
          BY <1>1, <3>2, <4>3, <4>4
        <5>2. cstart + j - 1 \in 1 .. Len(b) - k + 1 /\ k - 1 + (cstart + j - 1) = start + j - 1
          <6>1. Len(l) = cend + 1 - cstart + 1
            BY <1>1, <3>2, <4>3
          <6>2. cstart + j - 1 \in cstart .. cend + 1
            BY <1>1, <3>2, <6>1
          <6> QED
            BY <1>1, <3>2, <6>2
        <5> QED
          BY <4>5, <5>1, <5>2
      <4> QED
        BY <4>3, <4>4, <4>6, <4>7, SeqEqual
    <3>5. cend + 2 - cstart = end + 2 - start
      <4> HIDE DEF c
      <4> QED
        BY <3>2, <1>1
    <3> QED
      BY <3>3, <3>4, <3>5
  <2>10. Len(From(c, o)) = Len(From(b, i))
    BY <2>7
  <2>11. start # 0 => Len(c) + 1 - cstart = Len(b) + 1 - start
    <3> HIDE DEF start, cstart, c
    <3> QED
      BY <1>1, <2>3, <2>4, SMTT(40)
  <2>12. Loop(c, limit, g, o) = Loop(b, limit, f, i)
    <3> HIDE DEF start, cstart, c, f, g, o, m, T
    <3>1. (start = 0) = (cstart = 0)
      BY <2>3, <2>4, <2>1
    <3>2. start # 0 => ((end = 0) = (cend = 0))
      <4> HIDE DEF end, cend
      <4> QED
        BY <2>3, <2>4, <2>5, <2>6, <2>1
    <3> HIDE DEF end, cend
    <3>3. CASE start = 0
      BY <2>7, <3>1, <3>3 DEF Loop, start, end, cstart, cend, From
    <3>4. CASE start # 0 /\ end = 0
      BY <2>8, <2>11, <3>1, <3>2, <3>4 DEF Loop, start, end, cstart, cend, From
    <3>5. CASE start # 0 /\ end # 0
      BY <2>9, <3>1, <3>2, <3>5 DEF Loop, start, end, cstart, cend
    <3> QED
      BY <3>3, <3>4, <3>5
  <2> QED
    <3> HIDE DEF c, f, g, o, m
    <3> QED
      BY <1>2, <1>3, <2>2, <2>12 DEF o
<1>5. 1 .. m \subseteq T
  <2> HIDE DEF c, f, g, T
  <2>1. m \in Nat
    OBVIOUS
  <2> QED
    BY <2>1, <1>4, Downward
<1> QED
  BY <1>5

LEMMA ByLength ==
  ASSUME NEW S, NEW T,
         \A b \in Seq(S) : (\A c \in Seq(S) : Len(c) < Len(b) => c \in T) => b \in T
  PROVE  Seq(S) \subseteq T
<1> DEFINE Bad == {n \in Nat : \E b \in Seq(S) : Len(b) = n /\ b \notin T}
<1>1. SUFFICES ASSUME NEW b \in Seq(S), b \notin T PROVE FALSE
  OBVIOUS
<1>2. Len(b) \in Bad
  BY <1>1
<1>3. PICK n \in Bad : \A o \in Bad : n <= o
  <2>1. Bad \subseteq Nat
    OBVIOUS
  <2> HIDE DEF Bad
  <2> QED
    BY <1>2, <2>1, Least
<1>4. PICK a \in Seq(S) : Len(a) = n /\ a \notin T
  BY <1>3
<1>5. ASSUME NEW c \in Seq(S), Len(c) < Len(a) PROVE c \in T
  <2>1. SUFFICES ASSUME c \notin T PROVE FALSE
    OBVIOUS
  <2>2. Len(c) \in Bad
    BY <2>1, SMTT(40)
  <2> HIDE DEF Bad
  <2>3. n <= Len(c)
    BY <1>3, <2>2
  <2> QED
    BY <1>4, <1>5, <2>3
<1> QED
  BY <1>4, <1>5

(* One turn of the loop on the bytes b, with the markers that it finds. *)
Turn(b, limit, s, e) ==
  /\ s = 0 \/ s \in 1 .. Len(b) - 1
  /\ s # 0 => e = 0 \/ e \in s + 2 .. Len(b) - 1
  /\ s = 0 => Extract(b, limit) = IF Len(b) > limit THEN Result(<<>>, <<>>, TRUE)
                                  ELSE Result(<<>>, Kept(b), FALSE)
  /\ s # 0 /\ e = 0 => Extract(b, limit) = IF Len(b) + 1 - s > limit THEN Result(<<>>, <<>>, TRUE)
                                           ELSE Result(<<>>, From(b, s), FALSE)
  /\ s # 0 /\ e # 0 =>
       Extract(b, limit) =
         IF e + 2 - s > limit THEN [Extract(From(b, e + 2), limit) EXCEPT !.overflow = TRUE]
         ELSE [Extract(From(b, e + 2), limit) EXCEPT !.frames = <<SubSeq(b, s, e + 1)>> \o @]

LEMMA ExtractIs ==
  ASSUME NEW b \in Seq(Bytes), NEW limit
  PROVE  Turn(b, limit, Opens(b, 1), Closes(b, Opens(b, 1) + 2))
<1> DEFINE s == Opens(b, 1)  e == Closes(b, s + 2)
<1> DEFINE f == Scan(b, limit)
<1>1. s = 0 \/ s \in 1 .. Len(b) - 1
  BY MarkersAre DEF FirstIs
<1> HIDE DEF s
<1>2. s # 0 => e = 0 \/ e \in s + 2 .. Len(b) - 1
  <2>1. SUFFICES ASSUME s # 0 PROVE e = 0 \/ e \in s + 2 .. Len(b) - 1
    OBVIOUS
  <2>2. s + 2 \in Nat \ {0}
    BY <1>1, <2>1
  <2>3. FirstIs(b, "FF", "D9", s + 2, Closes(b, s + 2))
    BY <2>2, MarkersAre
  <2> QED
    BY <2>3 DEF FirstIs
<1> HIDE DEF e
<1>3. Extract(b, limit) = f[1] /\ f[1] = Loop(b, limit, f, 1)
  <2>1. 1 \in 1 .. Len(b) + 1
    OBVIOUS
  <2> QED
    BY <2>1, ExtractIsScan, ScanUnfolds
<1>4. From(b, 1) = b
  BY SubSeqFull DEF From
<1>5. s # 0 /\ e # 0 => f[e + 2] = Extract(From(b, e + 2), limit)
  <2>1. SUFFICES ASSUME s # 0, e # 0 PROVE f[e + 2] = Extract(From(b, e + 2), limit)
    OBVIOUS
  <2> DEFINE k == e + 2
  <2>2. k \in 1 .. Len(b) + 1 /\ k \in k .. Len(b) + 1 /\ k - k + 1 = 1
    BY <1>1, <1>2, <2>1
  <2> HIDE DEF k
  <2>3. Scan(From(b, k), limit)[k - k + 1] = Scan(b, limit)[k]
    BY <2>2, ScanFrom
  <2>4. Scan(From(b, k), limit)[1] = Scan(b, limit)[k]
    BY <2>2, <2>3
  <2>5. Extract(From(b, k), limit) = Scan(From(b, k), limit)[1]
    BY ExtractIsScan
  <2> QED
    BY <2>4, <2>5 DEF k
<1> HIDE DEF f
<1>6. Loop(b, limit, f, 1) =
        IF s = 0 THEN
          IF Len(b) > limit THEN Result(<<>>, <<>>, TRUE) ELSE Result(<<>>, Kept(b), FALSE)
        ELSE IF e = 0 THEN
          IF Len(b) + 1 - s > limit THEN Result(<<>>, <<>>, TRUE)
          ELSE Result(<<>>, From(b, s), FALSE)
        ELSE IF e + 2 - s > limit THEN [f[e + 2] EXCEPT !.overflow = TRUE]
        ELSE [f[e + 2] EXCEPT !.frames = <<SubSeq(b, s, e + 1)>> \o @]
  BY <1>4, Zenon DEF Loop, From, s, e
<1>7. s = 0 => Extract(b, limit) = IF Len(b) > limit THEN Result(<<>>, <<>>, TRUE)
                                   ELSE Result(<<>>, Kept(b), FALSE)
  BY <1>3, <1>6, Zenon
<1>8. s # 0 /\ e = 0 => Extract(b, limit) = IF Len(b) + 1 - s > limit THEN Result(<<>>, <<>>, TRUE)
                                            ELSE Result(<<>>, From(b, s), FALSE)
  BY <1>3, <1>6, Zenon
<1>9. s # 0 /\ e # 0 =>
        Extract(b, limit) =
          IF e + 2 - s > limit THEN [Extract(From(b, e + 2), limit) EXCEPT !.overflow = TRUE]
          ELSE [Extract(From(b, e + 2), limit) EXCEPT !.frames = <<SubSeq(b, s, e + 1)>> \o @]
  BY <1>3, <1>5, <1>6, Zenon
<1> QED
  BY <1>1, <1>2, <1>7, <1>8, <1>9, Zenon DEF Turn, e, s

LEMMA KeptIs ==
  ASSUME NEW b \in Seq(Bytes)
  PROVE  Kept(b) \in Seq(Bytes)
<1>1. b # <<>> => b[Len(b)] \in Bytes
  <2>1. b # <<>> => Len(b) \in 1 .. Len(b)
    BY EmptySeq
  <2> QED
    BY <2>1, ElementOfSeq
<1> QED
  BY <1>1 DEF Kept

LEMMA OverflowNoted ==
  ASSUME NEW x \in Pictures
  PROVE  /\ [x EXCEPT !.overflow = TRUE] \in Pictures
         /\ [x EXCEPT !.overflow = TRUE].overflow
BY DEF Pictures

LEMMA PictureAdded ==
  ASSUME NEW x \in Pictures, NEW p \in Seq(Bytes)
  PROVE  /\ [x EXCEPT !.frames = <<p>> \o @] \in Pictures
         /\ [x EXCEPT !.frames = <<p>> \o @].frames = <<p>> \o x.frames
         /\ [x EXCEPT !.frames = <<p>> \o @].rest = x.rest
         /\ [x EXCEPT !.frames = <<p>> \o @].overflow = x.overflow
<1> DEFINE q == <<p>> \o x.frames
<1>1. q \in Seq(Seq(Bytes))
  <2>1. x.frames \in Seq(Seq(Bytes)) /\ <<p>> \in Seq(Seq(Bytes))
    BY DEF Pictures
  <2> QED
    BY <2>1, ConcatProperties
<1>2. [x EXCEPT !.frames = <<p>> \o @] = [x EXCEPT !.frames = q]
  OBVIOUS
<1> HIDE DEF q
<1>3. /\ [x EXCEPT !.frames = q] \in Pictures
      /\ [x EXCEPT !.frames = q].frames = q
      /\ [x EXCEPT !.frames = q].rest = x.rest
      /\ [x EXCEPT !.frames = q].overflow = x.overflow
  BY <1>1 DEF Pictures
<1> QED
  BY <1>2, <1>3, Zenon DEF q

LEMMA ExtractTyped ==
  ASSUME NEW limit
  PROVE  \A b \in Seq(Bytes) : Extract(b, limit) \in Pictures
<1> DEFINE T == {b \in Seq(Bytes) : Extract(b, limit) \in Pictures}
<1>1. ASSUME NEW b \in Seq(Bytes), \A c \in Seq(Bytes) : Len(c) < Len(b) => c \in T
      PROVE  b \in T
  <2>1. PICK s, e : Turn(b, limit, s, e)
    BY ExtractIs
  <2>2. CASE s = 0
    <3>1. \A k \in Seq(Bytes) : Result(<<>>, k, FALSE) \in Pictures
      BY DEF Result, Pictures
    <3>2. Result(<<>>, <<>>, TRUE) \in Pictures /\ Result(<<>>, Kept(b), FALSE) \in Pictures
      BY <3>1, KeptIs DEF Result, Pictures
    <3> QED
      BY <2>1, <2>2, <3>2 DEF Turn
  <2>3. CASE s # 0 /\ e = 0
    <3>1. From(b, s) \in Seq(Bytes)
      <4>1. s \in 1 .. Len(b) + 1
        BY <2>1, <2>3 DEF Turn
      <4> QED
        BY <4>1, FromIs
    <3>2. Result(<<>>, <<>>, TRUE) \in Pictures /\ Result(<<>>, From(b, s), FALSE) \in Pictures
      BY <3>1 DEF Result, Pictures
    <3> QED
      BY <2>1, <2>3, <3>2 DEF Turn
  <2>4. CASE s # 0 /\ e # 0
    <3> DEFINE t == From(b, e + 2)
    <3>1. /\ e + 2 \in 1 .. Len(b) + 1 /\ e + 2 > 1
          /\ s \in 1 .. Len(b) - 1 /\ e \in s + 2 .. Len(b) - 1
      BY <2>1, <2>4 DEF Turn
    <3>2. t \in Seq(Bytes) /\ Len(t) < Len(b)
      BY <3>1, FromIs
    <3> HIDE DEF t
    <3>3. Extract(t, limit) \in Pictures
      BY <1>1, <3>2
    <3>4. SubSeq(b, s, e + 1) \in Seq(Bytes)
      <4>1. \A i \in s .. e + 1 : b[i] \in Bytes
        BY <3>1, ElementOfSeq
      <4> QED
        BY <3>1, <4>1, SubSeqProperties
    <3>7. [Extract(t, limit) EXCEPT !.overflow = TRUE] \in Pictures
      BY <3>3, OverflowNoted
    <3>8. [Extract(t, limit) EXCEPT !.frames = <<SubSeq(b, s, e + 1)>> \o @] \in Pictures
      BY <3>3, <3>4, PictureAdded
    <3> QED
      BY <2>1, <2>4, <3>7, <3>8 DEF t, Turn
  <2> QED
    BY <2>2, <2>3, <2>4
<1>2. Seq(Bytes) \subseteq T
  <2> HIDE DEF T
  <2> QED
    BY <1>1, ByLength
<1> QED
  BY <1>2

(* What is behind a picture, and the picture. *)
LEMMA TurnParts ==
  ASSUME NEW b \in Seq(Bytes), NEW limit, NEW s, NEW e, Turn(b, limit, s, e), s # 0, e # 0
  PROVE  /\ s \in 1 .. Len(b) - 1 /\ e \in s + 2 .. Len(b) - 1
         /\ e + 2 - s \in Nat /\ e + 2 - s <= Len(b)
         /\ From(b, e + 2) \in Seq(Bytes) /\ Len(From(b, e + 2)) < Len(b)
         /\ SubSeq(b, s, e + 1) \in Seq(Bytes)
<1>1. s \in 1 .. Len(b) - 1 /\ e \in s + 2 .. Len(b) - 1
  BY DEF Turn
<1>2. e + 2 \in 1 .. Len(b) + 1 /\ e + 2 > 1
  BY <1>1
<1>3. From(b, e + 2) \in Seq(Bytes) /\ Len(From(b, e + 2)) < Len(b)
  BY <1>2, FromIs
<1>4. \A i \in s .. e + 1 : b[i] \in Bytes
  BY <1>1, ElementOfSeq
<1>5. SubSeq(b, s, e + 1) \in Seq(Bytes)
  BY <1>1, <1>4, SubSeqProperties
<1> QED
  BY <1>1, <1>3, <1>5

(* A buffer that is large enough is never too small, and how large does not *)
(* matter then.                                                             *)
LEMMA LimitIsIdle ==
  ASSUME NEW limit
  PROVE  \A b \in Seq(Bytes) :
           /\ ~Extract(b, limit).overflow => Extract(b, limit) = Extract(b, Len(b))
           /\ \A n \in Nat : n >= Len(b) => ~Extract(b, n).overflow
<1> DEFINE Fits(b) == \A n \in Nat : n >= Len(b) => /\ ~Extract(b, n).overflow
                                                    /\ Extract(b, n) = Extract(b, Len(b))
           T == {b \in Seq(Bytes) :
                   /\ ~Extract(b, limit).overflow => Extract(b, limit) = Extract(b, Len(b))
                   /\ Fits(b)}
<1>0. \A f, r : Result(f, r, TRUE).overflow /\ ~Result(f, r, FALSE).overflow
  BY DEF Result
<1>1. ASSUME NEW b \in Seq(Bytes), \A c \in Seq(Bytes) : Len(c) < Len(b) => c \in T
      PROVE  b \in T
  <2>0. PICK s, e : \A l : Turn(b, l, s, e)
    BY ExtractIs
  <2>1. CASE s = 0
    <3>1. \A l : Extract(b, l) = IF Len(b) > l THEN Result(<<>>, <<>>, TRUE)
                                 ELSE Result(<<>>, Kept(b), FALSE)
      BY <2>0, <2>1 DEF Turn
    <3>2. \A n \in Nat : n >= Len(b) => Extract(b, n) = Result(<<>>, Kept(b), FALSE)
      <4>1. \A n \in Nat : n >= Len(b) => ~(Len(b) > n)
        OBVIOUS
      <4> QED
        BY <3>1, <4>1, Zenon
    <3>3. Extract(b, Len(b)) = Result(<<>>, Kept(b), FALSE)
      <4>1. Len(b) \in Nat /\ Len(b) >= Len(b)
        OBVIOUS
      <4> QED
        BY <3>2, <4>1, Zenon
    <3>4. ~Extract(b, limit).overflow => Extract(b, limit) = Result(<<>>, Kept(b), FALSE)
      BY <3>1, <1>0, Zenon
    <3> QED
      BY <3>2, <3>3, <3>4, <1>0
  <2>2. CASE s # 0 /\ e = 0
    <3>1. \A l : Extract(b, l) = IF Len(b) + 1 - s > l THEN Result(<<>>, <<>>, TRUE)
                                 ELSE Result(<<>>, From(b, s), FALSE)
      BY <2>0, <2>2 DEF Turn
    <3>2. \A n \in Nat : n >= Len(b) => Extract(b, n) = Result(<<>>, From(b, s), FALSE)
      <4>0. Turn(b, limit, s, e)
        BY <2>0, Zenon
      <4>1. s \in 1 .. Len(b)
        BY <4>0, <2>2 DEF Turn
      <4>2. \A n \in Nat : n >= Len(b) => ~(Len(b) + 1 - s > n)
        BY <4>1
      <4> QED
        BY <3>1, <4>2, Zenon
    <3>3. Extract(b, Len(b)) = Result(<<>>, From(b, s), FALSE)
      <4>1. Len(b) \in Nat /\ Len(b) >= Len(b)
        OBVIOUS
      <4> QED
        BY <3>2, <4>1, Zenon
    <3>4. ~Extract(b, limit).overflow => Extract(b, limit) = Result(<<>>, From(b, s), FALSE)
      BY <3>1, <1>0, Zenon
    <3> QED
      BY <3>2, <3>3, <3>4, <1>0
  <2>3. CASE s # 0 /\ e # 0
    <3> DEFINE t == From(b, e + 2)  p == SubSeq(b, s, e + 1)
    <3>1. /\ e + 2 - s \in Nat /\ e + 2 - s <= Len(b)
          /\ t \in Seq(Bytes) /\ Len(t) < Len(b) /\ p \in Seq(Bytes)
      BY <2>0, <2>3, TurnParts
    <3>2. \A l : Extract(b, l) = IF e + 2 - s > l THEN [Extract(t, l) EXCEPT !.overflow = TRUE]
                                 ELSE [Extract(t, l) EXCEPT !.frames = <<p>> \o @]
      BY <2>0, <2>3 DEF Turn
    <3> HIDE DEF t, p
    <3>3. /\ ~Extract(t, limit).overflow => Extract(t, limit) = Extract(t, Len(t))
          /\ Fits(t)
      BY <1>1, <3>1
    <3>4. \A l : Extract(t, l) \in Pictures
      BY <3>1, ExtractTyped
    <3> DEFINE w == [Extract(t, Len(t)) EXCEPT !.frames = <<p>> \o @]
    <3>5. \A n \in Nat : n >= Len(b) => ~Extract(b, n).overflow /\ Extract(b, n) = w
      <4>1. SUFFICES ASSUME NEW n \in Nat, n >= Len(b)
            PROVE  ~Extract(b, n).overflow /\ Extract(b, n) = w
        OBVIOUS
      <4>2. ~(e + 2 - s > n) /\ n >= Len(t)
        BY <3>1, <4>1
      <4>3. ~Extract(t, n).overflow /\ Extract(t, n) = Extract(t, Len(t))
        BY <3>3, <4>2
      <4>4. Extract(b, n) = [Extract(t, n) EXCEPT !.frames = <<p>> \o @]
        BY <3>2, <4>2, Zenon
      <4>5. [Extract(t, n) EXCEPT !.frames = <<p>> \o @].overflow = Extract(t, n).overflow
        BY <3>1, <3>4, PictureAdded
      <4>6. ~Extract(b, n).overflow
        BY <4>3, <4>4, <4>5, Zenon
      <4>7. Extract(b, n) = w
        BY <4>3, <4>4, Zenon
      <4> QED
        BY <4>6, <4>7
    <3>6. Extract(b, Len(b)) = w
      <4>1. Len(b) \in Nat /\ Len(b) >= Len(b)
        OBVIOUS
      <4> HIDE DEF w
      <4> QED
        BY <3>5, <4>1, Zenon
    <3>7. ~Extract(b, limit).overflow => Extract(b, limit) = w
      <4>1. SUFFICES ASSUME ~Extract(b, limit).overflow PROVE Extract(b, limit) = w
        OBVIOUS
      <4>2. [Extract(t, limit) EXCEPT !.overflow = TRUE].overflow
        BY <3>4, OverflowNoted
      <4>3. Extract(b, limit) = [Extract(t, limit) EXCEPT !.frames = <<p>> \o @]
        BY <3>2, <4>1, <4>2, Zenon
      <4>4. [Extract(t, limit) EXCEPT !.frames = <<p>> \o @].overflow = Extract(t, limit).overflow
        BY <3>1, <3>4, PictureAdded
      <4>5. ~Extract(t, limit).overflow
        BY <4>1, <4>3, <4>4, Zenon
      <4> QED
        BY <3>3, <4>3, <4>5, Zenon
    <3> HIDE DEF w
    <3> QED
      BY <3>5, <3>6, <3>7
  <2> QED
    BY <2>1, <2>2, <2>3
<1>2. Seq(Bytes) \subseteq T
  <2> HIDE DEF T
  <2> QED
    BY <1>1, ByLength
<1>3. \A b \in Seq(Bytes) : b \in T
  <2> HIDE DEF T
  <2> QED
    BY <1>2
<1> QED
  BY <1>3

(* What is taken out of bytes when the buffer is large enough. *)
Whole(b) == Extract(b, Len(b))

WholeTurn(b, s, e) ==
  /\ Whole(b) \in Pictures
  /\ s = 0 => Whole(b).frames = <<>> /\ Whole(b).rest = Kept(b)
  /\ s # 0 /\ e = 0 => Whole(b).frames = <<>> /\ Whole(b).rest = From(b, s)
  /\ s # 0 /\ e # 0 => /\ Whole(b).frames = <<SubSeq(b, s, e + 1)>>
                                            \o Whole(From(b, e + 2)).frames
                       /\ Whole(b).rest = Whole(From(b, e + 2)).rest

LEMMA WholeIs ==
  ASSUME NEW b \in Seq(Bytes), NEW s, NEW e, s = Opens(b, 1), e = Closes(b, s + 2)
  PROVE  WholeTurn(b, s, e)
<1> SUFFICES
      /\ Whole(b) \in Pictures
      /\ s = 0 => Whole(b).frames = <<>> /\ Whole(b).rest = Kept(b)
      /\ s # 0 /\ e = 0 => Whole(b).frames = <<>> /\ Whole(b).rest = From(b, s)
      /\ s # 0 /\ e # 0 => /\ Whole(b).frames = <<SubSeq(b, s, e + 1)>>
                                            \o Whole(From(b, e + 2)).frames
                           /\ Whole(b).rest = Whole(From(b, e + 2)).rest
  BY DEF WholeTurn
<1>0. \A l : Turn(b, l, s, e)
  BY ExtractIs
<1>1. Whole(b) \in Pictures
  BY ExtractTyped DEF Whole
<1>r. \A r : Result(<<>>, r, FALSE).frames = <<>> /\ Result(<<>>, r, FALSE).rest = r
  BY DEF Result
<1>2. CASE s = 0
  <2>1. Whole(b) = Result(<<>>, Kept(b), FALSE)
    <3>1. ~(Len(b) > Len(b))
      OBVIOUS
    <3> QED
      BY <1>0, <1>2, <3>1 DEF Turn, Whole
  <2> QED
    BY <1>1, <1>2, <1>r, <2>1
<1>3. CASE s # 0 /\ e = 0
  <2>0. Turn(b, Len(b), s, e)
    BY <1>0, Zenon
  <2>1. s \in 1 .. Len(b)
    BY <2>0, <1>3 DEF Turn
  <2>2. ~(Len(b) + 1 - s > Len(b))
    BY <2>1
  <2>3. Whole(b) = Result(<<>>, From(b, s), FALSE)
    BY <1>0, <1>3, <2>2 DEF Turn, Whole
  <2> QED
    BY <1>1, <1>3, <1>r, <2>3
<1>4. CASE s # 0 /\ e # 0
  <2> DEFINE t == From(b, e + 2)  p == SubSeq(b, s, e + 1)  n == Len(b)
  <2>1. /\ e + 2 - s \in Nat /\ e + 2 - s <= Len(b)
        /\ t \in Seq(Bytes) /\ Len(t) < Len(b) /\ p \in Seq(Bytes)
    BY <1>0, <1>4, TurnParts
  <2>2. Extract(b, n) = IF e + 2 - s > n THEN [Extract(t, n) EXCEPT !.overflow = TRUE]
                        ELSE [Extract(t, n) EXCEPT !.frames = <<p>> \o @]
    BY <1>0, <1>4 DEF Turn
  <2>3. n \in Nat /\ n >= Len(t) /\ ~(e + 2 - s > n)
    BY <2>1
  <2> HIDE DEF t, p, n
  <2>4. Extract(t, n) = Whole(t) /\ Extract(t, n) \in Pictures
    <3>1. ~Extract(t, n).overflow
      BY <2>1, <2>3, LimitIsIdle
    <3> QED
      BY <2>1, <3>1, LimitIsIdle, ExtractTyped DEF Whole
  <2>5. Whole(b) = [Extract(t, n) EXCEPT !.frames = <<p>> \o @]
    BY <2>2, <2>3 DEF Whole, n
  <2>6. /\ [Extract(t, n) EXCEPT !.frames = <<p>> \o @].frames = <<p>> \o Extract(t, n).frames
        /\ [Extract(t, n) EXCEPT !.frames = <<p>> \o @].rest = Extract(t, n).rest
    BY <2>1, <2>4, PictureAdded
  <2>7. Whole(b).frames = <<p>> \o Whole(t).frames /\ Whole(b).rest = Whole(t).rest
    BY <2>4, <2>5, <2>6, Zenon
  <2> QED
    BY <1>1, <1>4, <2>7 DEF t, p
<1> QED
  BY <1>2, <1>3, <1>4

LEMMA JoinIs ==
  ASSUME NEW S, NEW b \in Seq(S), NEW c \in Seq(S)
  PROVE  /\ b \o c \in Seq(S) /\ Len(b \o c) = Len(b) + Len(c)
         /\ \A i \in 1 .. Len(b) : (b \o c)[i] = b[i]
         /\ \A k \in 1 .. Len(b) + 1 : From(b \o c, k) = From(b, k) \o c
<1> DEFINE d == b \o c
<1>1. /\ d \in Seq(S) /\ Len(d) = Len(b) + Len(c)
      /\ \A i \in 1 .. Len(b) + Len(c) : d[i] = IF i <= Len(b) THEN b[i] ELSE c[i - Len(b)]
  BY ConcatProperties
<1>2. \A i \in 1 .. Len(b) : d[i] = b[i]
  <2> HIDE DEF d
  <2> QED
    BY <1>1
<1>3. ASSUME NEW k \in 1 .. Len(b) + 1 PROVE From(d, k) = From(b, k) \o c
  <2> DEFINE t == From(b, k)  l == From(d, k)  r == t \o c
  <2>1. /\ t \in Seq(S) /\ Len(t) = Len(b) - k + 1
        /\ \A i \in 1 .. Len(b) - k + 1 : t[i] = b[k - 1 + i]
    BY FromIs
  <2> HIDE DEF t, d
  <2>2. k \in 1 .. Len(d) + 1
    BY <1>1
  <2>3. /\ l \in Seq(S) /\ Len(l) = Len(d) - k + 1
        /\ \A i \in 1 .. Len(d) - k + 1 : l[i] = d[k - 1 + i]
    BY <1>1, <2>2, FromIs
  <2>4. /\ r \in Seq(S) /\ Len(r) = Len(t) + Len(c)
        /\ \A i \in 1 .. Len(t) + Len(c) : r[i] = IF i <= Len(t) THEN t[i] ELSE c[i - Len(t)]
    BY <2>1, ConcatProperties
  <2> HIDE DEF l, r
  <2>5. Len(l) = Len(r)
    BY <1>1, <2>1, <2>3, <2>4
  <2>6. ASSUME NEW i \in 1 .. Len(l) PROVE l[i] = r[i]
    <3>1. i \in 1 .. Len(d) - k + 1 /\ i \in 1 .. Len(t) + Len(c)
      BY <2>3, <2>4, <2>5
    <3>2. l[i] = d[k - 1 + i] /\ k - 1 + i \in 1 .. Len(b) + Len(c)
      BY <1>1, <2>3, <3>1
    <3>3. CASE i <= Len(t)
      <4>1. i \in 1 .. Len(b) - k + 1 /\ k - 1 + i <= Len(b)
        BY <2>1, <3>3
      <4>2. t[i] = b[k - 1 + i] /\ r[i] = t[i] /\ d[k - 1 + i] = b[k - 1 + i]
        BY <1>1, <2>1, <2>4, <3>1, <3>2, <3>3, <4>1
      <4> QED
        BY <3>2, <4>2
    <3>4. CASE ~(i <= Len(t))
      <4>1. ~(k - 1 + i <= Len(b)) /\ k - 1 + i - Len(b) = i - Len(t)
        BY <2>1, <3>4
      <4>2. r[i] = c[i - Len(t)]
        BY <2>4, <3>1, <3>4
      <4>3. d[k - 1 + i] = c[k - 1 + i - Len(b)]
        <5> DEFINE o == k - 1 + i
        <5>1. o \in 1 .. Len(b) + Len(c) /\ ~(o <= Len(b))
          BY <3>2, <4>1
        <5> HIDE DEF o
        <5>2. d[o] = c[o - Len(b)]
          BY <1>1, <5>1
        <5> QED
          BY <5>2 DEF o
      <4> QED
        BY <3>2, <4>1, <4>2, <4>3
    <3> QED
      BY <3>3, <3>4
  <2>7. l = r
    BY <2>3, <2>4, <2>5, <2>6, SeqEqual
  <2> QED
    BY <2>7 DEF l, r, t
<1> QED
  BY <1>1, <1>2, <1>3

(* Bytes in front of a start marker may be left out. *)
LEMMA Skip ==
  ASSUME NEW b \in Seq(Bytes), NEW k \in 1 .. Len(b),
         \A i \in 1 .. k - 1 : ~(b[i] = "FF" /\ b[i + 1] = "D8")
  PROVE  Whole(b) = Whole(From(b, k))
<1> DEFINE n == Len(b)  f == Scan(b, n)  t == From(b, k)
<1>1. Opens(b, 1) = Opens(b, k)
  <2> DEFINE s == Opens(b, k)
  <2>1. FirstIs(b, "FF", "D8", k, s)
    BY MarkersAre
  <2> HIDE DEF s
  <2>2. FirstIs(b, "FF", "D8", 1, s)
    BY <2>1 DEF FirstIs
  <2>3. Find(b, <<"FF", "D8">>, 1) = s
    BY <2>2, FirstIsOne
  <2> QED
    BY <2>3 DEF Opens, s
<1>2. f[1] = Loop(b, n, f, 1) /\ f[k] = Loop(b, n, f, k)
  <2>1. 1 \in 1 .. Len(b) + 1 /\ k \in 1 .. Len(b) + 1
    OBVIOUS
  <2> QED
    BY <2>1, ScanUnfolds
<1>3. From(b, 1) = b
  BY SubSeqFull DEF From
<1>4. t \in Seq(Bytes) /\ Len(t) = Len(b) - k + 1 /\ t[n - k + 1] = b[n]
  <2>1. k \in 1 .. Len(b) + 1 /\ n \in k .. Len(b)
    OBVIOUS
  <2> QED
    BY <2>1, FromIs
<1>5. Kept(t) = Kept(b)
  <2>1. Len(t) # 0 /\ Len(b) # 0
    <3> HIDE DEF t
    <3> QED
      BY <1>4
  <2>2. t # <<>> /\ b # <<>>
    <3> HIDE DEF t
    <3> QED
      BY <2>1
  <2> HIDE DEF t
  <2> QED
    BY <1>4, <2>2 DEF Kept
<1>6. ~(Len(b) > n) /\ ~(Len(t) > n)
  <2> HIDE DEF t
  <2> QED
    BY <1>4
<1>7. Loop(b, n, f, 1) = Loop(b, n, f, k)
  <2> HIDE DEF n, f, t
  <2>1. From(b, k) = t
    BY DEF t
  <2> QED
    BY <1>1, <1>3, <1>5, <1>6, <2>1, Zenon DEF Loop, From
<1>8. Extract(b, n) = f[1]
  BY ExtractIsScan
<1>9. Extract(t, n) = f[k]
  <2>1. k \in 1 .. Len(b) + 1 /\ k \in k .. Len(b) + 1 /\ k - k + 1 = 1
    OBVIOUS
  <2>2. Scan(t, n)[k - k + 1] = f[k]
    BY <2>1, ScanFrom
  <2>3. Extract(t, n) = Scan(t, n)[1]
    BY ExtractIsScan
  <2> HIDE DEF n, t, f
  <2> QED
    BY <2>1, <2>2, <2>3
<1>10. Extract(t, n) = Whole(t)
  <2>1. n \in Nat /\ n >= Len(t)
    <3> HIDE DEF t
    <3> QED
      BY <1>4
  <2> HIDE DEF t, n
  <2> QED
    BY <1>4, <2>1, LimitIsIdle DEF Whole
<1> QED
  <2> HIDE DEF f, t
  <2>1. Whole(b) = f[1]
    BY <1>8 DEF Whole
  <2>2. Whole(b) = Whole(t)
    BY <1>2, <1>7, <1>9, <1>10, <2>1, Zenon
  <2> QED
    BY <2>2 DEF t

(* What comes behind some bytes is as if it came behind what they leave. *)
Splits(b, c) ==
  LET kept == Whole(b).rest IN
  /\ Whole(b \o c).frames = Whole(b).frames \o Whole(kept \o c).frames
  /\ Whole(b \o c).rest = Whole(kept \o c).rest

LEMMA WholeSplits ==
  ASSUME NEW c \in Seq(Bytes)
  PROVE  \A b \in Seq(Bytes) : Splits(b, c)
<1> DEFINE T == {b \in Seq(Bytes) : Splits(b, c)}
<1>0. \A b \in Seq(Bytes) : Whole(b) \in Pictures
  BY ExtractTyped DEF Whole
<1>1. ASSUME NEW b \in Seq(Bytes), \A a \in Seq(Bytes) : Len(a) < Len(b) => a \in T
      PROVE  b \in T
  <2> DEFINE d == b \o c
  <2>1. /\ d \in Seq(Bytes) /\ Len(d) = Len(b) + Len(c)
        /\ \A i \in 1 .. Len(b) : d[i] = b[i]
        /\ \A k \in 1 .. Len(b) + 1 : From(d, k) = From(b, k) \o c
    BY JoinIs
  <2> DEFINE s == Opens(b, 1)  e == Closes(b, s + 2)
  <2>2. FirstIs(b, "FF", "D8", 1, s)
    BY MarkersAre
  <2>3. Turn(b, Len(b), s, e)
    BY ExtractIs
  <2>4. /\ Whole(b) \in Pictures
        /\ s = 0 => Whole(b).frames = <<>> /\ Whole(b).rest = Kept(b)
        /\ s # 0 /\ e = 0 => Whole(b).frames = <<>> /\ Whole(b).rest = From(b, s)
        /\ s # 0 /\ e # 0 => /\ Whole(b).frames = <<SubSeq(b, s, e + 1)>>
                                            \o Whole(From(b, e + 2)).frames
                             /\ Whole(b).rest = Whole(From(b, e + 2)).rest
    BY WholeIs DEF WholeTurn
  <2> HIDE DEF e
  <2>5. \A x \in Pictures : <<>> \o x.frames = x.frames
    <3>1. \A x \in Pictures : x.frames \in Seq(Seq(Bytes))
      BY DEF Pictures
    <3> QED
      BY <3>1, ConcatEmptySeq
  <2>6. SUFFICES Splits(b, c)
    OBVIOUS
  <2> HIDE DEF s, d, T
  <2>7. CASE b = <<>>
    <3>1. s = 0
      <4>1. ~(s \in 1 .. Len(b) - 1)
        BY <2>7
      <4> QED
        BY <2>3, <4>1 DEF Turn
    <3>2. Kept(b) = <<>>
      BY <2>7 DEF Kept
    <3>3. b \o c = c /\ <<>> \o c = c
      BY <2>7, ConcatEmptySeq
    <3>4. Whole(b).frames = <<>> /\ Whole(b).rest = <<>>
      BY <2>4, <3>1, <3>2
    <3>5. <<>> \o Whole(c).frames = Whole(c).frames
      BY <1>0, <2>5
    <3> QED
      BY <3>3, <3>4, <3>5, Zenon DEF Splits
  <2>8. ASSUME NEW k \in 1 .. Len(b), \A i \in 1 .. k - 1 : ~(b[i] = "FF" /\ b[i + 1] = "D8"),
               Whole(b).frames = <<>>, Whole(b).rest = From(b, k)
        PROVE  Splits(b, c)
    <3>1. k \in 1 .. Len(d) /\ k \in 1 .. Len(b) + 1
      BY <2>1
    <3>2. \A i \in 1 .. k - 1 : ~(d[i] = "FF" /\ d[i + 1] = "D8")
      <4>1. ASSUME NEW i \in 1 .. k - 1 PROVE d[i] = b[i] /\ d[i + 1] = b[i + 1]
        <5>1. i \in 1 .. Len(b) /\ i + 1 \in 1 .. Len(b)
          OBVIOUS
        <5> QED
          BY <5>1, <2>1
      <4> QED
        BY <2>8, <4>1
    <3>3. Whole(d) = Whole(From(d, k))
      BY <2>1, <3>1, <3>2, Skip
    <3>4. From(d, k) = From(b, k) \o c
      BY <2>1, <3>1
    <3>5. From(d, k) \in Seq(Bytes)
      <4>1. k \in 1 .. Len(d) + 1
        BY <2>1, <3>1
      <4> QED
        BY <2>1, <4>1, FromIs
    <3>6. <<>> \o Whole(From(d, k)).frames = Whole(From(d, k)).frames
      BY <1>0, <2>5, <3>5
    <3> QED
      BY <2>8, <3>3, <3>4, <3>6, Zenon DEF Splits, d
  <2>9. CASE b # <<>> /\ s = 0
    <3> DEFINE n == Len(b)
    <3>1. n \in 1 .. Len(b)
      BY <2>9, EmptySeq
    <3>2. \A i \in 1 .. n - 1 : ~(b[i] = "FF" /\ b[i + 1] = "D8")
      BY <2>2, <2>9 DEF FirstIs
    <3>3. From(b, n) = Kept(b)
      <4>1. n \in 1 .. Len(b) + 1 /\ n \in n .. Len(b) /\ n - n + 1 = 1
        BY <3>1
      <4>2. From(b, n) \in Seq(Bytes) /\ Len(From(b, n)) = 1 /\ From(b, n)[1] = b[n]
        <5>1. /\ From(b, n) \in Seq(Bytes) /\ Len(From(b, n)) = Len(b) - n + 1
              /\ From(b, n)[n - n + 1] = b[n]
          BY <4>1, FromIs
        <5> QED
          BY <4>1, <5>1
      <4>3. From(b, n) = <<b[n]>>
        <5> DEFINE u == <<b[n]>>  v == From(b, n)
        <5>1. u \in Seq(Bytes) /\ Len(u) = 1 /\ u[1] = b[n]
          <6>1. b[n] \in Bytes
            BY <3>1, ElementOfSeq
          <6> QED
            BY <6>1
        <5>2. \A i \in 1 .. 1 : v[i] = u[i]
          <6> HIDE DEF u, v
          <6>1. \A i \in 1 .. 1 : i = 1
            OBVIOUS
          <6> QED
            BY <4>2, <5>1, <6>1 DEF v
        <5> HIDE DEF u, v
        <5>3. v = u
          BY <4>2, <5>1, <5>2, SeqEqual DEF v
        <5> QED
          BY <5>3 DEF u, v
      <4> QED
        BY <2>9, <4>3 DEF Kept
    <3>4. Whole(b).frames = <<>> /\ Whole(b).rest = From(b, n)
      BY <2>4, <2>9, <3>3
    <3> HIDE DEF n
    <3> QED
      BY <2>8, <3>1, <3>2, <3>4
  <2>10. CASE s # 0 /\ e = 0
    <3>1. s \in 1 .. Len(b)
      BY <2>3, <2>10 DEF Turn
    <3>2. \A i \in 1 .. s - 1 : ~(b[i] = "FF" /\ b[i + 1] = "D8")
      BY <2>2, <2>10 DEF FirstIs
    <3>3. Whole(b).frames = <<>> /\ Whole(b).rest = From(b, s)
      BY <2>4, <2>10
    <3> QED
      BY <2>8, <3>1, <3>2, <3>3
  <2>11. CASE s # 0 /\ e # 0
    <3> DEFINE t == From(b, e + 2)  p == SubSeq(b, s, e + 1)
    <3>1. /\ s \in 1 .. Len(b) - 1 /\ e \in s + 2 .. Len(b) - 1
          /\ t \in Seq(Bytes) /\ Len(t) < Len(b) /\ p \in Seq(Bytes)
      BY <2>3, <2>11, TurnParts
    <3>2. Opens(d, 1) = s
      <4>1. FirstIs(d, "FF", "D8", 1, s)
        <5>1. s # 0 /\ s \in 1 .. Len(d) - 1
          BY <2>1, <3>1
        <5>2. d[s] = b[s] /\ d[s + 1] = b[s + 1]
          BY <2>1, <3>1
        <5>3. ASSUME NEW i \in 1 .. s - 1 PROVE d[i] = b[i] /\ d[i + 1] = b[i + 1]
          <6>1. i \in 1 .. Len(b) /\ i + 1 \in 1 .. Len(b)
            BY <3>1
          <6> QED
            BY <6>1, <2>1
        <5>4. /\ b[s] = "FF" /\ b[s + 1] = "D8"
              /\ \A i \in 1 .. s - 1 : ~(b[i] = "FF" /\ b[i + 1] = "D8")
          BY <2>2, <2>11 DEF FirstIs
        <5> QED
          BY <5>1, <5>2, <5>3, <5>4 DEF FirstIs
      <4> QED
        BY <2>1, <4>1, FirstIsOne DEF Opens
    <3>3. Closes(d, s + 2) = e
      <4>0. s + 2 \in Nat \ {0}
        BY <3>1
      <4>1. FirstIs(d, "FF", "D9", s + 2, e)
        <5>1. e # 0 /\ e \in s + 2 .. Len(d) - 1
          BY <2>1, <3>1
        <5>2. d[e] = b[e] /\ d[e + 1] = b[e + 1]
          <6>1. e \in 1 .. Len(b) /\ e + 1 \in 1 .. Len(b)
            BY <3>1
          <6> QED
            BY <6>1, <2>1
        <5>3. ASSUME NEW i \in s + 2 .. e - 1 PROVE d[i] = b[i] /\ d[i + 1] = b[i + 1]
          <6>1. i \in 1 .. Len(b) /\ i + 1 \in 1 .. Len(b)
            BY <3>1
          <6> QED
            BY <6>1, <2>1
        <5>4. /\ b[e] = "FF" /\ b[e + 1] = "D9"
              /\ \A i \in s + 2 .. e - 1 : ~(b[i] = "FF" /\ b[i + 1] = "D9")
          <6>1. FirstIs(b, "FF", "D9", s + 2, e)
            BY <4>0, MarkersAre DEF e
          <6> QED
            BY <6>1, <2>11 DEF FirstIs
        <5> QED
          BY <5>1, <5>2, <5>3, <5>4 DEF FirstIs
      <4> DEFINE k == s + 2
      <4> HIDE DEF k
      <4>2. Find(d, <<"FF", "D9">>, k) = e
        BY <2>1, <4>0, <4>1, FirstIsOne DEF k
      <4> QED
        BY <4>2 DEF Closes, k
    <3>4. /\ Whole(d).frames = <<SubSeq(d, s, e + 1)>> \o Whole(From(d, e + 2)).frames
          /\ Whole(d).rest = Whole(From(d, e + 2)).rest
      <4>1. WholeTurn(d, s, e)
        BY <2>1, <3>2, <3>3, WholeIs
      <4> QED
        BY <4>1, <2>11 DEF WholeTurn
    <3>5. SubSeq(d, s, e + 1) = p
      <4>1. s \in 1 .. Len(b) /\ e + 1 \in 1 .. Len(b)
        BY <3>1
      <4> DEFINE z == e + 1
      <4> HIDE DEF z
      <4>2. SubSeq(b \o c, s, z) = SubSeq(b, s, z)
        BY <4>1, SubSeqOfConcat1 DEF z
      <4> QED
        BY <4>2 DEF z, d
    <3>6. From(d, e + 2) = t \o c
      <4>1. e + 2 \in 1 .. Len(b) + 1
        BY <3>1
      <4> QED
        BY <2>1, <4>1
    <3>7. Splits(t, c)
      <4> HIDE DEF t
      <4>1. t \in T
        BY <1>1, <3>1
      <4> QED
        BY <4>1 DEF T
    <3> HIDE DEF t, p
    <3> DEFINE r == Whole(t).rest
    <3>8. r \in Seq(Bytes) /\ Whole(t).frames \in Seq(Seq(Bytes))
      BY <1>0, <3>1 DEF Pictures
    <3>9. r \o c \in Seq(Bytes)
      BY <3>8, ConcatProperties
    <3>10. Whole(r \o c).frames \in Seq(Seq(Bytes))
      BY <1>0, <3>9 DEF Pictures
    <3>11. <<p>> \in Seq(Seq(Bytes))
      BY <3>1
    <3>12. (<<p>> \o Whole(t).frames) \o Whole(r \o c).frames
             = <<p>> \o (Whole(t).frames \o Whole(r \o c).frames)
      <4>1. \A x, y, z \in Seq(Seq(Bytes)) : (x \o y) \o z = x \o (y \o z)
        BY ConcatAssociative, SMTT(40)
      <4> QED
        BY <3>8, <3>10, <3>11, <4>1, Zenon
    <3>13. /\ Whole(b).frames = <<p>> \o Whole(t).frames
           /\ Whole(b).rest = r
      BY <2>4, <2>11 DEF t, p
    <3> HIDE DEF r
    <3>14. /\ Whole(t \o c).frames = Whole(t).frames \o Whole(r \o c).frames
           /\ Whole(t \o c).rest = Whole(r \o c).rest
      BY <3>7 DEF Splits, r
    <3> QED
      BY <3>4, <3>5, <3>6, <3>12, <3>13, <3>14, Zenon DEF Splits, d
  <2> QED
    BY <2>7, <2>9, <2>10, <2>11
<1>2. Seq(Bytes) \subseteq T
  <2> HIDE DEF T
  <2> QED
    BY <1>1, ByLength
<1>3. \A b \in Seq(Bytes) : b \in T
  <2> HIDE DEF T
  <2> QED
    BY <1>2
<1> QED
  BY <1>3

PipeInv ==
  /\ buffer \in Seq(Bytes)
  /\ output \in Seq(Bytes)
  /\ frames \in Seq(Seq(Bytes))
  /\ ~overflowed => frames = Whole(output).frames /\ buffer = Whole(output).rest

LEMMA NothingTaken == Whole(<<>>).frames = <<>> /\ Whole(<<>>).rest = <<>>
<1>1. <<>> \in Seq(Bytes) /\ Len(<<>>) = 0
  OBVIOUS
<1>2. PICK s, e : Turn(<<>>, 0, s, e) /\ WholeTurn(<<>>, s, e)
  BY <1>1, ExtractIs, WholeIs
<1>3. s = 0
  <2>1. ~(s \in 1 .. Len(<<>>) - 1)
    BY <1>1
  <2> QED
    BY <1>2, <2>1 DEF Turn
<1>4. Kept(<<>>) = <<>>
  BY DEF Kept
<1> QED
  BY <1>2, <1>3, <1>4 DEF WholeTurn

LEMMA PipeRead ==
  ASSUME PipeInv, NEW bytes \in Seq(Bytes), NEW seen, ReadStandardOutput(bytes, seen)
  PROVE  PipeInv'
<1> DEFINE b == buffer \o bytes  taken == Extract(b, MaxBuffer)
<1>1. /\ buffer' = taken.rest /\ output' = output \o bytes
      /\ frames' = frames \o taken.frames
      /\ overflowed' = (overflowed \/ taken.overflow)
  BY DEF ReadStandardOutput
<1>2. b \in Seq(Bytes) /\ output' \in Seq(Bytes)
  BY <1>1, ConcatProperties DEF PipeInv
<1> HIDE DEF b
<1>3. taken \in Pictures
  BY <1>2, ExtractTyped
<1>4. taken.rest \in Seq(Bytes) /\ taken.frames \in Seq(Seq(Bytes))
  BY <1>3 DEF Pictures
<1>5. frames' \in Seq(Seq(Bytes))
  BY <1>1, <1>4, ConcatProperties DEF PipeInv
<1>6. ASSUME ~overflowed' PROVE frames' = Whole(output').frames /\ buffer' = Whole(output').rest
  <2>1. ~overflowed /\ ~taken.overflow
    BY <1>1, <1>6, Zenon
  <2>2. taken = Whole(b)
    BY <1>2, <2>1, LimitIsIdle DEF Whole
  <2>3. frames = Whole(output).frames /\ buffer = Whole(output).rest
    BY <2>1 DEF PipeInv
  <2>4. Splits(output, bytes)
    BY WholeSplits DEF PipeInv
  <2>5. /\ Whole(output \o bytes).frames = frames \o Whole(b).frames
        /\ Whole(output \o bytes).rest = Whole(b).rest
    BY <2>3, <2>4, Zenon DEF Splits, b
  <2> HIDE DEF taken
  <2> QED
    BY <1>1, <2>2, <2>5, Zenon
<1> QED
  BY <1>1, <1>2, <1>4, <1>5, <1>6 DEF PipeInv

LEMMA PipeKept == ASSUME PipeInv, [FfmpegNext]_ffmpegVars PROVE PipeInv'
<1>1. ASSUME ClearBuffer PROVE PipeInv'
  <2>1. buffer' = <<>> /\ output' = <<>> /\ frames' = <<>>
    BY <1>1 DEF ClearBuffer
  <2>2. <<>> \in Seq(Bytes) /\ <<>> \in Seq(Seq(Bytes))
    OBVIOUS
  <2> QED
    BY <2>1, <2>2, NothingTaken DEF PipeInv
<1>2. ASSUME UNCHANGED pipeVars PROVE PipeInv'
  BY <1>2 DEF PipeInv, pipeVars
<1>3. ASSUME NEW active, StartStream(active) PROVE PipeInv'
  <2>1. ClearBuffer \/ UNCHANGED pipeVars
    BY <1>3, Zenon DEF StartStream, Launch
  <2> QED
    BY <2>1, <1>1, <1>2
<1>4. CASE StopPlayer
  BY <1>4, <1>1 DEF StopPlayer, BeginStop
<1>5. ASSUME NEW good \in BOOLEAN, SetSource(good) \/ Play(good) PROVE PipeInv'
  BY <1>5, <1>1 DEF SetSource, Play, BeginStop
<1>6. CASE StopEnds
  <2>1. ClearBuffer \/ UNCHANGED pipeVars
    BY <1>6, Zenon DEF StopEnds, Launch
  <2> QED
    BY <2>1, <1>1, <1>2
<1>7. CASE StartPlayer
  BY <1>7, <1>3 DEF StartPlayer
<1>8. CASE RestartAfterBackoff
  <2>1. UNCHANGED pipeVars \/ StartStream(FALSE)
    BY <1>8, Zenon DEF RestartAfterBackoff
  <2> QED
    BY <2>1, <1>2, <1>3
<1>9. CASE FrameTimeout \/ Started \/ FailedToStart \/ ReadError
           \/ \E well \in BOOLEAN : Finished(well)
  <2>1. UNCHANGED pipeVars
    BY <1>9, Zenon DEF FrameTimeout, Started, FailedToStart, ReadError, Finished
  <2> QED
    BY <2>1, <1>2
<1>10. ASSUME NEW n \in 1 .. 2, NEW seen \in BOOLEAN, NEW bytes \in [1 .. n -> Bytes],
              ReadStandardOutput(bytes, seen)
       PROVE  PipeInv'
  <2>1. bytes \in Seq(Bytes)
    OBVIOUS
  <2> QED
    BY <2>1, <1>10, PipeRead
<1>11. CASE UNCHANGED ffmpegVars
  BY <1>11, <1>2 DEF ffmpegVars, pipeVars
<1> QED
  BY <1>4, <1>5, <1>6, <1>7, <1>8, <1>9, <1>10, <1>11, Zenon DEF FfmpegNext

(* Whatever pieces the pipe makes of the output of ffmpeg, and whatever was  *)
(* cleared and started again before, the pictures taken out are those of the *)
(* output as a whole, for every limit of the buffer (extractJpegFrames and   *)
(* the buffer it leaves, RtspPlayer.cpp and FilePlaybackPlayer.cpp).         *)
THEOREM PicturesWhole == FfmpegSpec => []PicturesInPieces
<1>1. FfmpegInit => PipeInv
  <2>1. <<>> \in Seq(Bytes) /\ <<>> \in Seq(Seq(Bytes))
    OBVIOUS
  <2> QED
    BY <2>1, NothingTaken DEF FfmpegInit, PipeInv
<1>2. PipeInv /\ [FfmpegNext]_ffmpegVars => PipeInv'
  BY PipeKept
<1>3. PipeInv => PicturesInPieces
  BY DEF PipeInv, PicturesInPieces, Whole
<1> QED
  BY <1>1, <1>2, <1>3, PTL DEF FfmpegSpec

-------------------------------------------------------------------------------
(* PtzClient.  A move is covered once a stop was issued after it, which     *)
(* waits, is on its way, is gone or was forgotten; a stop issued now covers *)
(* every request before it, and whatever becomes of a request, what it      *)
(* covers stays covered.  Until it is covered the user holds the button of  *)
(* an enabled control.                                                      *)
Requests == Nat \X {"start", "stop"}

Waits(l) == l.wire \cup {l.waiting[i] : i \in DOMAIN l.waiting}

Links ==
  [control: Nat, pending: Nat, waiting: {<<>>} \cup {<<r>> : r \in Requests},
   wire: SUBSET Requests, sent: Nat, done: Nat, gone: Nat, forgotten: Nat]

Numbered(l) ==
  /\ l \in Links
  /\ l.control <= l.sent /\ l.pending <= l.sent /\ l.done <= l.sent /\ l.gone <= l.sent
  /\ \A r \in Waits(l) : r[1] <= l.sent

Covered(l, n) ==
  (\E r \in Waits(l) : IsStop(r) /\ r[1] > n) \/ l.gone > n \/ l.forgotten > n

(* What happens to the requests of l never uncovers one. *)
StillCovered(l, k) ==
  /\ \A n \in Nat : Covered(l, n) => Covered(k, n)
  /\ \A r \in Waits(k) : r \in Waits(l)

(* Every move that the camera obeys or may yet obey is covered or held.     *)
Settled(l, moves, held) ==
  /\ Numbered(l)
  /\ moves => held \/ Covered(l, l.done)
  /\ \A r \in Waits(l) : ~IsStop(r) => held \/ Covered(l, r[1])

(* A request through the server has no reply that could be aborted. *)
Unabortable(l) == transport = "server" => l.control = 0 /\ l.forgotten = 0

PtzInv ==
  /\ Settled(link, moving, moveActive)
  /\ transport \in {"direct", "server"} /\ Unabortable(link)
  /\ moving \in BOOLEAN /\ moveActive \in BOOLEAN
  /\ moveActive => pressed /\ ready /\ enabled
  /\ probing => ~ready /\ ~enabled

(* The newest of the stop numbered m and the requests in R, of one number. *)
LEMMA NewestIs ==
  ASSUME NEW m \in Nat, NEW c \in Nat, NEW R, \A r \in R : r[1] = c
  PROVE  /\ NewestStop(m, R) \in {m, c} /\ NewestStop(m, R) >= m
         /\ (\E r \in R : IsStop(r)) => NewestStop(m, R) >= c
<1> DEFINE stops == {r[1] : r \in {q \in R : IsStop(q)}} \cup {m}
<1>1. stops \subseteq {c, m} /\ m \in stops
  OBVIOUS
<1>2. \E n \in stops : \A k \in stops : k <= n
  <2>1. CASE c \in stops /\ c >= m
    BY <1>1, <2>1
  <2>2. CASE ~(c \in stops /\ c >= m)
    BY <1>1, <2>2
  <2> QED
    BY <2>1, <2>2
<1>3. NewestStop(m, R) \in stops /\ \A k \in stops : k <= NewestStop(m, R)
  BY <1>2 DEF NewestStop
<1>4. (\E r \in R : IsStop(r)) => c \in stops
  OBVIOUS
<1> QED
  BY <1>1, <1>3, <1>4

(* A request that goes is accounted for, in gone or in forgotten. *)
LEMMA GoesCovered ==
  ASSUME NEW l, Numbered(l), NEW c \in Nat, NEW R \in SUBSET Waits(l), \A r \in R : r[1] = c,
         NEW k, Numbered(k), Waits(l) \ R \subseteq Waits(k), Waits(k) \subseteq Waits(l),
         \/ k.gone = NewestStop(l.gone, R) /\ k.forgotten = l.forgotten
         \/ k.forgotten = NewestStop(l.forgotten, R) /\ k.gone = l.gone
  PROVE  StillCovered(l, k)
<1>1. l.gone \in Nat /\ k.gone \in Nat /\ l.forgotten \in Nat /\ k.forgotten \in Nat
  BY DEF Numbered, Links
<1>2. /\ k.gone >= l.gone /\ k.forgotten >= l.forgotten
      /\ (\E r \in R : IsStop(r)) => k.gone >= c \/ k.forgotten >= c
  BY <1>1, NewestIs
<1>3. ASSUME NEW n \in Nat, Covered(l, n) PROVE Covered(k, n)
  <2>1. CASE l.gone > n \/ l.forgotten > n
    BY <1>1, <1>2, <2>1 DEF Covered
  <2>2. ASSUME NEW r \in Waits(l), IsStop(r), r[1] > n PROVE Covered(k, n)
    <3>1. CASE r \in R
      BY <1>1, <1>2, <2>2, <3>1 DEF Covered
    <3>2. CASE r \notin R
      BY <2>2, <3>2 DEF Covered
    <3> QED
      BY <3>1, <3>2
  <2> QED
    BY <1>3, <2>1, <2>2 DEF Covered
<1> QED
  BY <1>3 DEF StillCovered

(* An abort takes requests of one number off the wire, or nothing. *)
LEMMA AbortsKeep ==
  ASSUME NEW l, Numbered(l), NEW k \in Aborts(l)
  PROVE  /\ Numbered(k) /\ Waits(k) \subseteq Waits(l)
         /\ k.control = 0 /\ k.pending = l.pending /\ k.waiting = l.waiting /\ k.sent = l.sent
         /\ k.done = l.done /\ k.gone = l.gone /\ k.forgotten = l.forgotten
         /\ k.wire \in SUBSET l.wire /\ \A r \in l.wire \ k.wire : r[1] = l.control
<1>1. PICK caught : caught = {r \in l.wire : r[1] = l.control}
  OBVIOUS
<1>2. /\ k \in Links /\ k.control = 0 /\ k.wire \in {l.wire, l.wire \ caught}
      /\ k.waiting = l.waiting /\ k.sent = l.sent /\ k.done = l.done /\ k.gone = l.gone
      /\ k.pending = l.pending /\ k.forgotten = l.forgotten
  <2>1. CASE k = [l EXCEPT !.control = 0]
    BY <2>1 DEF Numbered, Links
  <2>2. CASE k = [l EXCEPT !.control = 0, !.wire = @ \ caught]
    BY <2>2 DEF Numbered, Links
  <2> QED
    BY <1>1, <2>1, <2>2 DEF Aborts
<1>3. Waits(k) \subseteq Waits(l)
  BY <1>2 DEF Waits
<1>4. Numbered(k)
  BY <1>2, <1>3 DEF Numbered, Links
<1> QED
  BY <1>1, <1>2, <1>3, <1>4

(* setCamera() remembers the stop it aborts. *)
LEMMA SetCameraKeeps ==
  ASSUME NEW l, Numbered(l), NEW k \in SetCamera(l)
  PROVE  /\ Numbered(k) /\ StillCovered(l, k) /\ k.done = l.done
         /\ Unabortable(l) => Unabortable(k)
<1>1. PICK a \in Aborts(l) : k = [a EXCEPT !.forgotten = NewestStop(@, l.wire \ a.wire)]
  BY DEF SetCamera
<1>2. /\ Numbered(a) /\ Waits(a) \subseteq Waits(l) /\ a.waiting = l.waiting
      /\ a.control = 0 /\ a.done = l.done /\ a.gone = l.gone /\ a.forgotten = l.forgotten
      /\ a.wire \in SUBSET l.wire /\ \A r \in l.wire \ a.wire : r[1] = l.control
  BY AbortsKeep
<1>3. l.forgotten \in Nat /\ l.control \in Nat
  BY DEF Numbered, Links
<1>4. PICK f : f = NewestStop(l.forgotten, l.wire \ a.wire)
  OBVIOUS
<1>5. f \in Nat /\ f \in {l.forgotten, l.control}
  BY <1>2, <1>3, <1>4, NewestIs
<1>6. /\ k \in Links /\ k.control = 0 /\ k.wire = a.wire /\ k.waiting = a.waiting
      /\ k.sent = a.sent /\ k.done = a.done /\ k.gone = a.gone /\ k.pending = a.pending
      /\ k.forgotten = f
  BY <1>1, <1>2, <1>4, <1>5 DEF Numbered, Links
<1>7. Waits(k) = Waits(a)
  BY <1>6 DEF Waits
<1>8. Numbered(k)
  BY <1>2, <1>6, <1>7 DEF Numbered
<1>9. l.wire \ a.wire \in SUBSET Waits(l) /\ Waits(l) \ (l.wire \ a.wire) \subseteq Waits(k)
  BY <1>2, <1>6 DEF Waits
<1>10. StillCovered(l, k)
  BY <1>2, <1>3, <1>4, <1>6, <1>7, <1>8, <1>9, GoesCovered
<1>11. Unabortable(l) => Unabortable(k)
  BY <1>5, <1>6 DEF Unabortable
<1> QED
  BY <1>2, <1>6, <1>8, <1>10, <1>11

(* A request is issued: it waits, is on its way or was refused. *)
LEMMA PostsOne ==
  ASSUME NEW l, Numbered(l), NEW move \in {"start", "stop"}, NEW k \in Post(l, move)
  PROVE  /\ Numbered(k) /\ k.done = l.done
         /\ move = "stop" => \A n \in Nat : n <= l.sent => Covered(k, n)
         /\ \A r \in Waits(k) : r \in Waits(l) \/ r = <<l.sent + 1, move>>
<1>1. PICK r : r = <<l.sent + 1, move>>
  OBVIOUS
<1>2. /\ r \in Requests /\ r[1] = l.sent + 1 /\ (IsStop(r) <=> move = "stop") /\ l.sent \in Nat
      /\ l.sent + 1 \in Nat
  BY <1>1 DEF Numbered, Links, Requests, IsStop
<1>3. ASSUME NEW a, Numbered(a), a.sent = l.sent, a.done = l.done, Waits(a) \subseteq Waits(l),
             k \in Links, k.sent = l.sent + 1, k.done = l.done,
             k.control \in {a.control, l.sent + 1}, k.pending \in {a.pending, l.sent + 1},
             k.gone = a.gone,
             r \in Waits(k), \A q \in Waits(k) : q \in Waits(a) \/ q = r
      PROVE  /\ Numbered(k) /\ k.done = l.done
             /\ move = "stop" => \A n \in Nat : n <= l.sent => Covered(k, n)
             /\ \A q \in Waits(k) : q \in Waits(l) \/ q = <<l.sent + 1, move>>
  <2>1. \A q \in Waits(k) : q[1] <= l.sent + 1
    <3>1. SUFFICES ASSUME NEW q \in Waits(k) PROVE q[1] <= l.sent + 1
      OBVIOUS
    <3>2. CASE q = r
      BY <1>2, <3>2
    <3>3. CASE q \in Waits(a)
      <4>1. q \in Requests
        BY <1>3, <3>3 DEF Numbered, Links, Waits
      <4>2. q[1] \in Nat /\ q[1] <= l.sent
        BY <1>3, <3>3, <4>1 DEF Numbered, Requests
      <4> QED
        BY <1>2, <4>2
    <3> QED
      BY <1>3, <3>2, <3>3
  <2>2. /\ a.control \in Nat /\ a.pending \in Nat /\ a.gone \in Nat /\ a.done \in Nat
        /\ a.control <= l.sent /\ a.pending <= l.sent /\ a.gone <= l.sent /\ a.done <= l.sent
    BY <1>3 DEF Numbered, Links
  <2>3. k.control <= k.sent /\ k.pending <= k.sent /\ k.gone <= k.sent /\ k.done <= k.sent
    BY <1>2, <1>3, <2>2
  <2>4. Numbered(k)
    BY <1>3, <2>1, <2>3 DEF Numbered
  <2>5. ASSUME move = "stop", NEW n \in Nat, n <= l.sent PROVE Covered(k, n)
    BY <1>2, <1>3, <2>5 DEF Covered
  <2> QED
    BY <1>1, <1>3, <2>4, <2>5
<1>4. CASE transport # "server"
  <2>1. PICK a \in Aborts(l) :
          k = [a EXCEPT !.control = l.sent + 1, !.sent = @ + 1, !.wire = @ \cup {r}]
    <3>1. k \in SendControl(l, move)
      BY <1>4 DEF Post
    <3> QED
      BY <1>1, <3>1, Zenon DEF SendControl
  <2>2. Numbered(a) /\ Waits(a) \subseteq Waits(l) /\ a.sent = l.sent /\ a.done = l.done
    BY AbortsKeep
  <2>3. a.wire \cup {r} \in SUBSET Requests
    BY <1>2, <2>2 DEF Numbered, Links
  <2>4. /\ k \in Links /\ k.sent = l.sent + 1 /\ k.done = a.done /\ k.control = l.sent + 1
        /\ k.pending = a.pending /\ k.gone = a.gone /\ k.wire = a.wire \cup {r}
        /\ k.waiting = a.waiting
    BY <1>2, <2>1, <2>2, <2>3 DEF Numbered, Links
  <2>5. r \in Waits(k) /\ \A q \in Waits(k) : q \in Waits(a) \/ q = r
    BY <2>4 DEF Waits
  <2> QED
    BY <1>3, <2>2, <2>4, <2>5
<1>5. CASE transport = "server"
  <2>1. PICK m : m = [l EXCEPT !.sent = @ + 1]
    OBVIOUS
  <2>2. /\ m \in Links /\ m.sent = l.sent + 1 /\ m.done = l.done /\ m.control = l.control
        /\ m.pending = l.pending /\ m.gone = l.gone /\ m.wire = l.wire /\ m.waiting = l.waiting
    BY <1>2, <2>1 DEF Numbered, Links
  <2>3. CASE k = [m EXCEPT !.gone = NewestStop(@, {r})]
    <3>1. PICK g : g = NewestStop(l.gone, {r})
      OBVIOUS
    <3>2. l.gone \in Nat /\ l.gone <= l.sent
      BY DEF Numbered, Links
    <3>3. g \in Nat /\ g <= l.sent + 1 /\ (IsStop(r) => g >= l.sent + 1)
      BY <1>2, <3>1, <3>2, NewestIs
    <3>4. /\ k \in Links /\ k.sent = l.sent + 1 /\ k.done = l.done /\ k.control = l.control
          /\ k.pending = l.pending /\ k.gone = g /\ k.wire = l.wire /\ k.waiting = l.waiting
      BY <2>2, <2>3, <3>1, <3>3 DEF Links
    <3>5. Waits(k) = Waits(l)
      BY <3>4 DEF Waits
    <3>6. /\ l.control \in Nat /\ l.pending \in Nat /\ l.done \in Nat
          /\ l.control <= l.sent /\ l.pending <= l.sent /\ l.done <= l.sent
      BY DEF Numbered, Links
    <3>7. \A q \in Waits(k) : q[1] <= l.sent + 1
      <4>1. SUFFICES ASSUME NEW q \in Waits(l) PROVE q[1] <= l.sent + 1
        BY <3>5
      <4>2. q \in Requests
        BY DEF Numbered, Links, Waits
      <4>3. q[1] \in Nat /\ q[1] <= l.sent
        BY <4>2 DEF Numbered, Requests
      <4> QED
        BY <1>2, <4>3
    <3>8. k.control <= k.sent /\ k.pending <= k.sent /\ k.gone <= k.sent /\ k.done <= k.sent
      BY <1>2, <3>3, <3>4, <3>6
    <3>9. Numbered(k)
      BY <3>4, <3>7, <3>8 DEF Numbered
    <3>10. ASSUME move = "stop", NEW n \in Nat, n <= l.sent PROVE Covered(k, n)
      BY <1>2, <3>3, <3>4, <3>10 DEF Covered
    <3> QED
      BY <3>4, <3>5, <3>9, <3>10
  <2>4. CASE l.waiting = <<>> /\ k = [m EXCEPT !.pending = r[1], !.wire = @ \cup {r}]
    <3>1. m.wire \cup {r} \in SUBSET Requests
      BY <1>2, <2>2 DEF Links
    <3>2. /\ k \in Links /\ k.sent = l.sent + 1 /\ k.done = l.done /\ k.control = l.control
          /\ k.pending = l.sent + 1 /\ k.gone = l.gone /\ k.wire = l.wire \cup {r}
          /\ k.waiting = l.waiting
      BY <1>2, <2>2, <2>4, <3>1 DEF Links
    <3>3. r \in Waits(k) /\ \A q \in Waits(k) : q \in Waits(l) \/ q = r
      BY <3>2 DEF Waits
    <3> QED
      BY <1>3, <3>2, <3>3
  <2>5. CASE k = [m EXCEPT !.waiting = <<r>>]
    <3>1. /\ k \in Links /\ k.sent = l.sent + 1 /\ k.done = l.done /\ k.control = l.control
          /\ k.pending = l.pending /\ k.gone = l.gone /\ k.wire = l.wire
          /\ k.waiting = <<r>>
      BY <1>2, <2>2, <2>5 DEF Links
    <3>2. r \in Waits(k) /\ \A q \in Waits(k) : q \in Waits(l) \/ q = r
      <4>1. {k.waiting[i] : i \in DOMAIN k.waiting} = {r}
        BY <3>1
      <4> QED
        BY <3>1, <4>1 DEF Waits
    <3> QED
      BY <1>3, <3>1, <3>2
  <2> QED
    BY <1>1, <1>5, <2>1, <2>3, <2>4, <2>5 DEF Post, Forward, Replaced
<1> QED
  BY <1>4, <1>5

(* A request arrives or is lost. *)
LEMMA LinkAfterKeeps ==
  ASSUME Numbered(link), NEW r \in link.wire, NEW arrives \in BOOLEAN,
         NEW k, k = LinkAfter(r, arrives)
  PROVE  /\ Numbered(k) /\ StillCovered(link, k) /\ k.sent = link.sent
         /\ k.done = IF arrives THEN r[1] ELSE link.done
<1>1. r \in Requests /\ r \in Waits(link) /\ r[1] \in Nat /\ r[1] <= link.sent
  BY DEF Numbered, Links, Waits, Requests
<1>2. link.gone \in Nat /\ link.gone <= link.sent /\ link.done \in Nat /\ link.done <= link.sent
  BY DEF Numbered, Links
<1>3. PICK g : g = NewestStop(link.gone, {r})
  OBVIOUS
<1>4. g \in Nat /\ g <= link.sent
  BY <1>1, <1>2, <1>3, NewestIs
<1>5. PICK d : d = IF arrives THEN r[1] ELSE link.done
  OBVIOUS
<1>6. k = [link EXCEPT !.wire = @ \ {r}, !.done = d, !.gone = g]
  BY <1>3, <1>5 DEF LinkAfter
<1>7. /\ k \in Links /\ k.control = link.control /\ k.wire = link.wire \ {r}
      /\ k.waiting = link.waiting /\ k.sent = link.sent /\ k.done = d /\ k.gone = g
      /\ k.pending = link.pending /\ k.forgotten = link.forgotten
  BY <1>1, <1>2, <1>4, <1>5, <1>6 DEF Numbered, Links
<1>8. Waits(link) \ {r} \subseteq Waits(k) /\ Waits(k) \subseteq Waits(link)
  BY <1>7 DEF Waits
<1>9. Numbered(k)
  BY <1>1, <1>2, <1>4, <1>5, <1>7, <1>8 DEF Numbered
<1>10. StillCovered(link, k)
  BY <1>1, <1>3, <1>7, <1>8, <1>9, GoesCovered
<1> QED
  BY <1>5, <1>7, <1>9, <1>10

(* stopMove(): afterwards every move before it is covered. *)
LEMMA StopMoveCovers ==
  ASSUME NEW l, Numbered(l), moveActive => ready, NEW k \in StopMove(l)
  PROVE  /\ Numbered(k) /\ k.done = l.done
         /\ moveActive => \A n \in Nat : n <= l.sent => Covered(k, n)
         /\ ~moveActive => k = l
         /\ \A r \in Waits(k) : r \in Waits(l) \/ IsStop(r)
<1>1. CASE moveActive
  <2>1. k \in Post(l, "stop") /\ "stop" \in {"start", "stop"}
    BY <1>1 DEF StopMove
  <2>2. /\ Numbered(k) /\ k.done = l.done
        /\ \A n \in Nat : n <= l.sent => Covered(k, n)
        /\ \A r \in Waits(k) : r \in Waits(l) \/ r = <<l.sent + 1, "stop">>
    BY <2>1, PostsOne
  <2>3. IsStop(<<l.sent + 1, "stop">>)
    BY DEF IsStop
  <2> QED
    BY <1>1, <2>2, <2>3
<1>2. CASE ~moveActive
  BY <1>2 DEF StopMove
<1> QED
  BY <1>1, <1>2

(* So stopMove() settles the requests, whoever held a button before. *)
LEMMA StopMoveSettles ==
  ASSUME NEW l, NEW moves \in BOOLEAN, Settled(l, moves, moveActive), moveActive => ready,
         NEW k \in StopMove(l)
  PROVE  Settled(k, moves, FALSE)
<1>1. /\ Numbered(k) /\ k.done = l.done
      /\ moveActive => \A n \in Nat : n <= l.sent => Covered(k, n)
      /\ ~moveActive => k = l
      /\ \A r \in Waits(k) : r \in Waits(l) \/ IsStop(r)
  BY StopMoveCovers DEF Settled
<1>2. CASE ~moveActive
  BY <1>1, <1>2 DEF Settled
<1>3. CASE moveActive
  <2>1. l.done \in Nat /\ l.done <= l.sent
    BY DEF Settled, Numbered, Links
  <2>2. ASSUME NEW r \in Waits(l) PROVE r[1] \in Nat /\ r[1] <= l.sent
    BY DEF Settled, Numbered, Links, Waits, Requests
  <2> QED
    BY <1>1, <1>3, <2>1, <2>2 DEF Settled
<1> QED
  BY <1>2, <1>3

(* Settled requests stay settled when some of them go. *)
LEMMA StaysSettled ==
  ASSUME NEW l, NEW moves \in BOOLEAN, NEW held \in BOOLEAN, Settled(l, moves, held),
         NEW k, Numbered(k), StillCovered(l, k), k.done = l.done
  PROVE  Settled(k, moves, held)
<1>1. l.done \in Nat
  BY DEF Settled, Numbered, Links
<1>2. \A r \in Waits(l) : r[1] \in Nat
  BY DEF Settled, Numbered, Links, Waits, Requests
<1> QED
  BY <1>1, <1>2 DEF Settled, StillCovered

(* The client forgets which request it waits for. *)
LEMMA ForgetsKeep ==
  ASSUME NEW l, Numbered(l),
         NEW k, k \in {[l EXCEPT !.control = 0], [l EXCEPT !.pending = 0]}
  PROVE  Numbered(k) /\ StillCovered(l, k) /\ k.done = l.done
<1>1. /\ k \in Links /\ k.wire = l.wire /\ k.waiting = l.waiting /\ k.sent = l.sent
      /\ k.done = l.done /\ k.gone = l.gone /\ k.forgotten = l.forgotten
      /\ k.control \in {0, l.control} /\ k.pending \in {0, l.pending}
  BY DEF Numbered, Links
<1>2. Waits(k) = Waits(l)
  BY <1>1 DEF Waits
<1>3. Numbered(k)
  BY <1>1, <1>2 DEF Numbered, Links
<1> QED
  BY <1>1, <1>2, <1>3 DEF StillCovered, Covered

(* What an arrival or a loss does: the camera obeys what arrives. *)
LEMMA AnswerSettles ==
  ASSUME PtzInv, NEW r \in link.wire, NEW arrives \in BOOLEAN
  PROVE  /\ Settled(LinkAfter(r, arrives), CameraAfter(r, arrives), moveActive)
         /\ CameraAfter(r, arrives) \in BOOLEAN
<1>1. PICK k, m : k = LinkAfter(r, arrives) /\ m = CameraAfter(r, arrives)
  OBVIOUS
<1>2. /\ Numbered(k) /\ StillCovered(link, k)
      /\ k.done = IF arrives THEN r[1] ELSE link.done
  BY <1>1, LinkAfterKeeps DEF PtzInv, Settled
<1>3. m = (IF arrives THEN ~IsStop(r) ELSE moving) /\ m \in BOOLEAN
  BY <1>1 DEF CameraAfter, PtzInv, IsStop
<1>4. r \in Waits(link) /\ \A q \in Waits(link) : q[1] \in Nat
  BY DEF PtzInv, Settled, Numbered, Links, Waits, Requests
<1>5. link.done \in Nat /\ Settled(link, moving, moveActive)
  BY DEF PtzInv, Settled, Numbered, Links
<1>6. \A q \in Waits(k) : ~IsStop(q) => moveActive \/ Covered(k, q[1])
  BY <1>2, <1>4, <1>5 DEF Settled, StillCovered
<1>7. m => moveActive \/ Covered(k, k.done)
  <2>1. CASE arrives
    BY <1>2, <1>3, <1>4, <1>5, <2>1 DEF Settled, StillCovered
  <2>2. CASE ~arrives
    BY <1>2, <1>3, <1>5, <2>2 DEF Settled, StillCovered
  <2> QED
    BY <2>1, <2>2
<1> QED
  BY <1>1, <1>2, <1>3, <1>6, <1>7 DEF Settled

(* What goes through the server leaves no reply to be aborted. *)
LEMMA PostsUnabortable ==
  ASSUME NEW l, Numbered(l), Unabortable(l), NEW move \in {"start", "stop"}, NEW k \in Post(l, move)
  PROVE  Unabortable(k)
<1>1. CASE transport = "server"
  <2>1. k \in Forward(l, move)
    BY <1>1 DEF Post
  <2>2. k.control = l.control /\ k.forgotten = l.forgotten
    BY <2>1 DEF Forward, Replaced, Numbered, Links
  <2> QED
    BY <2>2 DEF Unabortable
<1> QED
  BY <1>1 DEF Unabortable

LEMMA StopMoveUnabortable ==
  ASSUME NEW l, Numbered(l), Unabortable(l), NEW k \in StopMove(l)
  PROVE  Unabortable(k)
BY PostsUnabortable DEF StopMove

LEMMA UnabortableKept ==
  ASSUME PtzInv, [PtzNext]_ptzVars
  PROVE  transport' \in {"direct", "server"} /\ Unabortable(link)'
<1>0. Numbered(link) /\ Unabortable(link) /\ link \in Links /\ (moveActive => ready)
  BY DEF PtzInv, Settled, Numbered
<1>1. transport' = transport
  BY DEF PtzNext, Press, Release, StopButton, SelectCamera, ProbeFinished, DirectAnswer, ServerAnswer,
         ServerTimeout, DispatchNext, ServerLost, ptzVars
<1>2. SUFFICES Unabortable(link')
  BY <1>1 DEF Unabortable, PtzInv
<1>3. CASE UNCHANGED link
  BY <1>0, <1>3
<1>4. CASE Press
  <2>1. PICK l \in StopMove(link) : link' \in Post(l, "start")
    BY <1>4 DEF Press
  <2> QED
    BY <1>0, <2>1, StopMoveCovers, StopMoveUnabortable, PostsUnabortable
<1>5. CASE Release \/ StopButton
  BY <1>0, <1>5, StopMoveUnabortable DEF Release, StopButton
<1>6. ASSUME NEW dome \in BOOLEAN, SelectCamera(dome) PROVE Unabortable(link')
  <2>1. PICK l : l \in StopMove(link) \cup {link} /\ link' \in SetCamera(l)
    BY <1>6 DEF SelectCamera, StoppedByDisabling
  <2>2. Numbered(l) /\ Unabortable(l)
    BY <1>0, <2>1, StopMoveCovers, StopMoveUnabortable
  <2> QED
    BY <2>1, <2>2, SetCameraKeeps
<1>7. CASE transport # "server"
  BY <1>7 DEF Unabortable
<1>8. ASSUME NEW r \in link.wire, NEW arrives \in BOOLEAN, ServerAnswer(r, arrives)
      PROVE  Unabortable(link')
  <2>1. PICK k : k = LinkAfter(r, arrives)
    OBVIOUS
  <2>2. k.control = link.control /\ k.forgotten = link.forgotten /\ DOMAIN k = DOMAIN link
    BY <1>0, <2>1 DEF LinkAfter, Links
  <2>3. link'.control = link.control /\ link'.forgotten = link.forgotten
    BY <1>8, <2>1, <2>2 DEF ServerAnswer
  <2> QED
    BY <1>0, <2>3 DEF Unabortable
<1>9. CASE ServerTimeout \/ DispatchNext \/ ServerLost
  <2>1. link'.control = link.control /\ link'.forgotten = link.forgotten
    BY <1>0, <1>9 DEF ServerTimeout, DispatchNext, ServerLost, Links
  <2> QED
    BY <1>0, <2>1 DEF Unabortable
<1>10. ASSUME NEW supported \in BOOLEAN, ProbeFinished(supported) PROVE UNCHANGED link
  BY <1>10 DEF ProbeFinished
<1>11. ASSUME NEW r, NEW arrives, NEW ok, DirectAnswer(r, arrives, ok) PROVE transport # "server"
  BY <1>11 DEF DirectAnswer
<1> QED
  BY <1>3, <1>4, <1>5, <1>6, <1>7, <1>8, <1>9, <1>10, <1>11 DEF PtzNext, ptzVars

LEMMA PtzKept == ASSUME PtzInv, [PtzNext]_ptzVars PROVE PtzInv'
<1>0. /\ Settled(link, moving, moveActive) /\ Numbered(link) /\ moving \in BOOLEAN
      /\ moveActive \in BOOLEAN /\ (moveActive => pressed /\ ready /\ enabled)
      /\ (probing => ~ready /\ ~enabled)
  BY DEF PtzInv, Settled
<1>u. transport' \in {"direct", "server"} /\ Unabortable(link)'
  BY UnabortableKept
<1>1. CASE UNCHANGED ptzVars
  BY <1>u, <1>1 DEF PtzInv, Settled, ptzVars
<1>2. CASE Press
  <2>1. PICK l \in StopMove(link) : link' \in Post(l, "start")
    BY <1>2 DEF Press
  <2>2. Numbered(l)
    BY <1>0, StopMoveCovers
  <2>3. Numbered(link')
    BY <2>1, <2>2, PostsOne
  <2> QED
    BY <1>u, <1>0, <1>2, <2>3 DEF PtzInv, Press, Settled
<1>3. ASSUME link' \in StopMove(link), moving' = moving, moveActive' = FALSE,
             UNCHANGED <<probing, ready, enabled>>
      PROVE  PtzInv'
  BY <1>u, <1>0, <1>3, StopMoveSettles DEF PtzInv
<1>4. CASE Release \/ StopButton
  BY <1>3, <1>4 DEF Release, StopButton
<1>5. ASSUME NEW l, NEW k \in StoppedByDisabling(l) PROVE k \in StopMove(l)
  BY <1>0, <1>5 DEF StoppedByDisabling, StopMove
<1>6. ASSUME NEW dome \in BOOLEAN, SelectCamera(dome) PROVE PtzInv'
  <2>1. PICK l \in StopMove(link) : link' \in SetCamera(l)
    BY <1>5, <1>6 DEF SelectCamera
  <2>2. Settled(l, moving, FALSE)
    BY <1>0, StopMoveSettles
  <2>3. Settled(link', moving, FALSE)
    BY <1>0, <2>1, <2>2, SetCameraKeeps, StaysSettled DEF Settled
  <2> QED
    BY <1>u, <1>0, <1>6, <2>3 DEF PtzInv, SelectCamera
<1>7. ASSUME NEW supported \in BOOLEAN, ProbeFinished(supported) PROVE PtzInv'
  BY <1>u, <1>0, <1>7 DEF PtzInv, ProbeFinished
<1>8. ASSUME NEW r \in link.wire, NEW arrives \in BOOLEAN, NEW ok \in BOOLEAN,
             DirectAnswer(r, arrives, ok)
      PROVE  PtzInv'
  <2>1. PICK k : k = LinkAfter(r, arrives)
    OBVIOUS
  <2>2. moving' = CameraAfter(r, arrives) /\ Settled(k, moving', moveActive) /\ moving' \in BOOLEAN
    BY <1>8, <2>1, AnswerSettles DEF DirectAnswer
  <2>3. UNCHANGED <<probing, ready, pressed>>
    BY <1>8 DEF DirectAnswer
  <2>4. CASE r[1] # link.control
    BY <1>u, <1>0, <1>8, <2>1, <2>2, <2>3, <2>4 DEF DirectAnswer, PtzInv
  <2>5. PICK c : c = [k EXCEPT !.control = 0]
    OBVIOUS
  <2>6. Settled(c, moving', moveActive)
    BY <1>0, <2>2, <2>5, ForgetsKeep, StaysSettled DEF Settled
  <2>7. CASE r[1] = link.control /\ ok
    <3>1. link' = c /\ UNCHANGED <<moveActive, enabled>>
      BY <1>8, <2>1, <2>5, <2>7 DEF DirectAnswer
    <3> QED
      BY <1>u, <1>0, <2>2, <2>3, <2>6, <3>1 DEF PtzInv
  <2>8. CASE r[1] = link.control /\ ~ok
    <3>1. link' \in StoppedByDisabling(c) /\ moveActive' = FALSE /\ enabled' = FALSE
      BY <1>8, <2>1, <2>5, <2>8 DEF DirectAnswer
    <3>2. Settled(link', moving', FALSE)
      BY <1>0, <1>5, <2>2, <2>6, <3>1, StopMoveSettles
    <3> QED
      BY <1>u, <1>0, <2>2, <2>3, <3>1, <3>2 DEF PtzInv
  <2> QED
    BY <2>4, <2>7, <2>8
<1>9. ASSUME NEW r \in link.wire, NEW arrives \in BOOLEAN, ServerAnswer(r, arrives) PROVE PtzInv'
  <2>1. PICK k : k = LinkAfter(r, arrives)
    OBVIOUS
  <2>2. moving' = CameraAfter(r, arrives) /\ Settled(k, moving', moveActive) /\ moving' \in BOOLEAN
    BY <1>9, <2>1, AnswerSettles DEF ServerAnswer
  <2>3. link' \in {k, [k EXCEPT !.pending = 0]}
        /\ UNCHANGED <<probing, ready, pressed, moveActive, enabled>>
    BY <1>9, <2>1 DEF ServerAnswer
  <2>4. Settled(link', moving', moveActive)
    BY <1>0, <2>2, <2>3, ForgetsKeep, StaysSettled DEF Settled
  <2> QED
    BY <1>u, <1>0, <2>2, <2>3, <2>4 DEF PtzInv
<1>10. ASSUME Numbered(link'), StillCovered(link, link'), link'.done = link.done,
              UNCHANGED <<probing, ready, pressed, moveActive, enabled, moving>>
       PROVE  PtzInv'
  <2>1. Settled(link', moving, moveActive)
    BY <1>0, <1>10, StaysSettled
  <2> QED
    BY <1>u, <1>0, <1>10, <2>1 DEF PtzInv
<1>11. CASE ServerTimeout
  BY <1>0, <1>10, <1>11, ForgetsKeep DEF ServerTimeout
<1>12. ASSUME link.waiting # <<>>
       PROVE  \E r \in Requests : /\ link.waiting = <<r>> /\ r[1] \in Nat /\ r[1] <= link.sent
                                  /\ Waits(link) = link.wire \cup {r}
  <2>1. PICK r \in Requests : link.waiting = <<r>>
    BY <1>0, <1>12 DEF Numbered, Links
  <2>2. {link.waiting[i] : i \in DOMAIN link.waiting} = {r}
    BY <2>1
  <2> QED
    BY <1>0, <2>1, <2>2 DEF Waits, Numbered, Requests
<1>13. CASE DispatchNext
  <2>1. PICK r \in Requests : /\ link.waiting = <<r>> /\ r[1] \in Nat /\ r[1] <= link.sent
                              /\ Waits(link) = link.wire \cup {r}
    BY <1>12, <1>13 DEF DispatchNext
  <2>2. link' = [link EXCEPT !.pending = r[1], !.waiting = <<>>, !.wire = @ \cup {r}]
    BY <1>13, <2>1 DEF DispatchNext
  <2>3. link.wire \cup {r} \in SUBSET Requests
    BY <1>0 DEF Numbered, Links
  <2>4. /\ link' \in Links /\ link'.wire = link.wire \cup {r} /\ link'.waiting = <<>>
        /\ link'.sent = link.sent /\ link'.done = link.done /\ link'.gone = link.gone
        /\ link'.control = link.control /\ link'.pending = r[1]
        /\ link'.forgotten = link.forgotten
    BY <1>0, <2>1, <2>2, <2>3 DEF Numbered, Links
  <2>5. Waits(link') = Waits(link)
    BY <2>1, <2>4 DEF Waits
  <2>6. Numbered(link') /\ StillCovered(link, link')
    BY <1>0, <2>1, <2>4, <2>5 DEF Numbered, StillCovered, Covered
  <2> QED
    BY <1>10, <1>13, <2>4, <2>6 DEF DispatchNext
<1>14. CASE ServerLost
  <2>1. PICK r \in Requests : /\ link.waiting = <<r>> /\ r[1] \in Nat /\ r[1] <= link.sent
                              /\ Waits(link) = link.wire \cup {r}
    BY <1>12, <1>14 DEF ServerLost
  <2>2. PICK g : g = NewestStop(link.gone, {r})
    OBVIOUS
  <2>3. link.gone \in Nat /\ link.gone <= link.sent /\ link.sent \in Nat
    BY <1>0 DEF Numbered, Links
  <2>4. g \in Nat /\ g <= link.sent
    BY <2>1, <2>2, <2>3, NewestIs
  <2>5. link' = [link EXCEPT !.pending = 0, !.waiting = <<>>, !.gone = g]
    BY <1>14, <2>1, <2>2 DEF ServerLost
  <2>6. /\ link' \in Links /\ link'.wire = link.wire /\ link'.waiting = <<>>
        /\ link'.sent = link.sent /\ link'.done = link.done /\ link'.gone = g
        /\ link'.control = link.control /\ link'.pending = 0
        /\ link'.forgotten = link.forgotten
    BY <1>0, <2>4, <2>5 DEF Numbered, Links
  <2>7. Waits(link') = link.wire
    BY <2>6 DEF Waits
  <2>8. Numbered(link')
    BY <1>0, <2>1, <2>3, <2>4, <2>6, <2>7 DEF Numbered
  <2>9. StillCovered(link, link')
    BY <1>0, <2>1, <2>2, <2>6, <2>7, <2>8, GoesCovered
  <2> QED
    BY <1>10, <1>14, <2>6, <2>8, <2>9 DEF ServerLost
<1> QED
  BY <1>1, <1>2, <1>4, <1>6, <1>7, <1>8, <1>9, <1>11, <1>13, <1>14 DEF PtzNext

(* A camera that moves is moved by somebody, or a stop was issued after the *)
(* start that it obeys, which is on its way or lost: a failed start, a      *)
(* replaced request and a second press leave it a stop, and so does choosing*)
(* another camera of one that is controlled through the server.  The stop of*)
(* one that is controlled directly may have been aborted by choosing another*)
(* camera, and by nothing else (PtzClient.cpp).                             *)
THEOREM CameraIsStopped == PtzSpec => []StopFollowsMove
<1>1. ASSUME PtzInit PROVE PtzInv
  <2>1. link = LinkInit /\ ~moving /\ ~moveActive /\ ~probing
    BY <1>1, Zenon DEF PtzInit
  <2>2. moving \in BOOLEAN /\ moveActive \in BOOLEAN
    BY <1>1, Zenon DEF PtzInit
  <2>3. link \in Links /\ Waits(link) = {} /\ Numbered(link)
    BY <2>1 DEF LinkInit, Links, Waits, Numbered
  <2>4. Unabortable(link)
    BY <2>1 DEF LinkInit, Unabortable
  <2> QED
    BY <1>1, <2>1, <2>2, <2>3, <2>4 DEF PtzInv, Settled, PtzInit
<1>2. PtzInv => StopFollowsMove
  <2>1. SUFFICES ASSUME PtzInv, moving PROVE StopFollowsMove
    BY DEF StopFollowsMove
  <2>2. transport \in {"direct", "server"} /\ link.done \in Nat
    BY <2>1 DEF PtzInv, Settled, Numbered, Links
  <2> QED
    BY <2>1, <2>2 DEF PtzInv, Settled, Covered, Waits, StopFollowsMove, Unabortable
<1> QED
  BY <1>1, <1>2, PtzKept, PTL DEF PtzSpec

-------------------------------------------------------------------------------
(* MainWindow.  The belief about the button needs the answer that is not    *)
(* handled yet: until a request is given up the server carries out the      *)
(* first one only, once, and what it has answered tells by how much it is   *)
(* ahead of the window.                                                     *)

(* The test picture, if that is what the login has streamed. *)
TestPictures ==
  IF useServerStream /\ ~Recordable(LoginUrl(cameras, streamUrl)) THEN {MockUrl} ELSE {}

(* A stream that the window may believe in. *)
Streams(stream, pictures) == Recordable(stream) \/ stream \in pictures

(* A request for a stream gives one, one for a recording has one. *)
Sane(r, stream, pictures) ==
  /\ r.kind = "streamStart" => Streams(Opened(r.camera), pictures)
  /\ r.kind = "recordStart" => Streams(stream, pictures)
Queued(q, stream, pictures) == \E S : q \in Seq(S) /\ \A r \in S : Sane(r, stream, pictures)

IsWindow(w) ==
  w \in [starting: BOOLEAN, active: BOOLEAN, recordPending: {w.recordPending},
         pendingPlayback: BOOLEAN, recording: BOOLEAN]
IsServer(s) == s \in [stream: {s.stream}, recording: {s.recording}]

(* The server has carried out the first request, of this kind. *)
Done(kind) == answer # <<>> /\ answer[1].ok /\ requests[1].kind = kind

InStep ==
  /\ overdue = {}
  /\ Done("recordStart") => server.recording # <<>>
  /\ Done("recordStop") => server.recording = <<>>
  /\ ~Done("recordStart") /\ ~Done("recordStop") => (window.recording <=> server.recording # <<>>)

NotYet ==
  /\ window = WindowInit /\ server = ServerInit
  /\ requests = <<>> /\ answer = <<>> /\ overdue = {} /\ ~loggedIn

WindowInv ==
  /\ IsWindow(window) /\ IsServer(server)
  /\ window.active => Streams(server.stream, TestPictures)
  /\ Queued(requests, server.stream, TestPictures)
  /\ answer # <<>> => requests # <<>>
  /\ Done("streamStart") => Streams(server.stream, TestPictures)
  /\ \A r \in overdue : r.kind = "streamStart" => Streams(Opened(r.camera), TestPictures)
  /\ useServerStream \in BOOLEAN /\ cameras \in CameraConfigs
  /\ page = "login" => NotYet
  /\ loggedIn /\ ~gaveUp => InStep

LEMMA TestPicturesKept == ASSUME UNCHANGED settings PROVE UNCHANGED <<useServerStream, cameras, TestPictures>>
BY DEF settings, TestPictures

(* What the error of a request and the loss of the stream do to the flags. *)
LEMMA FlagsKept ==
  ASSUME NEW w, IsWindow(w)
  PROVE  /\ IsWindow(ShowRequestError(w)) /\ IsWindow(StreamLost(w)) /\ ~StreamLost(w).active
         /\ ShowRequestError(w).active = w.active /\ ShowRequestError(w).recording = w.recording
<1>1. /\ w.starting \in BOOLEAN /\ w.active \in BOOLEAN /\ w.pendingPlayback \in BOOLEAN
      /\ w.recording \in BOOLEAN
  BY DEF IsWindow
<1>2. PICK e : e = [w EXCEPT !.pendingPlayback = FALSE, !.recordPending = <<>>, !.starting = FALSE]
  OBVIOUS
<1>3. IsWindow(e) /\ e.active = w.active /\ e.recording = w.recording
  BY <1>1, <1>2 DEF IsWindow
<1>4. PICK l : l = [w EXCEPT !.active = FALSE, !.starting = FALSE, !.recordPending = <<>>]
  OBVIOUS
<1>5. IsWindow(l) /\ ~l.active
  BY <1>1, <1>4 DEF IsWindow
<1> QED
  BY <1>2, <1>3, <1>4, <1>5 DEF ShowRequestError, StreamLost

LEMMA QueuedAppend ==
  ASSUME NEW q, NEW stream, NEW pictures, Queued(q, stream, pictures), NEW r, Sane(r, stream, pictures)
  PROVE  Queued(Append(q, r), stream, pictures) /\ Append(q, r) # <<>>
         /\ (q # <<>> => Append(q, r)[1] = q[1])
<1>1. PICK S : q \in Seq(S) /\ \A x \in S : Sane(x, stream, pictures)
  BY DEF Queued
<1>2. /\ q \in Seq(S \cup {r})
      /\ Append(q, r) \in Seq(S \cup {r})
      /\ \A x \in S \cup {r} : Sane(x, stream, pictures)
  BY <1>1
<1>3. Queued(Append(q, r), stream, pictures)
  BY <1>2 DEF Queued
<1>4. Append(q, r) # <<>> /\ (q # <<>> => Append(q, r)[1] = q[1])
  BY <1>1
<1> QED
  BY <1>3, <1>4

LEMMA QueuedTail ==
  ASSUME NEW q, NEW stream, NEW pictures, Queued(q, stream, pictures), q # <<>>
  PROVE  Queued(Tail(q), stream, pictures) /\ Sane(q[1], stream, pictures)
<1>1. PICK S : q \in Seq(S) /\ \A x \in S : Sane(x, stream, pictures)
  BY DEF Queued
<1>2. Tail(q) \in Seq(S) /\ q[1] \in S
  BY <1>1
<1> QED
  BY <1>1, <1>2 DEF Queued

(* The window asks for more; what is in progress stays in progress. *)
LEMMA MoreAsked ==
  ASSUME WindowInv, page # "login", page' # "login", IsWindow(window'),
         window'.active = window.active, window'.recording = window.recording,
         Queued(requests', server.stream, TestPictures),
         requests # <<>> => requests' # <<>> /\ requests'[1] = requests[1],
         UNCHANGED <<useServerStream, cameras, TestPictures, loggedIn, answer, overdue, server, gaveUp>>
  PROVE  WindowInv'
<1>1. ASSUME NEW kind PROVE Done(kind)' <=> Done(kind)
  BY DEF Done, WindowInv
<1>2. Done("streamStart")' <=> Done("streamStart")
  BY <1>1
<1>3. (Done("recordStart")' <=> Done("recordStart")) /\ (Done("recordStop")' <=> Done("recordStop"))
  BY <1>1
<1>4. InStep => InStep'
  BY <1>3 DEF InStep
<1> QED
  BY <1>2, <1>4 DEF WindowInv

LEMMA IssueKept ==
  ASSUME WindowInv, page # "login", page' # "login", NEW r, Sane(r, server.stream, TestPictures),
         NEW w, IsWindow(w), w.active = window.active, w.recording = window.recording,
         Issue(requests, r, w),
         UNCHANGED <<useServerStream, cameras, TestPictures, loggedIn, answer, overdue, server, gaveUp>>
  PROVE  WindowInv'
<1>1. CASE loggedIn
  <2>1. requests' = Append(requests, r) /\ window' = w
    BY <1>1 DEF Issue
  <2>2. Queued(requests', server.stream, TestPictures) /\ requests' # <<>>
        /\ (requests # <<>> => requests'[1] = requests[1])
    BY <2>1, QueuedAppend DEF WindowInv
  <2> QED
    BY <2>1, <2>2, MoreAsked
<1>2. CASE ~loggedIn
  <2>1. requests' = requests /\ window' = ShowRequestError(w)
    BY <1>2 DEF Issue
  <2>2. IsWindow(window') /\ window'.active = window.active
    BY <2>1, FlagsKept
  <2> QED
    BY <1>2, <2>1, <2>2 DEF WindowInv, Done
<1> QED
  BY <1>1, <1>2

(* A step of the window alone. *)
LEMMA WindowOnly ==
  ASSUME WindowInv, page' = page \/ (page # "login" /\ page' # "login"), IsWindow(window'),
         window'.active = window.active, window'.recording = window.recording,
         page = "login" => window' = window,
         UNCHANGED <<useServerStream, cameras, TestPictures, requests, loggedIn,
                      answer, overdue, server, gaveUp>>
  PROVE  WindowInv'
BY DEF WindowInv, Done, InStep, NotYet

(* The answer to the first request is handled, or its failure. *)
LEMMA FirstHandled ==
  ASSUME WindowInv, page # "login", page' # "login", requests # <<>>,
         answer' = <<>>, requests' = Tail(requests),
         IsWindow(window'), window'.active => Streams(server.stream, TestPictures),
         loggedIn /\ ~gaveUp /\ InStep => (window'.recording <=> server.recording # <<>>),
         UNCHANGED <<useServerStream, cameras, TestPictures, loggedIn, overdue, server, gaveUp>>
  PROVE  WindowInv'
<1>1. Queued(requests', server.stream, TestPictures)
  BY QueuedTail DEF WindowInv
<1> QED
  BY <1>1 DEF WindowInv, Done, InStep

(* A sequence over sane requests is a sane queue. *)
LEMMA QueuedFrom ==
  ASSUME NEW S, NEW q \in Seq(S), NEW stream, NEW pictures, \A r \in S : Sane(r, stream, pictures)
  PROVE  Queued(q, stream, pictures)
BY DEF Queued

(* The steps.  The login is handled once, on the page nobody returns to. *)
LEMMA ShowDataPageKept ==
  ASSUME WindowInv, ShowDataPage
  PROVE  WindowInv'
<1>1. /\ window = WindowInit /\ server = ServerInit /\ answer = <<>> /\ overdue = {}
      /\ UNCHANGED <<useServerStream, cameras, TestPictures, answer, overdue, server, gaveUp>>
       /\ loggedIn' /\ page' = "dashboard"
  BY TestPicturesKept DEF WindowInv, NotYet, ShowDataPage, ShowDashboardPage, Show
<1>2. window' = [WindowInit EXCEPT !.starting = useServerStream]
  BY <1>1 DEF ShowDataPage
<1>3. IsWindow(window) /\ ~window.active /\ ~window.recording
  BY <1>1 DEF WindowInit, WindowInv
<1>4. IsServer(server) /\ server.recording = <<>> /\ server.stream = NoUrl
  BY <1>1 DEF ServerInit, WindowInv
<1>5. useServerStream \in BOOLEAN
  BY DEF WindowInv
<1>6. window' = [window EXCEPT !.starting = useServerStream]
  BY DEF ShowDataPage
<1>7. IsWindow(window') /\ ~window'.active /\ ~window'.recording
  BY <1>3, <1>5, <1>6 DEF IsWindow
<1>8. PICK s : s = Request("streamStart", NoDevice, LoginUrl(cameras, streamUrl))
  OBVIOUS
<1>9. PICK l : l = [Request("devices", NoDevice, NoUrl) EXCEPT !.id = 2]
  OBVIOUS
<1>10. s.kind = "streamStart" /\ s.camera = LoginUrl(cameras, streamUrl)
  BY <1>8 DEF Request
<1>11. useServerStream => Streams(Opened(s.camera), TestPictures)
  BY <1>10 DEF Streams, Opened, Recordable, TestPictures
<1>12. l.kind = "devices"
  BY <1>9 DEF Request
<1>13. (useServerStream => Sane(s, server.stream, TestPictures)) /\ Sane(l, server.stream, TestPictures)
  BY <1>10, <1>11, <1>12 DEF Sane
<1>14. (useServerStream /\ requests' = <<s, l>>) \/ requests' = <<l>>
  BY <1>5, <1>8, <1>9 DEF ShowDataPage
<1>15. <<s, l>> \in Seq({s, l}) /\ <<l>> \in Seq({l})
  OBVIOUS
<1>16. Queued(requests', server.stream, TestPictures)
  <2>1. CASE useServerStream /\ requests' = <<s, l>>
    <3>1. \A x \in {s, l} : Sane(x, server.stream, TestPictures)
      BY <1>13, <2>1
    <3>2. requests' \in Seq({s, l})
      BY <1>15, <2>1
    <3> QED
      BY <3>1, <3>2, QueuedFrom
  <2>2. CASE requests' = <<l>>
    <3>1. \A x \in {l} : Sane(x, server.stream, TestPictures)
      BY <1>13
    <3>2. requests' \in Seq({l})
      BY <1>15, <2>2
    <3> QED
      BY <3>1, <3>2, QueuedFrom
  <2> QED
    BY <1>14, <2>1, <2>2
<1>17. InStep'
  BY <1>1, <1>4, <1>7 DEF InStep, Done
<1>18. ~Done("streamStart")'
  BY <1>1 DEF Done
<1> QED
  BY <1>1, <1>4, <1>7, <1>16, <1>17, <1>18 DEF WindowInv

LEMMA RecordsKept ==
  ASSUME WindowInv, page # "login", NEW device, NEW w, IsWindow(w),
         w.active = window.active, w.recording = window.recording,
         NEW timesOk \in BOOLEAN, RequestRecordsForDevice(device, w, timesOk)
  PROVE  WindowInv'
<1>1. /\ page' = "data"
      /\ UNCHANGED <<useServerStream, cameras, TestPictures, loggedIn, answer, overdue, server, gaveUp>>
  BY TestPicturesKept DEF RequestRecordsForDevice, ShowMetadataPage, Show
<1>2. CASE timesOk
  <2>1. PICK r : r = Request("records", device, NoUrl)
    OBVIOUS
  <2>2. Sane(r, server.stream, TestPictures) /\ Issue(requests, r, w)
    BY <1>2, <2>1 DEF Sane, Request, RequestRecordsForDevice
  <2> QED
    BY <1>1, <2>2, IssueKept
<1>3. CASE ~timesOk
  <2>1. window' = [w EXCEPT !.pendingPlayback = FALSE] /\ requests' = requests
    BY <1>3 DEF RequestRecordsForDevice
  <2>2. IsWindow(window') /\ window'.active = w.active /\ window'.recording = w.recording
    BY <2>1 DEF IsWindow
  <2> QED
    BY <1>1, <2>1, <2>2, WindowOnly
<1> QED
  BY <1>2, <1>3

LEMMA FirstOf ==
  ASSUME NEW T, NEW s \in Seq(T), NEW found \in SUBSET DOMAIN s, found # {}
  PROVE  \E i \in found : First(s, found) = <<s[i]>>
<1>1. found \in SUBSET Nat
  OBVIOUS
<1>2. \E i \in found : \A j \in found : i <= j
  BY <1>1, Least
<1> QED
  BY <1>2 DEF First

(* The address of a camera is one that the server can record. *)
LEMMA SelectedRecordable ==
  ASSUME cameras \in CameraConfigs
  PROVE  SelectedCameraRtspUrl = NoUrl \/ Recordable(SelectedCameraRtspUrl)
<1> DEFINE T == [type : STRING, name : STRING, url : STRING \ {NoUrl, MockUrl}, enabled : BOOLEAN]
           found == {i \in DOMAIN cameras :
                       cameras[i].enabled /\ TypeOf(selected) \in {NoType, "camera", cameras[i].type}}
<1>1. cameras \in Seq(T)
  BY MainWindowAssumption
<1>2. SelectedCameraRtspUrl = IF First(cameras, found) = <<>> THEN NoUrl ELSE First(cameras, found)[1].url
  BY DEF SelectedCameraRtspUrl, FirstRtspUrl
<1>3. found \in SUBSET DOMAIN cameras
  OBVIOUS
<1>4. CASE found = {}
  <2>1. First(cameras, found) = <<>>
    BY <1>4 DEF First
  <2> QED
    BY <1>2, <2>1
<1>5. CASE found # {}
  <2> HIDE DEF found
  <2>1. PICK i \in found : First(cameras, found) = <<cameras[i]>>
    BY <1>1, <1>3, <1>5, FirstOf
  <2>2. cameras[i] \in T
    <3> HIDE DEF T
    <3> QED
      BY <1>1, <1>3, <2>1
  <2>3. cameras[i].url \notin {NoUrl, MockUrl}
    BY <2>2
  <2>4. First(cameras, found) # <<>> /\ First(cameras, found)[1] = cameras[i]
    BY <2>1
  <2>5. cameras[i].url # NoUrl /\ cameras[i].url # MockUrl
    BY <2>3
  <2> QED
    BY <1>2, <2>4, <2>5 DEF Recordable
<1> QED
  BY <1>4, <1>5

LEMMA RecordStartKept ==
  ASSUME WindowInv, HandleRecordStart
  PROVE  WindowInv'
<1>1. /\ page = "dashboard" /\ page' = page
      /\ UNCHANGED <<useServerStream, cameras, TestPictures, loggedIn, answer, overdue, server, gaveUp>>
  BY TestPicturesKept DEF HandleRecordStart, pageVars
<1>2. PICK device : device = SelectedServerDeviceId
  OBVIOUS
<1>3. PICK url : url = SelectedCameraRtspUrl
  OBVIOUS
<1>4. CASE window.active
  <2>1. PICK r : r = Request("recordStart", device, url)
    OBVIOUS
  <2>2. Issue(requests, r, window)
    BY <1>2, <1>3, <1>4, <2>1 DEF HandleRecordStart
  <2>3. r.kind = "recordStart"
    BY <2>1 DEF Request
  <2>4. Streams(server.stream, TestPictures) /\ IsWindow(window)
    BY <1>4 DEF WindowInv
  <2>5. Sane(r, server.stream, TestPictures)
    BY <2>3, <2>4 DEF Sane
  <2> QED
    BY <1>1, <2>2, <2>4, <2>5, IssueKept
<1>5. CASE ~window.active
  <2>1. PICK r : r = Request("streamStart", NoDevice, url)
    OBVIOUS
  <2>2. PICK w : w = [window EXCEPT !.recordPending = <<device, url>>, !.starting = TRUE]
    OBVIOUS
  <2>3. url # NoUrl /\ Issue(requests, r, w)
    BY <1>2, <1>3, <1>5, <2>1, <2>2 DEF HandleRecordStart
  <2>4. r.kind = "streamStart" /\ r.camera = url
    BY <2>1 DEF Request
  <2>5. Sane(r, server.stream, TestPictures)
    BY <1>3, <2>3, <2>4, SelectedRecordable DEF Sane, Streams, Opened, WindowInv
  <2>6. IsWindow(w) /\ w.active = window.active /\ w.recording = window.recording
    BY <2>2 DEF WindowInv, IsWindow
  <2> QED
    BY <1>1, <2>3, <2>5, <2>6, IssueKept
<1> QED
  BY <1>4, <1>5

LEMMA RecordStopKept ==
  ASSUME WindowInv, HandleRecordStop
  PROVE  WindowInv'
<1>1. /\ page = "dashboard" /\ page' = page /\ IsWindow(window)
      /\ UNCHANGED <<useServerStream, cameras, TestPictures, loggedIn, answer, overdue, server, gaveUp>>
  BY TestPicturesKept DEF HandleRecordStop, pageVars, WindowInv
<1>2. PICK r : r = Request("recordStop", NoDevice, NoUrl)
  OBVIOUS
<1>3. Sane(r, server.stream, TestPictures) /\ Issue(requests, r, window)
  BY <1>2 DEF Sane, Request, HandleRecordStop
<1> QED
  BY <1>1, <1>3, IssueKept

(* Taking a PTZ request that waits out of the queue leaves the first one. *)
LEMMA WithoutPtzIs ==
  ASSUME NEW S, requests \in Seq(S)
  PROVE  /\ WithoutPtz \in Seq(S)
         /\ requests # <<>> => WithoutPtz # <<>> /\ WithoutPtz[1] = requests[1]
<1>1. PICK ptz : ptz = {i \in DOMAIN requests \ {1} : requests[i].kind \in {"ptzStart", "ptzStop"}}
  OBVIOUS
<1>2. CASE ptz = {}
  BY <1>1, <1>2 DEF WithoutPtz
<1>3. CASE ptz # {}
  <2>1. PICK place : place = CHOOSE i \in ptz : TRUE
    OBVIOUS
  <2>2. place \in ptz
    BY <1>3, <2>1
  <2>3. place \in 2 .. Len(requests) /\ Len(requests) \in Nat
    BY <1>1, <2>2
  <2>4. WithoutPtz = SubSeq(requests, 1, place - 1) \o SubSeq(requests, place + 1, Len(requests))
    BY <1>1, <1>3, <2>1 DEF WithoutPtz
  <2>5. PICK a : a = SubSeq(requests, 1, place - 1)
    OBVIOUS
  <2>6. PICK b : b = SubSeq(requests, place + 1, Len(requests))
    OBVIOUS
  <2>7. a \in Seq(S) /\ Len(a) = place - 1 /\ a[1] = requests[1]
    BY <2>3, <2>5
  <2>8. b \in Seq(S)
    BY <2>3, <2>6
  <2>9. Len(a) \in Nat /\ Len(b) \in Nat /\ Len(a) >= 1
    BY <2>3, <2>7, <2>8
  <2>10. a \o b \in Seq(S) /\ Len(a \o b) = Len(a) + Len(b)
    BY <2>7, <2>8, ConcatProperties
  <2>12. (a \o b)[1] = a[1]
    <3>1. \A i \in 1 .. Len(a) + Len(b) : (a \o b)[i] = IF i <= Len(a) THEN a[i] ELSE b[i - Len(a)]
      BY <2>7, <2>8, ConcatProperties
    <3>2. 1 \in 1 .. Len(a) + Len(b)
      BY <2>9
    <3> QED
      BY <2>9, <3>1, <3>2
  <2>11. a \o b # <<>>
    BY <2>9, <2>10
  <2> QED
    BY <2>4, <2>5, <2>6, <2>7, <2>10, <2>11, <2>12, Zenon
<1> QED
  BY <1>2, <1>3

LEMMA EnqueuedIs ==
  ASSUME NEW S, requests \in Seq(S), NEW r
  PROVE  /\ Enqueued(r) \in Seq(S \cup {r})
         /\ requests # <<>> => Enqueued(r) # <<>> /\ Enqueued(r)[1] = requests[1]
<1>1. PICK q : q = WithoutPtz
  OBVIOUS
<1>2. q \in Seq(S) /\ (requests # <<>> => q # <<>> /\ q[1] = requests[1])
  BY <1>1, WithoutPtzIs
<1>3. q \in Seq(S \cup {r}) /\ (requests # <<>> => requests[1] \in S)
  BY <1>2
<1>4. CASE r.kind = "ptzStop" /\ requests # <<>>
  <2>1. Enqueued(r) = <<requests[1], r>> \o Tail(q)
    BY <1>1, <1>4 DEF Enqueued
  <2>2. Tail(q) \in Seq(S \cup {r}) /\ <<requests[1], r>> \in Seq(S \cup {r})
    BY <1>2, <1>3, <1>4
  <2>3. PICK a : a = <<requests[1], r>>
    OBVIOUS
  <2>4. a \in Seq(S \cup {r}) /\ Len(a) = 2 /\ a[1] = requests[1]
    BY <2>2, <2>3
  <2>5. a \o Tail(q) \in Seq(S \cup {r}) /\ Len(a \o Tail(q)) >= 1 /\ (a \o Tail(q))[1] = a[1]
    <3>1. PICK T : T = S \cup {r}
      OBVIOUS
    <3>2. a \in Seq(T) /\ Tail(q) \in Seq(T) /\ 1 \in 1 .. Len(a) + Len(Tail(q)) /\ Len(Tail(q)) \in Nat
      BY <2>2, <2>4, <3>1
    <3> QED
      BY <2>4, <3>1, <3>2, ConcatProperties
  <2> QED
    BY <2>1, <2>3, <2>4, <2>5
<1>5. CASE ~(r.kind = "ptzStop" /\ requests # <<>>)
  <2>1. Enqueued(r) = Append(q, r)
    BY <1>1, <1>5 DEF Enqueued
  <2> QED
    BY <1>2, <1>3, <2>1
<1> QED
  BY <1>4, <1>5

LEMMA SendPtzKept ==
  ASSUME WindowInv, NEW kind \in {"ptzStart", "ptzStop"}, SendPtzControl(kind)
  PROVE  WindowInv'
<1>1. /\ page # "login" /\ page' = page /\ IsWindow(window)
      /\ UNCHANGED <<useServerStream, cameras, TestPictures, loggedIn, answer, overdue, server, gaveUp>>
  BY TestPicturesKept DEF SendPtzControl, Free, pageVars, WindowInv
<1>2. CASE loggedIn
  <2>1. PICK r : r = Request(kind, NoDevice, NoUrl)
    OBVIOUS
  <2>2. Sane(r, server.stream, TestPictures)
    BY <2>1 DEF Sane, Request
  <2>3. PICK S : requests \in Seq(S) /\ \A x \in S : Sane(x, server.stream, TestPictures)
    BY DEF WindowInv, Queued
  <2>4. requests' = Enqueued(r) /\ window' = window
    BY <1>2, <2>1 DEF SendPtzControl
  <2>5. /\ requests' \in Seq(S \cup {r})
        /\ requests # <<>> => requests' # <<>> /\ requests'[1] = requests[1]
    BY <2>3, <2>4, EnqueuedIs
  <2>6. Queued(requests', server.stream, TestPictures)
    BY <2>2, <2>3, <2>5 DEF Queued
  <2> QED
    BY <1>1, <2>4, <2>5, <2>6, MoreAsked
<1>3. CASE ~loggedIn
  <2>1. requests' = requests /\ window' = ShowRequestError(window)
    BY <1>3 DEF SendPtzControl
  <2>2. IsWindow(window') /\ window'.active = window.active /\ window'.recording = window.recording
    BY <1>1, <2>1, FlagsKept
  <2> QED
    BY <1>1, <2>1, <2>2, WindowOnly
<1> QED
  BY <1>2, <1>3

LEMMA RequestDevicesKept ==
  ASSUME WindowInv, RequestDevices
  PROVE  WindowInv'
<1>1. /\ page # "login" /\ page' = "data" /\ IsWindow(window)
      /\ UNCHANGED <<useServerStream, cameras, TestPictures, loggedIn, answer, overdue, server, gaveUp>>
  BY TestPicturesKept DEF RequestDevices, Free, ShowMetadataPage, Show, WindowInv
<1>2. PICK r : r = Request("devices", NoDevice, NoUrl)
  OBVIOUS
<1>3. Sane(r, server.stream, TestPictures) /\ Issue(requests, r, window)
  BY <1>2 DEF Sane, Request, RequestDevices
<1> QED
  BY <1>1, <1>3, IssueKept

(* What a request does to the server; a stream that runs is not lost. *)
LEMMA ServerDoes ==
  ASSUME IsServer(server), NEW r, NEW ok \in BOOLEAN, ok => Works(r),
         server' = IF ok THEN ServerAfter(r) ELSE server,
         r.kind = "streamStart" => Streams(Opened(r.camera), TestPictures)
  PROVE  /\ IsServer(server')
         /\ (Streams(server.stream, TestPictures) => Streams(server'.stream, TestPictures))
         /\ ok /\ r.kind = "streamStart" => Streams(server'.stream, TestPictures)
         /\ ok /\ r.kind = "recordStart" => server'.recording # <<>>
         /\ ok /\ r.kind = "recordStop" => server'.recording = <<>>
         /\ ~(ok /\ r.kind \in {"recordStart", "recordStop"}) => server'.recording = server.recording
<1>1. CASE ok /\ r.kind = "streamStart"
  <2>1. server' = [server EXCEPT !.stream = Opened(r.camera)] /\ Streams(Opened(r.camera), TestPictures)
    BY <1>1 DEF ServerAfter
  <2>2. IsServer(server') /\ server'.stream = Opened(r.camera) /\ server'.recording = server.recording
    BY <2>1 DEF IsServer
  <2> QED
    BY <1>1, <2>1, <2>2
<1>2. CASE ok /\ r.kind = "recordStart"
  <2>1. PICK e : e = [device |-> r.device, url |-> server.stream, camera |-> r.camera]
    OBVIOUS
  <2>2. server' = [server EXCEPT !.recording = <<e>>]
    BY <1>2, <2>1 DEF ServerAfter
  <2>3. IsServer(server') /\ server'.stream = server.stream /\ server'.recording = <<e>>
    BY <2>2 DEF IsServer
  <2>4. <<e>> # <<>>
    OBVIOUS
  <2> QED
    BY <1>2, <2>3, <2>4
<1>3. CASE ok /\ r.kind = "recordStop"
  <2>1. server' = [server EXCEPT !.recording = <<>>]
    BY <1>3 DEF ServerAfter
  <2>2. IsServer(server') /\ server'.stream = server.stream /\ server'.recording = <<>>
    BY <2>1 DEF IsServer
  <2> QED
    BY <1>3, <2>2
<1>4. CASE ~ok \/ r.kind \notin {"streamStart", "recordStart", "recordStop"}
  <2>1. server' = server
    BY <1>4 DEF ServerAfter
  <2> QED
    BY <1>4, <2>1
<1> QED
  BY <1>1, <1>2, <1>3, <1>4

LEMMA ExecuteKept ==
  ASSUME WindowInv, NEW r, NEW ok \in BOOLEAN,
         r \in overdue \/ (requests # <<>> /\ r = requests[1]), Execute(r, ok)
  PROVE  WindowInv'
<1>1. page # "login" /\ page' = page
      /\ UNCHANGED <<useServerStream, cameras, TestPictures, window, loggedIn, requests, gaveUp>>
  BY TestPicturesKept DEF WindowInv, NotYet, Execute, pageVars
<1>2. r.kind = "streamStart" => Streams(Opened(r.camera), TestPictures)
  BY QueuedTail DEF WindowInv, Sane
<1>4. IsServer(server) /\ (ok => Works(r)) /\ server' = IF ok THEN ServerAfter(r) ELSE server
  BY DEF WindowInv, Execute
<1>5. /\ IsServer(server') /\ (Streams(server.stream, TestPictures) => Streams(server'.stream, TestPictures))
      /\ ok /\ r.kind = "streamStart" => Streams(server'.stream, TestPictures)
      /\ ok /\ r.kind = "recordStart" => server'.recording # <<>>
      /\ ok /\ r.kind = "recordStop" => server'.recording = <<>>
      /\ ~(ok /\ r.kind \in {"recordStart", "recordStop"}) => server'.recording = server.recording
  BY <1>2, <1>4, ServerDoes
<1>6. Queued(requests', server'.stream, TestPictures)
  <2>1. PICK S : requests \in Seq(S) /\ \A x \in S : Sane(x, server.stream, TestPictures)
    BY DEF WindowInv, Queued
  <2>2. \A x \in S : Sane(x, server'.stream, TestPictures)
    BY <1>5, <2>1 DEF Sane
  <2> QED
    BY <1>1, <2>1, <2>2 DEF Queued
<1>7. CASE r \in overdue
  <2>1. overdue' \subseteq overdue /\ answer' = answer /\ ~InStep
    BY <1>7 DEF Execute, InStep
  <2> QED
    BY <1>1, <1>5, <1>6, <2>1 DEF WindowInv, Done
<1>8. CASE r \notin overdue
  <2>1. answer = <<>> /\ overdue' = overdue /\ requests # <<>> /\ r = requests[1]
    BY <1>8 DEF Execute
  <2>2. PICK list : answer' = <<[ok |-> ok, list |-> list]>>
    BY <1>8 DEF Execute
  <2>3. answer' # <<>> /\ answer'[1].ok = ok
    BY <2>2
  <2>4. \A kind : Done(kind)' <=> ok /\ r.kind = kind
    BY <1>1, <2>1, <2>3 DEF Done
  <2>5. Done("streamStart")' => Streams(server'.stream, TestPictures)
    BY <1>5, <2>4
  <2>6. Done("recordStart")' <=> ok /\ r.kind = "recordStart"
    BY <2>4
  <2>7. Done("recordStop")' <=> ok /\ r.kind = "recordStop"
    BY <2>4
  <2>8. ASSUME InStep PROVE InStep'
    <3>1. ~Done("recordStart") /\ ~Done("recordStop")
      BY <2>1 DEF Done
    <3>2. overdue' = {} /\ (window.recording <=> server.recording # <<>>)
      BY <2>1, <2>8, <3>1 DEF InStep
    <3>3. Done("recordStart")' => server'.recording # <<>>
      BY <1>5, <2>6
    <3>4. Done("recordStop")' => server'.recording = <<>>
      BY <1>5, <2>7
    <3>5. ~Done("recordStart")' /\ ~Done("recordStop")' => server'.recording = server.recording
      BY <1>5, <2>6, <2>7
    <3> QED
      BY <1>1, <3>2, <3>3, <3>4, <3>5 DEF InStep
  <2> QED
    BY <1>1, <1>5, <1>6, <2>1, <2>5, <2>8 DEF WindowInv
<1> QED
  BY <1>7, <1>8

(* The answers, one kind at a time. *)
LEMMA StreamStartedKept ==
  ASSUME WindowInv, page # "login", requests # <<>>, Done("streamStart"), HandleStreamStarted,
         answer' = <<>>, UNCHANGED <<loggedIn, overdue, server, gaveUp>>
  PROVE  WindowInv'
<1>1. /\ page' = page /\ UNCHANGED <<useServerStream, cameras, TestPictures>>
      /\ Streams(server.stream, TestPictures)
  BY TestPicturesKept DEF HandleStreamStarted, pageVars, WindowInv
<1>2. PICK w : w = [window EXCEPT !.starting = FALSE, !.active = TRUE, !.recordPending = <<>>]
  OBVIOUS
<1>3. IsWindow(w) /\ w.recording = window.recording
  BY <1>2 DEF WindowInv, IsWindow
<1>4. PICK p : p = window.recordPending
  OBVIOUS
<1>5. InStep => (window.recording <=> server.recording # <<>>)
  BY DEF InStep, Done
<1>6. Queued(Tail(requests), server.stream, TestPictures)
  BY QueuedTail DEF WindowInv
<1>7. ASSUME InStep, window'.recording = window.recording PROVE InStep'
  BY <1>5, <1>7 DEF InStep, Done
<1>8. CASE p = <<>>
  <2>1. requests' = Tail(requests) /\ window' = w
    BY <1>2, <1>4, <1>8 DEF HandleStreamStarted
  <2> QED
    BY <1>1, <1>3, <1>6, <1>7, <2>1 DEF WindowInv, Done
<1>9. CASE p # <<>>
  <2>1. PICK r : r = Request("recordStart", p[1], p[2])
    OBVIOUS
  <2>2. Issue(Tail(requests), r, w)
    BY <1>2, <1>4, <1>9, <2>1 DEF HandleStreamStarted
  <2>3. Sane(r, server.stream, TestPictures)
    BY <1>1, <2>1 DEF Sane, Request
  <2>4. CASE loggedIn
    <3>1. requests' = Append(Tail(requests), r) /\ window' = w
      BY <2>2, <2>4 DEF Issue
    <3>2. Queued(requests', server.stream, TestPictures)
      BY <1>6, <2>3, <3>1, QueuedAppend
    <3> QED
      BY <1>1, <1>3, <1>7, <3>1, <3>2 DEF WindowInv, Done
  <2>5. CASE ~loggedIn
    <3>1. requests' = Tail(requests) /\ window' = ShowRequestError(w)
      BY <2>2, <2>5 DEF Issue
    <3>2. IsWindow(window')
      BY <1>3, <3>1, FlagsKept
    <3> QED
      BY <1>1, <1>6, <2>5, <3>1, <3>2 DEF WindowInv, Done
  <2> QED
    BY <2>4, <2>5
<1> QED
  BY <1>8, <1>9

LEMMA ShownRecord ==
  ASSUME NEW list, NEW n, NEW readable, page # "login", PlayRecordAt(list, n, readable)
  PROVE  page' # "login" /\ UNCHANGED <<useServerStream, cameras, TestPictures>>
BY TestPicturesKept DEF PlayRecordAt, ShowDashboardPage, Show, pageVars

LEMMA AnsweredKept ==
  ASSUME WindowInv, NEW readable \in BOOLEAN, Answered(readable)
  PROVE  WindowInv'
<1>1. PICK kind : kind = requests[1].kind
  OBVIOUS
<1>2. PICK list : list = answer[1].list
  OBVIOUS
<1>3. /\ requests # <<>> /\ page # "login" /\ Done(kind) /\ answer' = <<>>
      /\ UNCHANGED <<loggedIn, overdue, server, gaveUp>>
  BY <1>1 DEF Answered, WindowInv, NotYet, Done
<1>4. \/ kind = "devices" /\ UpdateDevices(list)
      \/ kind = "records" /\ UpdateRecords(list, readable)
      \/ kind = "streamStart" /\ HandleStreamStarted
      \/ kind = "recordStart" /\ SetRecordingActive(TRUE)
      \/ kind = "recordStop" /\ SetRecordingActive(FALSE)
      \/ kind \in {"ptzStart", "ptzStop"} /\ requests' = Tail(requests)
         /\ UNCHANGED <<pageVars, listVars, window, asked>>
  BY <1>1, <1>2 DEF Answered
<1>5. IsWindow(window) /\ (window.active => Streams(server.stream, TestPictures))
  BY DEF WindowInv
<1>6. ASSUME kind # "recordStart", kind # "recordStop"
      PROVE  InStep => (window.recording <=> server.recording # <<>>)
  BY <1>1, <1>6 DEF InStep, Done
<1>7. CASE kind = "devices" /\ UpdateDevices(list)
  <2>1. page' = page /\ UNCHANGED <<useServerStream, cameras, TestPictures>>
        /\ requests' = Tail(requests) /\ window' = window
    BY <1>7, TestPicturesKept DEF UpdateDevices, pageVars
  <2> QED
    BY <1>3, <1>5, <1>6, <1>7, <2>1, FirstHandled
<1>8. CASE kind = "records" /\ UpdateRecords(list, readable)
  <2>1. page' # "login" /\ UNCHANGED <<useServerStream, cameras, TestPictures>>
    BY TestPicturesKept, <1>3, <1>8, ShownRecord DEF UpdateRecords, pageVars
  <2>2. requests' = Tail(requests) /\ window' = [window EXCEPT !.pendingPlayback = FALSE]
    BY <1>8 DEF UpdateRecords
  <2>3. IsWindow(window') /\ window'.active = window.active /\ window'.recording = window.recording
    BY <1>5, <2>2 DEF IsWindow
  <2> QED
    BY <1>3, <1>5, <1>6, <1>8, <2>1, <2>2, <2>3, FirstHandled
<1>9. CASE kind = "streamStart" /\ HandleStreamStarted
  BY <1>3, <1>9, StreamStartedKept
<1>10. ASSUME NEW active \in BOOLEAN, SetRecordingActive(active),
              kind = IF active THEN "recordStart" ELSE "recordStop"
       PROVE  WindowInv'
  <2>1. page' = page /\ UNCHANGED <<useServerStream, cameras, TestPictures>> /\ requests' = Tail(requests)
        /\ window' = [window EXCEPT !.recording = active]
    BY <1>10, TestPicturesKept DEF SetRecordingActive, pageVars
  <2>2. IsWindow(window') /\ window'.active = window.active /\ window'.recording = active
    BY <1>5, <2>1 DEF IsWindow
  <2>3. InStep => (active <=> server.recording # <<>>)
    BY <1>3, <1>10 DEF InStep
  <2> QED
    BY <1>3, <1>5, <2>1, <2>2, <2>3, FirstHandled
<1>11. CASE kind = "recordStart" /\ SetRecordingActive(TRUE)
  BY <1>10, <1>11
<1>12. CASE kind = "recordStop" /\ SetRecordingActive(FALSE)
  BY <1>10, <1>12
<1>13. CASE /\ kind \in {"ptzStart", "ptzStop"} /\ requests' = Tail(requests)
            /\ UNCHANGED <<pageVars, listVars, window, asked>>
  <2>1. page' = page /\ UNCHANGED <<useServerStream, cameras, TestPictures>> /\ window' = window
    BY <1>13, TestPicturesKept DEF pageVars
  <2> QED
    BY <1>3, <1>5, <1>6, <1>13, <2>1, FirstHandled
<1> QED
  BY <1>4, <1>7, <1>8, <1>9, <1>11, <1>12, <1>13

LEMMA RequestFailedKept ==
  ASSUME WindowInv, RequestFailed
  PROVE  WindowInv'
<1>1. /\ requests # <<>> /\ page # "login" /\ page' = page /\ answer' = <<>>
      /\ requests' = Tail(requests) /\ window' = ShowRequestError(window)
      /\ UNCHANGED <<useServerStream, cameras, TestPictures, loggedIn, overdue, server, gaveUp>>
  BY TestPicturesKept DEF RequestFailed, WindowInv, NotYet, pageVars
<1>2. IsWindow(window') /\ window'.active = window.active /\ window'.recording = window.recording
  BY <1>1, FlagsKept DEF WindowInv
<1>3. InStep => (window.recording <=> server.recording # <<>>)
  BY DEF InStep, Done, RequestFailed
<1> QED
  BY <1>1, <1>2, <1>3, FirstHandled DEF WindowInv

LEMMA TimesOutKept ==
  ASSUME WindowInv, RequestTimesOut
  PROVE  WindowInv'
<1>1. /\ requests # <<>> /\ page # "login" /\ page' = page /\ answer' = <<>> /\ gaveUp'
      /\ requests' = Tail(requests) /\ window' = ShowRequestError(window)
      /\ UNCHANGED <<useServerStream, cameras, TestPictures, loggedIn, server>>
  BY TestPicturesKept DEF RequestTimesOut, WindowInv, NotYet, pageVars
<1>2. IsWindow(window') /\ window'.active = window.active
  BY <1>1, FlagsKept DEF WindowInv
<1>3. Queued(requests', server.stream, TestPictures) /\ Sane(requests[1], server.stream, TestPictures)
  BY <1>1, QueuedTail DEF WindowInv
<1>4. overdue' \subseteq overdue \cup {requests[1]}
  BY DEF RequestTimesOut
<1>5. \A r \in overdue' : r.kind = "streamStart" => Streams(Opened(r.camera), TestPictures)
  BY <1>3, <1>4 DEF WindowInv, Sane
<1> QED
  BY <1>1, <1>2, <1>3, <1>5 DEF WindowInv, Done

LEMMA DisconnectedKept ==
  ASSUME WindowInv, Disconnected
  PROVE  WindowInv'
<1>1. /\ page # "login" /\ page' = page /\ ~loggedIn' /\ UNCHANGED <<useServerStream, cameras, TestPictures>>
      /\ requests' = <<>> /\ answer' = <<>> /\ overdue' = {} /\ server' = ServerInit
  BY TestPicturesKept DEF Disconnected, WindowInv, NotYet, pageVars
<1>2. PICK w : w = IF requests = <<>> THEN window ELSE ShowRequestError(window)
  OBVIOUS
<1>3. IsWindow(w)
  BY <1>2, FlagsKept DEF WindowInv
<1>4. window' = StreamLost(w)
  BY <1>2 DEF Disconnected
<1>5. IsWindow(window') /\ ~window'.active
  BY <1>3, <1>4, FlagsKept
<1>6. IsServer(server')
  BY <1>1 DEF IsServer, ServerInit
<1>7. Queued(requests', server'.stream, TestPictures)
  <2>1. requests' \in Seq({}) /\ \A r \in {} : Sane(r, server'.stream, TestPictures)
    BY <1>1
  <2> QED
    BY <2>1 DEF Queued
<1> QED
  BY <1>1, <1>5, <1>6, <1>7 DEF WindowInv, Done

LEMMA WindowKept ==
  ASSUME WindowInv, [MainWindowNext]_windowVars
  PROVE  WindowInv'
<1>1. ASSUME NEW item, SelectItem(item) PROVE WindowInv'
  BY TestPicturesKept, <1>1, WindowOnly DEF SelectItem, pageVars, netVars, WindowInv
<1>2. CASE ShowDataPage
  BY <1>2, ShowDataPageKept
<1>3. CASE RequestDevices
  BY <1>3, RequestDevicesKept
<1>4. ASSUME NEW timesOk \in BOOLEAN, RequestRecords(timesOk) PROVE WindowInv'
  <2>1. PICK device : RequestRecordsForDevice(device, window, timesOk)
    BY <1>4 DEF RequestRecords
  <2>2. page # "login" /\ IsWindow(window)
    BY <1>4 DEF RequestRecords, Free, WindowInv
  <2> QED
    BY <2>1, <2>2, RecordsKept
<1>5. ASSUME NEW timesOk \in BOOLEAN, QueryRecords(timesOk) PROVE WindowInv'
  <2>1. page # "login" /\ IsWindow(window)
    BY <1>5 DEF QueryRecords, Free, WindowInv
  <2>2. ASSUME NEW device, RequestRecordsForDevice(device, window, timesOk) PROVE WindowInv'
    BY <2>1, <2>2, RecordsKept
  <2>3. CASE /\ window' = [window EXCEPT !.pendingPlayback = FALSE]
             /\ UNCHANGED <<pageVars, listVars, netVars>>
    <3>1. IsWindow(window') /\ window'.active = window.active /\ window'.recording = window.recording
      BY <2>1, <2>3 DEF IsWindow
    <3>2. page' = page /\ UNCHANGED <<useServerStream, cameras, TestPictures>>
      BY <2>3, TestPicturesKept DEF pageVars
    <3> QED
      BY <2>1, <2>3, <3>1, <3>2, WindowOnly DEF netVars
  <2> QED
    BY <1>5, <2>2, <2>3 DEF QueryRecords
<1>6. ASSUME NEW timesOk \in BOOLEAN, HandlePlaybackRequest(timesOk) PROVE WindowInv'
  <2>1. PICK w : w = [window EXCEPT !.pendingPlayback = TRUE]
    OBVIOUS
  <2>2. PICK device : RequestRecordsForDevice(device, w, timesOk)
    BY <1>6, <2>1 DEF HandlePlaybackRequest
  <2>3. page # "login" /\ IsWindow(w) /\ w.active = window.active /\ w.recording = window.recording
    BY <1>6, <2>1 DEF HandlePlaybackRequest, Free, WindowInv, IsWindow
  <2> QED
    BY <2>2, <2>3, RecordsKept
<1>7. ASSUME NEW n, PlaySelectedRecord(n) PROVE WindowInv'
  <2>1. page # "login" /\ PlayRecordAt(records, n, TRUE)
    BY <1>7 DEF PlaySelectedRecord
  <2>2. page' # "login" /\ UNCHANGED <<useServerStream, cameras, TestPictures>>
    BY <1>7, <2>1, TestPicturesKept DEF PlaySelectedRecord, PlayRecordAt, ShowDashboardPage, Show, pageVars
  <2> QED
    BY <1>7, <2>1, <2>2, WindowOnly DEF PlaySelectedRecord, netVars, WindowInv
<1>8. CASE BackToPreview
  <2>1. page # "login" /\ page' # "login" /\ UNCHANGED <<useServerStream, cameras, TestPictures>>
    BY <1>8, TestPicturesKept DEF BackToPreview, ShowDashboardPage, Show
  <2> QED
    BY <1>8, <2>1, WindowOnly DEF BackToPreview, netVars, WindowInv
<1>9. CASE HandleRecordStart
  BY <1>9, RecordStartKept
<1>10. CASE HandleRecordStop
  BY <1>10, RecordStopKept
<1>11. ASSUME NEW r \in {requests[i] : i \in DOMAIN requests \cap {1}} \cup overdue,
              NEW ok \in BOOLEAN, Execute(r, ok)
       PROVE  WindowInv'
  <2>1. PICK S : requests \in Seq(S)
    BY DEF WindowInv, Queued
  <2>2. r \in overdue \/ (1 \in DOMAIN requests /\ r = requests[1])
    BY <1>11
  <2>3. r \in overdue \/ (requests # <<>> /\ r = requests[1])
    BY <2>1, <2>2
  <2> QED
    BY <1>11, <2>3, ExecuteKept
<1>12. ASSUME NEW readable \in BOOLEAN, Answered(readable) PROVE WindowInv'
  BY <1>12, AnsweredKept
<1>13. CASE RequestFailed
  BY <1>13, RequestFailedKept
<1>14. CASE RequestTimesOut
  BY <1>14, TimesOutKept
<1>15. CASE Disconnected
  BY <1>15, DisconnectedKept
<1>16. CASE UNCHANGED windowVars
  BY <1>16, TestPicturesKept DEF windowVars, pageVars, netVars, WindowInv, Done, InStep, NotYet
<1>17. ASSUME NEW kind \in {"ptzStart", "ptzStop"}, SendPtzControl(kind) PROVE WindowInv'
  BY <1>17, SendPtzKept
<1> QED
  BY <1>1, <1>2, <1>3, <1>4, <1>5, <1>6, <1>7, <1>8, <1>9, <1>10, <1>11, <1>12, <1>13, <1>14,
     <1>15, <1>16, <1>17 DEF MainWindowNext

LEMMA WindowStarts ==
  ASSUME MainWindowInit
  PROVE  WindowInv
<1>1. page = "login" /\ NotYet /\ useServerStream \in BOOLEAN /\ cameras \in CameraConfigs
  BY DEF MainWindowInit, NotYet
<1>2. IsWindow(window) /\ ~window.active
  BY <1>1 DEF NotYet, WindowInit, IsWindow
<1>3. IsServer(server)
  BY <1>1 DEF NotYet, ServerInit, IsServer
<1>4. Queued(requests, server.stream, TestPictures)
  <2>1. requests \in Seq({}) /\ \A r \in {} : Sane(r, server.stream, TestPictures)
    BY <1>1 DEF NotYet
  <2> QED
    BY <2>1 DEF Queued
<1> QED
  BY <1>1, <1>2, <1>3, <1>4 DEF WindowInv, NotYet, Done

LEMMA WindowTellsTruth ==
  ASSUME WindowInv
  PROVE  BeliefsAreTrue
<1>1. window.active => server.stream # NoUrl
  <2>1. ASSUME Streams(server.stream, TestPictures) PROVE server.stream # NoUrl
    <3>1. MockUrl # NoUrl
      BY DEF MockUrl, NoUrl
    <3> QED
      BY <2>1, <3>1, Zenon DEF Streams, Recordable, TestPictures
  <2> QED
    BY <2>1 DEF WindowInv
<1>2. \A i \in DOMAIN requests : requests[i].kind = "recordStart" => Streams(server.stream, TestPictures)
  <2>1. PICK S : requests \in Seq(S) /\ \A r \in S : Sane(r, server.stream, TestPictures)
    BY DEF WindowInv, Queued
  <2> QED
    BY <2>1 DEF Sane
<1>3. ASSUME loggedIn, requests = <<>>, ~gaveUp
      PROVE  window.recording <=> server.recording # <<>>
  BY <1>3 DEF WindowInv, InStep, Done
<1> QED
  BY <1>1, <1>2, <1>3 DEF BeliefsAreTrue, Streams, TestPictures

(* What the window believes about the server is true, whatever fails. *)
THEOREM BeliefsTrue == MainWindowSpec => []BeliefsAreTrue
<1>1. MainWindowInit => WindowInv
  BY WindowStarts
<1>2. WindowInv /\ [MainWindowNext]_windowVars => WindowInv'
  BY WindowKept
<1>3. WindowInv => BeliefsAreTrue
  BY WindowTellsTruth
<1> QED
  BY <1>1, <1>2, <1>3, PTL DEF MainWindowSpec

-------------------------------------------------------------------------------
(* ServerStreamPlayer.  The last frame accepted is decoded, or waits, or is *)
(* what the worker works on, unless the player was told to stop.            *)
QueueInv ==
  /\ given \in Nat /\ due \in Nat /\ frame \in Nat /\ due <= given
  /\ pending \in Seq(Nat) /\ Len(pending) <= MaxPending
  /\ \A i \in DOMAIN pending : pending[i] = due - Len(pending) + i
  /\ pending # <<>> => due = given
  /\ stopRequested => pending = <<>>
  /\ workerAt = "asleep" => /\ pending # <<>> => guiAt = "notifyOne"
                            /\ stopRequested => guiAt = "notifyAll"
  /\ due > 0 /\ ~stopRequested =>
       due \in decoded \/ pending # <<>> \/ (workerAt \in {"decode", "failed"} /\ frame = due)

(* Behind the pictures drawn come those queued, between failures, and the   *)
(* newest one is the last of them all.                                      *)
PictureInv ==
  /\ decoded \subseteq Nat /\ picture \in Nat
  /\ shown \in Seq(Nat) /\ signals \in Seq(Nat)
  /\ \A i, j \in DOMAIN shown : i < j => shown[i] < shown[j]
  /\ \A i, j \in DOMAIN signals :
       i < j /\ signals[i] # 0 /\ signals[j] # 0 => signals[i] < signals[j]
  /\ \A i \in DOMAIN shown, j \in DOMAIN signals : signals[j] # 0 => shown[i] < signals[j]
  /\ \A i \in DOMAIN shown : shown[i] <= picture
  /\ \A i \in DOMAIN signals : signals[i] <= picture
  /\ picture > 0 => (\E i \in DOMAIN signals : signals[i] = picture)
                    \/ (shown # <<>> /\ shown[Len(shown)] = picture)

(* A queue of the newest numbers, without a gap: one more, and one less. *)
Newest(q, last) == \A i \in DOMAIN q : q[i] = last - Len(q) + i

LEMMA NewestAppend ==
  ASSUME NEW q \in Seq(Nat), NEW last \in Nat, Newest(q, last)
  PROVE  Append(q, last + 1) \in Seq(Nat) /\ Newest(Append(q, last + 1), last + 1)
         /\ Len(Append(q, last + 1)) = Len(q) + 1
<1>1. PICK a : a = Append(q, last + 1)
  OBVIOUS
<1>2. a \in Seq(Nat) /\ Len(a) = Len(q) + 1 /\ a[Len(q) + 1] = last + 1
      /\ \A i \in 1 .. Len(q) : a[i] = q[i]
  BY <1>1
<1>3. ASSUME NEW i \in 1 .. Len(a) PROVE a[i] = last + 1 - Len(a) + i
  <2>1. CASE i = Len(q) + 1
    BY <1>2, <2>1
  <2>2. CASE i # Len(q) + 1
    <3>1. i \in 1 .. Len(q)
      BY <1>2, <2>2
    <3>2. q[i] = last - Len(q) + i
      BY <3>1 DEF Newest
    <3> QED
      BY <1>2, <3>1, <3>2
  <2> QED
    BY <2>1, <2>2
<1>4. Newest(a, last + 1)
  <2>1. DOMAIN a = 1 .. Len(a)
    BY <1>2
  <2> QED
    BY <1>3, <2>1 DEF Newest
<1> QED
  BY <1>1, <1>2, <1>4

LEMMA NewestTail ==
  ASSUME NEW q \in Seq(Nat), NEW last \in Nat, Newest(q, last), q # <<>>
  PROVE  Tail(q) \in Seq(Nat) /\ Newest(Tail(q), last) /\ Len(Tail(q)) = Len(q) - 1
         /\ Head(q) \in Nat /\ (Tail(q) = <<>> => Head(q) = last)
<1>1. PICK t : t = Tail(q)
  OBVIOUS
<1>2. t \in Seq(Nat) /\ Len(t) = Len(q) - 1 /\ \A i \in 1 .. Len(t) : t[i] = q[i + 1]
  BY <1>1
<1>3. ASSUME NEW i \in 1 .. Len(t) PROVE t[i] = last - Len(t) + i
  <2>1. i + 1 \in 1 .. Len(q)
    BY <1>2
  <2>2. q[i + 1] = last - Len(q) + (i + 1)
    BY <2>1, SMTT(40) DEF Newest
  <2> QED
    BY <1>2, <2>2
<1>4. Newest(t, last)
  <2>1. DOMAIN t = 1 .. Len(t)
    BY <1>2
  <2> QED
    BY <1>3, <2>1 DEF Newest
<1>5. Head(q) \in Nat /\ Head(q) = q[1] /\ 1 \in DOMAIN q
  OBVIOUS
<1>6. q[1] = last - Len(q) + 1
  BY <1>5 DEF Newest
<1>7. t = <<>> => Head(q) = last
  <2>1. ASSUME t = <<>> PROVE Len(q) = 1
    BY <1>2, <2>1
  <2>2. ASSUME Len(q) = 1 PROVE q[1] = last
    BY <1>6, <2>2
  <2> QED
    BY <1>5, <2>1, <2>2
<1> QED
  BY <1>1, <1>2, <1>4, <1>5, <1>7

LEMMA FrameAccepted ==
  ASSUME QueueInv, OnMediaFrame
  PROVE  QueueInv'
<1>1. /\ guiAt = "idle" /\ given' = given + 1
      /\ UNCHANGED <<stopRequested, workerAt, frame, decoded>>
  BY DEF OnMediaFrame
<1>2. CASE stopRequested
  <2>1. UNCHANGED <<pending, due, guiAt>> /\ pending = <<>>
    BY <1>2 DEF OnMediaFrame, QueueInv
  <2> QED
    BY <1>1, <2>1 DEF QueueInv
<1>3. CASE ~stopRequested
  <2>1. pending' = Accepted(pending, given + 1) /\ due' = given + 1 /\ guiAt' = "notifyOne"
    BY <1>3 DEF OnMediaFrame
  <2>2. given \in Nat /\ pending \in Seq(Nat) /\ Len(pending) <= MaxPending
        /\ MaxPending \in Nat \ {0}
    BY PlayerAssumption DEF QueueInv
  <2>3. Newest(pending, given)
    <3>1. CASE pending = <<>>
      BY <3>1 DEF Newest
    <3>2. CASE pending # <<>>
      BY <3>2 DEF QueueInv, Newest
    <3> QED
      BY <3>1, <3>2
  <2>4. PICK q : q = IF Len(pending) >= MaxPending THEN Tail(pending) ELSE pending
    OBVIOUS
  <2>5. q \in Seq(Nat) /\ Newest(q, given) /\ Len(q) + 1 <= MaxPending
    <3>1. CASE Len(pending) >= MaxPending
      <4>1. pending # <<>>
        BY <2>2, <3>1
      <4>2. Tail(pending) \in Seq(Nat) /\ Newest(Tail(pending), given)
            /\ Len(Tail(pending)) = Len(pending) - 1
        BY <2>2, <2>3, <4>1, NewestTail
      <4> QED
        BY <2>2, <2>4, <3>1, <4>2
    <3>2. CASE ~(Len(pending) >= MaxPending)
      BY <2>2, <2>3, <2>4, <3>2
    <3> QED
      BY <3>1, <3>2
  <2>6. pending' = Append(q, given + 1)
    BY <2>1, <2>4 DEF Accepted
  <2>7. pending' \in Seq(Nat) /\ Newest(pending', given + 1) /\ Len(pending') = Len(q) + 1
    BY <2>2, <2>5, <2>6, NewestAppend
  <2>8. pending' # <<>> /\ Len(pending') <= MaxPending
    BY <2>5, <2>7
  <2>9. \A i \in DOMAIN pending' : pending'[i] = due' - Len(pending') + i
    BY <2>1, <2>7 DEF Newest
  <2>10. due' \in Nat /\ due' <= given' /\ due' = given' /\ given' \in Nat
    BY <1>1, <2>1, <2>2
  <2>11. frame' \in Nat /\ ~stopRequested'
    BY <1>1, <1>3 DEF QueueInv
  <2> QED
    BY <2>1, <2>7, <2>8, <2>9, <2>10, <2>11 DEF QueueInv
<1> QED
  BY <1>2, <1>3

LEMMA FrameTaken ==
  ASSUME QueueInv, Take
  PROVE  QueueInv'
<1>1. UNCHANGED <<stopRequested, guiAt, given, due, decoded>>
  BY DEF Take, WorkerGoes, historyVars
<1>2. CASE ~stopRequested /\ pending = <<>> /\ WorkerGoes("test", "asleep")
           /\ UNCHANGED <<pending, frame>>
  BY <1>1, <1>2 DEF QueueInv, WorkerGoes
<1>3. CASE stopRequested /\ WorkerGoes("test", "close") /\ UNCHANGED <<pending, frame>>
  BY <1>1, <1>3 DEF QueueInv, WorkerGoes
<1>4. CASE ~stopRequested /\ pending # <<>> /\ WorkerGoes("test", "decode")
           /\ frame' = Head(pending) /\ pending' = Tail(pending)
  <2>1. pending \in Seq(Nat) /\ due \in Nat /\ Newest(pending, due) /\ due = given
        /\ Len(pending) <= MaxPending /\ MaxPending \in Nat
    BY <1>4, PlayerAssumption DEF QueueInv, Newest
  <2>2. pending' \in Seq(Nat) /\ Newest(pending', due) /\ Len(pending') = Len(pending) - 1
        /\ frame' \in Nat /\ (pending' = <<>> => frame' = due)
    BY <1>4, <2>1, NewestTail
  <2>3. Len(pending') <= MaxPending
    BY <2>1, <2>2
  <2>4. \A i \in DOMAIN pending' : pending'[i] = due' - Len(pending') + i
    BY <1>1, <2>2 DEF Newest
  <2>5. workerAt' = "decode" /\ ~stopRequested'
    BY <1>1, <1>4 DEF WorkerGoes
  <2> QED
    BY <1>1, <2>1, <2>2, <2>3, <2>4, <2>5 DEF QueueInv
<1> QED
  BY <1>2, <1>3, <1>4 DEF Take

LEMMA QueueKept ==
  ASSUME QueueInv, [PlayerNext]_playerVars
  PROVE  QueueInv'
<1>0. Len(<<>>) = 0 /\ 0 <= MaxPending /\ <<>> \in Seq(Nat) /\ DOMAIN <<>> = {}
  BY PlayerAssumption
<1>1. CASE Start
  <2>1. /\ ~stopRequested' /\ pending' = <<>> /\ workerAt' = "test" /\ due' = 0
        /\ UNCHANGED <<given, frame>>
    BY <1>1 DEF Start
  <2> QED
    BY <1>0, <2>1 DEF QueueInv
<1>2. CASE Stop
  <2>1. /\ stopRequested' /\ pending' = <<>> /\ guiAt' = "notifyAll"
        /\ UNCHANGED <<given, due, frame>>
    BY <1>2 DEF Stop, historyVars
  <2> QED
    BY <1>0, <2>1 DEF QueueInv
<1>3. CASE OnMediaFrame
  BY <1>3, FrameAccepted
<1>4. ASSUME NEW from, NEW to, Notify(from, to) PROVE QueueInv'
  <2>1. /\ workerAt' = IF workerAt = "asleep" THEN "test" ELSE workerAt
        /\ UNCHANGED <<stopRequested, pending, frame, given, due, decoded>>
    BY <1>4 DEF Notify, historyVars
  <2> QED
    BY <2>1 DEF QueueInv
<1>5. CASE Join
  <2>1. /\ workerAt \in {"none", "ended"} /\ workerAt' = "none"
        /\ UNCHANGED <<stopRequested, pending, frame, given, due, decoded>>
    BY <1>5 DEF Join, historyVars
  <2> QED
    BY <2>1 DEF QueueInv
<1>6. CASE Deliver
  <2>1. UNCHANGED <<guiAt, stopRequested, pending, workerAt, frame, given, due, decoded>>
    BY <1>6 DEF Deliver, threadVars
  <2> QED
    BY <2>1 DEF QueueInv
<1>7. CASE Take
  BY <1>7, FrameTaken
<1>8. CASE SpuriousWakeup
  <2>1. /\ workerAt = "asleep" /\ workerAt' = "test"
        /\ UNCHANGED <<guiAt, stopRequested, pending, frame, given, due, decoded>>
    BY <1>8 DEF SpuriousWakeup, WorkerGoes, historyVars
  <2> QED
    BY <2>1 DEF QueueInv
<1>9. CASE OpenDecoder
  <2>1. /\ workerAt = "decode" /\ workerAt' \in {"decode", "failed"}
        /\ UNCHANGED <<guiAt, stopRequested, pending, frame, given, due, decoded>>
    BY <1>9 DEF OpenDecoder, WorkerGoes, historyVars
  <2> QED
    BY <2>1 DEF QueueInv
<1>10. CASE Decode
  <2>1. /\ workerAt = "decode" /\ workerAt' = "test" /\ decoded' = decoded \cup {frame}
        /\ UNCHANGED <<guiAt, stopRequested, pending, frame, given, due>>
    BY <1>10 DEF Decode, WorkerGoes
  <2> QED
    BY <2>1 DEF QueueInv
<1>11. CASE Fail
  <2>1. /\ stopRequested' /\ pending' = <<>> /\ workerAt' = "test"
        /\ UNCHANGED <<guiAt, frame, given, due, decoded>>
    BY <1>11 DEF Fail, WorkerGoes, historyVars
  <2> QED
    BY <1>0, <2>1 DEF QueueInv
<1>12. CASE CloseDecoder
  <2>1. /\ workerAt = "close" /\ workerAt' = "ending"
        /\ UNCHANGED <<guiAt, stopRequested, pending, frame, given, due, decoded>>
    BY <1>12 DEF CloseDecoder, WorkerGoes, historyVars
  <2> QED
    BY <2>1 DEF QueueInv
<1>13. CASE End
  <2>1. /\ workerAt = "ending" /\ workerAt' = "ended"
        /\ UNCHANGED <<guiAt, stopRequested, pending, frame, given, due, decoded>>
    BY <1>13 DEF End, WorkerGoes, historyVars
  <2> QED
    BY <2>1 DEF QueueInv
<1>14. CASE UNCHANGED playerVars
  <2>1. UNCHANGED <<guiAt, stopRequested, pending, workerAt, frame, given, due, decoded>>
    BY <1>14 DEF playerVars, threadVars, historyVars
  <2> QED
    BY <2>1 DEF QueueInv
<1> QED
  BY <1>1, <1>2, <1>3, <1>4, <1>5, <1>6, <1>7, <1>8, <1>9, <1>10, <1>11, <1>12, <1>13, <1>14
     DEF PlayerNext, NotifyStop, NotifyFrame

(* The numbers of a queue by their places, and of what is left behind the first. *)
LEMMA FirstAndRest ==
  ASSUME NEW q \in Seq(Nat), q # <<>>
  PROVE  /\ 1 \in DOMAIN q /\ Len(q) \in DOMAIN q /\ Head(q) = q[1] /\ Head(q) \in Nat
         /\ Tail(q) \in Seq(Nat)
         /\ \A i \in DOMAIN Tail(q) :
              i \in Nat /\ i + 1 \in DOMAIN q /\ 1 < i + 1 /\ Tail(q)[i] = q[i + 1]
         /\ \A i \in DOMAIN q : i # 1 => i - 1 \in DOMAIN Tail(q) /\ Tail(q)[i - 1] = q[i]
<1>1. Len(q) \in Nat \ {0} /\ DOMAIN q = 1 .. Len(q) /\ Head(q) = q[1]
  OBVIOUS
<1>2. 1 \in DOMAIN q /\ Len(q) \in DOMAIN q /\ q[1] \in Nat
  BY <1>1
<1>3. Tail(q) \in Seq(Nat) /\ Len(Tail(q)) = Len(q) - 1
      /\ \A i \in 1 .. Len(Tail(q)) : Tail(q)[i] = q[i + 1]
  OBVIOUS
<1>4. DOMAIN Tail(q) = 1 .. Len(q) - 1
  BY <1>3
<1>5. ASSUME NEW i \in DOMAIN Tail(q)
      PROVE  i \in Nat /\ i + 1 \in DOMAIN q /\ 1 < i + 1 /\ Tail(q)[i] = q[i + 1]
  BY <1>1, <1>3, <1>4
<1>6. ASSUME NEW i \in DOMAIN q, i # 1
      PROVE  i - 1 \in DOMAIN Tail(q) /\ Tail(q)[i - 1] = q[i]
  <2>1. i - 1 \in 1 .. Len(q) - 1 /\ (i - 1) + 1 = i
    BY <1>1, <1>6
  <2> QED
    BY <1>3, <1>4, <2>1
<1> QED
  BY <1>1, <1>2, <1>3, <1>5, <1>6

(* A picture comes out of the decoder, or a failure: it is the newest. *)
LEMMA SignalQueued ==
  ASSUME PictureInv, NEW s \in Nat, signals' = Append(signals, s), shown' = shown,
         decoded' \subseteq Nat,
         (s = 0 /\ picture' = picture) \/ (s > picture /\ picture' = s)
  PROVE  PictureInv'
<1>1. PICK q : q = Append(signals, s)
  OBVIOUS
<1>2. signals \in Seq(Nat) /\ shown \in Seq(Nat) /\ picture \in Nat
  BY DEF PictureInv
<1>3. q \in Seq(Nat) /\ Len(q) = Len(signals) + 1 /\ q[Len(signals) + 1] = s
      /\ DOMAIN q = 1 .. Len(q) /\ DOMAIN signals = 1 .. Len(signals) /\ Len(signals) \in Nat
      /\ \A i \in 1 .. Len(signals) : q[i] = signals[i]
  BY <1>1, <1>2
<1>4. \A i \in DOMAIN q : i \in DOMAIN signals \/ i = Len(signals) + 1
  BY <1>3
<1>5. \A i \in DOMAIN signals : signals[i] \in Nat /\ signals[i] <= picture
  BY <1>2 DEF PictureInv
<1>6. \A i \in DOMAIN signals : s # 0 => signals[i] < s
  BY <1>2, <1>5
<1>7. picture' \in Nat /\ picture <= picture'
  BY <1>2
<1>8. ASSUME NEW i \in DOMAIN q, NEW j \in DOMAIN q, i < j, q[i] # 0, q[j] # 0
      PROVE  q[i] < q[j]
  <2>1. i \in DOMAIN signals
    BY <1>3, <1>8
  <2>2. CASE j \in DOMAIN signals
    BY <1>3, <1>8, <2>1, <2>2 DEF PictureInv
  <2>3. CASE j = Len(signals) + 1
    BY <1>3, <1>6, <1>8, <2>1, <2>3
  <2> QED
    BY <1>4, <2>2, <2>3
<1>9. ASSUME NEW i \in DOMAIN shown, NEW j \in DOMAIN q, q[j] # 0 PROVE shown[i] < q[j]
  <2>1. CASE j \in DOMAIN signals
    BY <1>3, <1>9, <2>1 DEF PictureInv
  <2>2. CASE j = Len(signals) + 1
    <3>1. q[j] = s /\ s > picture
      BY <1>3, <1>9, <2>2
    <3>2. shown[i] <= picture /\ shown[i] \in Nat
      BY <1>2 DEF PictureInv
    <3> QED
      BY <1>2, <3>1, <3>2
  <2> QED
    BY <1>4, <2>1, <2>2
<1>10. ASSUME NEW i \in DOMAIN shown PROVE shown[i] <= picture'
  <2>1. shown[i] <= picture /\ shown[i] \in Nat
    BY <1>2 DEF PictureInv
  <2> QED
    BY <1>2, <1>7, <2>1
<1>11. ASSUME NEW i \in DOMAIN q PROVE q[i] <= picture'
  <2>1. CASE i \in DOMAIN signals
    BY <1>2, <1>3, <1>5, <1>7, <2>1
  <2>2. CASE i = Len(signals) + 1
    BY <1>2, <1>3, <1>7, <2>2
  <2> QED
    BY <1>4, <2>1, <2>2
<1>12. ASSUME picture' > 0
       PROVE  (\E i \in DOMAIN q : q[i] = picture') \/ (shown # <<>> /\ shown[Len(shown)] = picture')
  <2>1. CASE s = 0 /\ picture' = picture
    <3>1. (\E i \in DOMAIN signals : signals[i] = picture)
          \/ (shown # <<>> /\ shown[Len(shown)] = picture)
      BY <1>12, <2>1 DEF PictureInv
    <3>2. \A i \in DOMAIN signals : i \in DOMAIN q /\ q[i] = signals[i]
      BY <1>3
    <3> QED
      BY <2>1, <3>1, <3>2
  <2>2. CASE s > picture /\ picture' = s
    <3>1. Len(signals) + 1 \in DOMAIN q /\ q[Len(signals) + 1] = picture'
      BY <1>3, <2>2
    <3> QED
      BY <3>1
  <2> QED
    BY <2>1, <2>2
<1>13. \A i, j \in DOMAIN shown : i < j => shown[i] < shown[j]
  BY DEF PictureInv
<1> QED
  BY <1>1, <1>2, <1>3, <1>7, <1>8, <1>9, <1>10, <1>11, <1>12, <1>13 DEF PictureInv

LEMMA SignalDelivered ==
  ASSUME PictureInv, Deliver
  PROVE  PictureInv'
<1>1. PICK t : t = Tail(signals)
  OBVIOUS
<1>2. PICK s : s = Head(signals)
  OBVIOUS
<1>3. /\ signals # <<>> /\ signals' = t /\ UNCHANGED <<decoded, picture>>
      /\ shown' = IF s = 0 THEN shown ELSE Append(shown, s)
  BY <1>1, <1>2 DEF Deliver
<1>4. signals \in Seq(Nat) /\ shown \in Seq(Nat) /\ picture \in Nat /\ decoded \subseteq Nat
  BY DEF PictureInv
<1>5. t \in Seq(Nat) /\ s \in Nat /\ s = signals[1] /\ 1 \in DOMAIN signals
  BY <1>1, <1>2, <1>3, <1>4, FirstAndRest
<1>6. \A i \in DOMAIN t :
        i \in Nat /\ i + 1 \in DOMAIN signals /\ 1 < i + 1 /\ t[i] = signals[i + 1]
  BY <1>1, <1>3, <1>4, FirstAndRest
<1>12. \A i \in DOMAIN signals : i # 1 => i - 1 \in DOMAIN t /\ t[i - 1] = signals[i]
  BY <1>1, <1>3, <1>4, FirstAndRest
<1>7. \A i \in DOMAIN t : t[i] <= picture
  BY <1>5, <1>6 DEF PictureInv
<1>8. ASSUME NEW i \in DOMAIN t, NEW j \in DOMAIN t, i < j, t[i] # 0, t[j] # 0
      PROVE  t[i] < t[j]
  <2>1. i + 1 < j + 1
    BY <1>6, <1>8
  <2> QED
    BY <1>5, <1>6, <1>8, <2>1 DEF PictureInv
<1>9. s # 0 => \A j \in DOMAIN t : t[j] # 0 => s < t[j]
  BY <1>5, <1>6 DEF PictureInv
<1>10. CASE s = 0
  <2>1. shown' = shown
    BY <1>3, <1>10
  <2>2. \A i \in DOMAIN shown, j \in DOMAIN t : t[j] # 0 => shown[i] < t[j]
    BY <1>5, <1>6 DEF PictureInv
  <2>3. ASSUME picture > 0
        PROVE  (\E i \in DOMAIN t : t[i] = picture) \/ (shown # <<>> /\ shown[Len(shown)] = picture)
    <3>1. CASE shown # <<>> /\ shown[Len(shown)] = picture
      BY <3>1
    <3>2. CASE \E i \in DOMAIN signals : signals[i] = picture
      <4>1. PICK i \in DOMAIN signals : signals[i] = picture
        BY <3>2
      <4>2. i # 1
        <5>1. signals[1] = 0 /\ signals[i] # 0
          BY <1>4, <1>5, <1>10, <2>3, <4>1
        <5> QED
          BY <5>1
      <4>3. i - 1 \in DOMAIN t /\ t[i - 1] = signals[i]
        BY <1>12, <4>2
      <4> QED
        BY <4>1, <4>3
    <3> QED
      BY <2>3, <3>1, <3>2 DEF PictureInv
  <2>4. (\A i, j \in DOMAIN shown : i < j => shown[i] < shown[j])
        /\ \A i \in DOMAIN shown : shown[i] <= picture
    BY DEF PictureInv
  <2> QED
    BY <1>3, <1>4, <1>5, <1>7, <1>8, <2>1, <2>2, <2>3, <2>4 DEF PictureInv
<1>11. CASE s # 0
  <2>1. PICK d : d = Append(shown, s)
    OBVIOUS
  <2>2. shown' = d
    BY <1>3, <1>11, <2>1
  <2>3. d \in Seq(Nat) /\ Len(d) = Len(shown) + 1 /\ d[Len(shown) + 1] = s /\ d # <<>>
        /\ DOMAIN d = 1 .. Len(d) /\ DOMAIN shown = 1 .. Len(shown) /\ Len(shown) \in Nat
        /\ \A i \in 1 .. Len(shown) : d[i] = shown[i]
    <3>1. shown \in Seq(Nat) /\ s \in Nat
      BY <1>4, <1>5
    <3> QED
      BY <2>1, <3>1
  <2>4. \A i \in DOMAIN d : i \in DOMAIN shown \/ i = Len(shown) + 1
    BY <2>3
  <2>5. s <= picture /\ \A i \in DOMAIN shown : shown[i] < s
    BY <1>5, <1>6, <1>11 DEF PictureInv
  <2>6. ASSUME NEW i \in DOMAIN d, NEW j \in DOMAIN d, i < j PROVE d[i] < d[j]
    <3>1. i \in DOMAIN shown
      BY <2>3, <2>6
    <3>2. CASE j \in DOMAIN shown
      BY <2>3, <2>6, <3>1, <3>2 DEF PictureInv
    <3>3. CASE j = Len(shown) + 1
      BY <2>3, <2>5, <3>1, <3>3
    <3> QED
      BY <2>4, <3>2, <3>3
  <2>7. ASSUME NEW i \in DOMAIN d, NEW j \in DOMAIN t, t[j] # 0 PROVE d[i] < t[j]
    <3>1. CASE i \in DOMAIN shown
      BY <1>5, <1>6, <2>3, <2>7, <3>1 DEF PictureInv
    <3>2. CASE i = Len(shown) + 1
      BY <1>9, <1>11, <2>3, <2>7, <3>2
    <3> QED
      BY <2>4, <3>1, <3>2
  <2>8. ASSUME NEW i \in DOMAIN d PROVE d[i] <= picture
    <3>1. CASE i \in DOMAIN shown
      BY <2>3, <3>1 DEF PictureInv
    <3>2. CASE i = Len(shown) + 1
      BY <2>3, <2>5, <3>2
    <3> QED
      BY <2>4, <3>1, <3>2
  <2>9. ASSUME picture > 0
        PROVE  (\E i \in DOMAIN t : t[i] = picture) \/ (d # <<>> /\ d[Len(d)] = picture)
    <3>1. CASE shown # <<>> /\ shown[Len(shown)] = picture
      <4>1. Len(shown) \in DOMAIN shown
        BY <1>4, <3>1, FirstAndRest
      <4>3. shown[Len(shown)] < s
        BY <2>5, <4>1
      <4>2. s <= picture /\ s \in Nat
        BY <1>5, <2>5
      <4> QED
        BY <1>4, <3>1, <4>2, <4>3
    <3>2. CASE \E i \in DOMAIN signals : signals[i] = picture
      <4>1. PICK i \in DOMAIN signals : signals[i] = picture
        BY <3>2
      <4>2. CASE i = 1
        BY <1>5, <2>3, <4>1, <4>2
      <4>3. CASE i # 1
        <5>1. i - 1 \in DOMAIN t /\ t[i - 1] = signals[i]
          BY <1>12, <4>3
        <5> QED
          BY <4>1, <5>1
      <4> QED
        BY <4>2, <4>3
    <3> QED
      BY <2>9, <3>1, <3>2 DEF PictureInv
  <2> QED
    BY <1>3, <1>4, <1>5, <1>7, <1>8, <2>2, <2>3, <2>6, <2>7, <2>8, <2>9 DEF PictureInv
<1> QED
  BY <1>10, <1>11

LEMMA PictureKept ==
  ASSUME QueueInv, PictureInv, [PlayerNext]_playerVars
  PROVE  PictureInv'
<1>1. ASSUME UNCHANGED <<signals, picture, shown>>, decoded' \subseteq Nat PROVE PictureInv'
  BY <1>1 DEF PictureInv
<1>2. decoded \subseteq Nat /\ frame \in Nat /\ picture \in Nat
  BY DEF PictureInv, QueueInv
<1>3. CASE Start
  BY <1>1, <1>3 DEF Start
<1>4. CASE Deliver
  BY <1>4, SignalDelivered
<1>5. CASE OpenDecoder
  <2>1. UNCHANGED <<picture, shown, decoded>>
    BY <1>5 DEF OpenDecoder, historyVars
  <2>2. signals' = signals \/ signals' = Append(signals, 0)
    BY <1>5 DEF OpenDecoder
  <2> QED
    BY <1>1, <1>2, <2>1, <2>2, SignalQueued
<1>6. CASE Decode
  <2>1. decoded' = decoded \cup {frame} /\ shown' = shown
    BY <1>6 DEF Decode
  <2>2. decoded' \subseteq Nat
    BY <1>2, <2>1
  <2>3. CASE UNCHANGED <<picture, signals>>
    BY <1>1, <2>1, <2>2, <2>3
  <2>4. CASE \E p \in decoded' : p > picture /\ picture' = p /\ signals' = Append(signals, p)
    <3>1. PICK p \in Nat : p > picture /\ picture' = p /\ signals' = Append(signals, p)
      BY <2>2, <2>4
    <3> QED
      BY <2>1, <2>2, <3>1, SignalQueued
  <2> QED
    BY <1>6, <2>3, <2>4 DEF Decode
<1>7. CASE OnMediaFrame
  BY <1>1, <1>2, <1>7 DEF OnMediaFrame
<1>8. CASE Stop \/ NotifyStop \/ NotifyFrame \/ Join
  BY <1>1, <1>2, <1>8 DEF Stop, NotifyStop, NotifyFrame, Notify, Join, historyVars
<1>9. CASE Take \/ SpuriousWakeup \/ Fail \/ CloseDecoder \/ End
  BY <1>1, <1>2, <1>9 DEF Take, SpuriousWakeup, Fail, CloseDecoder, End, historyVars
<1>10. CASE UNCHANGED playerVars
  BY <1>1, <1>2, <1>10 DEF playerVars, historyVars
<1> QED
  BY <1>3, <1>4, <1>5, <1>6, <1>7, <1>8, <1>9, <1>10 DEF PlayerNext

(* The preview shows the newest pictures in order and ends with the last. *)
THEOREM PreviewNewest == PlayerSpec => []NewestShown
<1>1. PlayerInit => QueueInv /\ PictureInv
  <2>1. ASSUME PlayerInit PROVE QueueInv
    <3>1. pending = <<>> /\ Len(pending) = 0 /\ DOMAIN pending = {} /\ pending \in Seq(Nat)
          /\ 0 <= MaxPending
      BY <2>1, PlayerAssumption DEF PlayerInit
    <3>2. given = 0 /\ due = 0 /\ frame = 0 /\ workerAt = "none" /\ ~stopRequested
      BY <2>1 DEF PlayerInit
    <3> QED
      BY <3>1, <3>2 DEF QueueInv
  <2>2. ASSUME PlayerInit PROVE PictureInv
    <3>1. shown = <<>> /\ signals = <<>> /\ decoded = {} /\ picture = 0
      BY <2>2 DEF PlayerInit
    <3>2. \A q : q = <<>> => q \in Seq(Nat) /\ DOMAIN q = {}
      OBVIOUS
    <3> QED
      BY <3>1, <3>2 DEF PictureInv
  <2> QED
    BY <2>1, <2>2
<1>2. QueueInv /\ PictureInv /\ [PlayerNext]_playerVars => (QueueInv /\ PictureInv)'
  BY QueueKept, PictureKept
<1>3. ASSUME QueueInv, PictureInv PROVE NewestShown
  <2>1. \A i, j \in DOMAIN shown : i < j => shown[i] < shown[j]
    BY <1>3 DEF PictureInv
  <2>2. ASSUME Quiet, due > 0 PROVE due \in decoded
    BY <1>3, <2>2 DEF QueueInv, Quiet
  <2>3. ASSUME Quiet, picture > 0 PROVE shown # <<>> /\ shown[Len(shown)] = picture
    BY <1>3, <2>3 DEF PictureInv, Quiet
  <2> QED
    BY <1>3, <2>1, <2>2, <2>3 DEF NewestShown, QueueInv
<1> QED
  BY <1>1, <1>2, <1>3, PTL DEF PlayerSpec

===============================================================================

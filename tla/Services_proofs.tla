-------------------------- MODULE Services_proofs --------------------------
(***************************************************************************)
(* Proofs about the services side by side (MCServices): a behaviour of     *)
(* theirs is one of each service, so what is proved of each holds in it,   *)
(* for any constants of all of them. First, the service with no proof      *)
(* module of its own: the zips of recordings users download                *)
(* (RecordingDownload), for any recordings, jobs and transfers.            *)
(***************************************************************************)
EXTENDS MCServices, CameraServices_proofs, Access_proofs, Pages_proofs, Recordings_proofs,
  NotificationFeed_proofs, TLAPS

(***************************************************************************)
(* RecordingDownload.  While a job is at work its directory holds, under   *)
(* each name it has made, a recording asked for that has the name, and     *)
(* every recording it has passed is either without segments or has a name  *)
(* that is made (MadeOf); so the zip holds each of them or a namesake.     *)
(* A ready job is in the map until its zip is away (Registered).           *)
(***************************************************************************)
Segmented(r) == clip[r].segments # <<>>

MadeOf(j) ==
  LET k == download[j] IN
  /\ \A i \in DOMAIN k.files :
       /\ k.files[i] \in DOMAIN dir[j] /\ dir[j][k.files[i]].of \in Range(k.asked)
       /\ Segmented(dir[j][k.files[i]].of) /\ clip[dir[j][k.files[i]].of].name = k.files[i]
  /\ Range(k.left) \subseteq Range(k.asked)
  /\ \A r \in Range(k.asked) \ Range(k.left) : Segmented(r) => clip[r].name \in Range(k.files)

HoldsAll(j) ==
  \A r \in Range(download[j].asked) : Segmented(r) =>
    \/ \E c \in Range(zip[j]) : c.of = r
    \/ \E q \in Range(download[j].asked) \ {r} : Segmented(q) /\ clip[q].name = clip[r].name

DownloadTyped ==
  /\ download \in [Downloads -> [at : {"none", "loop", "stat", "tidy", "done", "failed"},
                                 asked : Seq(Clips), left : Seq(Clips), files : Seq(FileNames)]]
  /\ clip \in [Clips -> [segments : Lists(Flags, 0, ClipSize), name : FileNames]]
  /\ DOMAIN dir = Downloads /\ DOMAIN zip = Downloads
  /\ jobs \subseteq Downloads /\ closing \subseteq jobs /\ lost \subseteq Downloads

Whole ==
  \A j \in Downloads :
    /\ download[j].at = "loop" => MadeOf(j) /\ DOMAIN dir[j] \subseteq FileNames
    /\ download[j].at \in {"stat", "tidy", "done"} /\ zip[j] # None => HoldsAll(j)

Registered ==
  \A j \in Downloads :
    /\ j \in jobs => download[j].at \in {"tidy", "done"}
    /\ j \in closing => zip[j] = None
    /\ download[j].at = "failed" => j \in lost
    /\ j \notin lost /\ download[j].at = "done" => dir[j] = None
    /\ j \notin lost /\ j \notin jobs /\ download[j].at \in {"tidy", "done"} => zip[j] = None

DownloadInv == DownloadTyped /\ Whole /\ Registered

LEMMA InitDownload == DownloadInit => DownloadInv
<1> SUFFICES ASSUME DownloadInit PROVE DownloadInv
  OBVIOUS
<1> USE DEF DownloadInit, NoDownload
<1>1. DownloadTyped
  BY DEF DownloadTyped
<1>2. \A j \in Downloads : download[j].at = "none"
  OBVIOUS
<1>3. QED
  BY <1>1, <1>2 DEF DownloadInv, Whole, Registered

\* What is said of a job whose records and files stay as they are.
LEMMA JobKept ==
  ASSUME NEW j \in Downloads, clip' = clip, dir'[j] = dir[j], zip'[j] = zip[j],
         download'[j].asked = download[j].asked, download'[j].left = download[j].left,
         download'[j].files = download[j].files
  PROVE  (MadeOf(j) => MadeOf(j)') /\ (HoldsAll(j) => HoldsAll(j)')
  BY DEF MadeOf, HoldsAll, Segmented

LEMMA RangeOfTail ==
  ASSUME NEW S, NEW q \in Seq(S), q # <<>>
  PROVE  Tail(q) \in Seq(S) /\ Head(q) \in S /\ Head(q) \in Range(q)
           /\ Range(q) = Range(Tail(q)) \cup {Head(q)}
<1>1. Tail(q) \in Seq(S) /\ Head(q) \in S /\ Len(q) > 0 /\ Len(Tail(q)) = Len(q) - 1
  OBVIOUS
<1>2. Head(q) = q[1] /\ \A i \in 1..Len(q) - 1 : Tail(q)[i] = q[i + 1]
  BY <1>1
<1>3. DOMAIN q = 1..Len(q) /\ DOMAIN Tail(q) = 1..Len(q) - 1
  BY <1>1
<1>4. \A i \in 1..Len(q) : i = 1 \/ i - 1 \in 1..Len(q) - 1
  BY <1>1
<1>5. Range(q) \subseteq Range(Tail(q)) \cup {Head(q)}
  <2>1. ASSUME NEW i \in 1..Len(q) PROVE q[i] \in Range(Tail(q)) \cup {Head(q)}
    <3>1. CASE i = 1
      BY <1>2, <3>1
    <3>2. CASE i - 1 \in 1..Len(q) - 1
      <4>1. Tail(q)[i - 1] = q[i]
        BY <1>2, <3>2
      <4>2. QED
        BY <1>3, <3>2, <4>1 DEF Range
    <3>3. QED
      BY <1>4, <3>1, <3>2
  <2>2. QED
    BY <1>3, <2>1 DEF Range
<1>6. Range(Tail(q)) \cup {Head(q)} \subseteq Range(q)
  BY <1>1, <1>2, <1>3 DEF Range
<1>7. QED
  BY <1>1, <1>5, <1>6

LEMMA ProcessBeginDownload ==
  ASSUME DownloadInv, NEW j \in Downloads, ProcessBegin(j)
  PROVE  DownloadInv'
<1>1. /\ download[j].at = "none" /\ dir' = [dir EXCEPT ![j] = <<>>]
      /\ UNCHANGED <<clip, zip, jobs, closing, transfer, processDeaths, lost>>
  BY DEF ProcessBegin
<1>2. PICK ids : /\ \E n \in Nat : ids \in [1..n -> Clips]
                 /\ download' = [download EXCEPT ![j] = [at |-> "loop", asked |-> ids, left |-> ids,
                                                        files |-> <<>>]]
  <2>1. \A m : \A q \in Lists(Clips, 1, m) : \E n \in Nat : q \in [1..n -> Clips]
    BY DEF Lists
  <2> QED
    BY <2>1 DEF ProcessBegin
<1>3. ids \in Seq(Clips)
  BY <1>2
<1>4. DownloadTyped'
  BY <1>1, <1>2, <1>3 DEF DownloadInv, DownloadTyped
<1>5. /\ download'[j].at = "loop" /\ download'[j].asked = download'[j].left /\ download'[j].files = <<>>
      /\ dir'[j] = <<>>
  BY <1>1, <1>2 DEF DownloadInv, DownloadTyped
<1>6. \A i \in Downloads \ {j} : download'[i] = download[i] /\ dir'[i] = dir[i] /\ zip'[i] = zip[i]
  BY <1>1, <1>2 DEF DownloadInv, DownloadTyped
<1>7. Whole'
  <2>1. MadeOf(j)' /\ DOMAIN dir'[j] \subseteq FileNames
    BY <1>5 DEF MadeOf
  <2>2. QED
    BY <1>1, <1>5, <1>6, <2>1, JobKept DEF DownloadInv, Whole
<1>8. Registered'
  BY <1>1, <1>5, <1>6 DEF DownloadInv, Registered
<1>9. QED
  BY <1>4, <1>7, <1>8 DEF DownloadInv

\* The record of a job that has passed a recording.
LEMMA JobRecord ==
  ASSUME NEW all \in Seq(Clips), NEW before \in Seq(Clips), NEW files \in Seq(FileNames), NEW k,
         k = [at |-> "loop", asked |-> all, left |-> before, files |-> files],
         NEW rest \in Seq(Clips), NEW more \in Seq(FileNames), NEW m,
         \/ m = [k EXCEPT !.left = rest] /\ more = files
         \/ m = [k EXCEPT !.left = rest, !.files = more]
  PROVE  /\ m \in [at : {"loop"}, asked : Seq(Clips), left : Seq(Clips), files : Seq(FileNames)]
         /\ m.at = "loop" /\ m.asked = all /\ m.left = rest /\ m.files = more
<1>1. /\ k \in [at : {"loop"}, asked : Seq(Clips), left : Seq(Clips), files : Seq(FileNames)]
      /\ k.asked = all /\ k.files = files
  OBVIOUS
<1>2. CASE m = [k EXCEPT !.left = rest] /\ more = files
  BY <1>1, <1>2
<1>3. CASE m = [k EXCEPT !.left = rest, !.files = more]
  BY <1>1, <1>3
<1>4. QED
  BY <1>2, <1>3

LEMMA RemuxDownload ==
  ASSUME DownloadInv, NEW j \in Downloads, Remux(j)
  PROVE  DownloadInv'
<1>1. /\ download[j].at = "loop" /\ download[j].left # <<>>
      /\ UNCHANGED <<clip, zip, jobs, closing, transfer, processDeaths, lost>>
  BY DEF Remux
<1>2. PICK k : k = download[j]
  OBVIOUS
<1>3. PICK a \in Seq(Clips), l \in Seq(Clips), f \in Seq(FileNames) :
        k = [at |-> "loop", asked |-> a, left |-> l, files |-> f]
  BY <1>1, <1>2 DEF DownloadInv, DownloadTyped
<1>4. PICK r : r = Head(l)
  OBVIOUS
<1>5. r \in Clips /\ Tail(l) \in Seq(Clips) /\ Range(l) = Range(Tail(l)) \cup {r}
  <2>1. l # <<>>
    BY <1>1, <1>2, <1>3
  <2>2. QED
    BY <1>4, <2>1, RangeOfTail
<1>6. clip[r].name \in FileNames
  BY <1>5 DEF DownloadInv, DownloadTyped
<1>7. MadeOf(j) /\ DOMAIN dir[j] \subseteq FileNames
  BY <1>1 DEF DownloadInv, Whole
<1>8. CASE clip[r].segments = <<>>
  <2>1. download' = [download EXCEPT ![j] = [k EXCEPT !.left = Tail(l)]] /\ UNCHANGED dir
    BY <1>2, <1>3, <1>4, <1>8 DEF Remux
  <2>2. PICK m : m = [k EXCEPT !.left = Tail(l)]
    OBVIOUS
  <2>3. /\ m \in [at : {"loop"}, asked : Seq(Clips), left : Seq(Clips), files : Seq(FileNames)]
        /\ m.at = "loop" /\ m.asked = a /\ m.left = Tail(l) /\ m.files = f
    BY <1>3, <1>5, <2>2, JobRecord
  <2>4. /\ DownloadTyped' /\ download'[j].at = "loop" /\ download'[j].asked = a
        /\ download'[j].left = Tail(l) /\ download'[j].files = f
    BY <1>1, <2>1, <2>2, <2>3 DEF DownloadInv, DownloadTyped
  <2>5. \A i \in Downloads \ {j} : download'[i] = download[i] /\ dir'[i] = dir[i] /\ zip'[i] = zip[i]
    BY <1>1, <2>1 DEF DownloadInv, DownloadTyped
  <2>6. MadeOf(j)' /\ DOMAIN dir'[j] \subseteq FileNames
    <3>1. /\ \A i \in DOMAIN f : /\ f[i] \in DOMAIN dir[j] /\ dir[j][f[i]].of \in Range(a)
                                 /\ Segmented(dir[j][f[i]].of) /\ clip[dir[j][f[i]].of].name = f[i]
          /\ Range(l) \subseteq Range(a)
          /\ \A q \in Range(a) \ Range(l) : Segmented(q) => clip[q].name \in Range(f)
      BY <1>2, <1>3, <1>7 DEF MadeOf
    <3>2. \A q : Segmented(q)' <=> Segmented(q)
      BY <1>1 DEF Segmented
    <3>3. \A q \in Range(a) \ Range(Tail(l)) : Segmented(q) => clip[q].name \in Range(f)
      BY <1>5, <1>8, <3>1 DEF Segmented
    <3>4. Range(Tail(l)) \subseteq Range(a)
      BY <1>5, <3>1
    <3>5. MadeOf(j)'
      BY <1>1, <2>1, <2>4, <3>1, <3>2, <3>3, <3>4 DEF MadeOf
    <3>6. QED
      BY <1>7, <2>1, <3>5
  <2>7. Whole'
    BY <1>1, <2>4, <2>5, <2>6, JobKept DEF DownloadInv, Whole
  <2>8. Registered'
    BY <1>1, <2>1, <2>4, <2>5 DEF DownloadInv, Registered
  <2>9. QED
    BY <2>4, <2>7, <2>8 DEF DownloadInv
<1>9. CASE clip[r].segments # <<>>
  <2>1. PICK t : t = [of |-> r, first |-> RemuxFirst(r)]
    OBVIOUS
  <2>2. PICK n \in FileNames : n = clip[r].name
    BY <1>6
  <2>3. /\ download' = [download EXCEPT ![j] = [k EXCEPT !.left = Tail(l), !.files = Append(f, n)]]
        /\ dir' = [dir EXCEPT ![j] = WithFile(dir[j], n, t)]
    BY <1>2, <1>3, <1>4, <1>9, <2>1, <2>2 DEF Remux
  <2>4. PICK m : m = [k EXCEPT !.left = Tail(l), !.files = Append(f, n)]
    OBVIOUS
  <2>5. /\ m \in [at : {"loop"}, asked : Seq(Clips), left : Seq(Clips), files : Seq(FileNames)]
        /\ m.at = "loop" /\ m.asked = a /\ m.left = Tail(l) /\ m.files = Append(f, n)
    <3>1. Append(f, n) \in Seq(FileNames)
      OBVIOUS
    <3>2. QED
      BY <1>3, <1>5, <2>4, <3>1, JobRecord
  <2>6. /\ DownloadTyped' /\ download'[j].at = "loop" /\ download'[j].asked = a
        /\ download'[j].left = Tail(l) /\ download'[j].files = Append(f, n)
    BY <1>1, <2>3, <2>4, <2>5 DEF DownloadInv, DownloadTyped
  <2>7. /\ dir'[j][n].of = r /\ DOMAIN dir'[j] = DOMAIN dir[j] \cup {n}
        /\ \A e \in DOMAIN dir[j] \ {n} : dir'[j][e] = dir[j][e]
    BY <2>1, <2>3 DEF DownloadInv, DownloadTyped, WithFile
  <2>8. \A i \in Downloads \ {j} : download'[i] = download[i] /\ dir'[i] = dir[i] /\ zip'[i] = zip[i]
    BY <1>1, <2>3 DEF DownloadInv, DownloadTyped
  <2>9. /\ DOMAIN Append(f, n) = 1..(Len(f) + 1) /\ Append(f, n)[Len(f) + 1] = n
        /\ \A i \in 1..Len(f) : Append(f, n)[i] = f[i]
        /\ DOMAIN f = 1..Len(f) /\ Len(f) \in Nat
    BY <1>3
  <2>10. /\ \A i \in DOMAIN f : /\ f[i] \in DOMAIN dir[j] /\ dir[j][f[i]].of \in Range(a)
                                /\ Segmented(dir[j][f[i]].of) /\ clip[dir[j][f[i]].of].name = f[i]
         /\ Range(l) \subseteq Range(a)
         /\ \A q \in Range(a) \ Range(l) : Segmented(q) => clip[q].name \in Range(f)
    BY <1>2, <1>3, <1>7 DEF MadeOf
  <2>11. MadeOf(j)'
    <3>1. \A q : Segmented(q)' <=> Segmented(q)
      BY <1>1 DEF Segmented
    <3>2. ASSUME NEW i \in DOMAIN Append(f, n)
          PROVE  /\ Append(f, n)[i] \in DOMAIN dir'[j] /\ dir'[j][Append(f, n)[i]].of \in Range(a)
                 /\ Segmented(dir'[j][Append(f, n)[i]].of)
                 /\ clip[dir'[j][Append(f, n)[i]].of].name = Append(f, n)[i]
      <4>1. PICK e : e = Append(f, n)[i]
        OBVIOUS
      <4>2. CASE e = n
        BY <1>5, <1>9, <2>2, <2>7, <2>10, <4>1, <4>2 DEF Segmented
      <4>3. CASE e # n
        <5>1. i \in 1..Len(f) /\ e = f[i]
          BY <2>9, <4>1, <4>3
        <5>2. QED
          BY <2>7, <2>9, <2>10, <4>1, <4>3, <5>1
      <4>4. QED
        BY <4>2, <4>3
    <3>3. Range(Append(f, n)) = Range(f) \cup {n}
      BY <2>9 DEF Range
    <3>4. \A q \in Range(a) \ Range(Tail(l)) : Segmented(q) => clip[q].name \in Range(Append(f, n))
      BY <1>5, <2>2, <2>10, <3>3
    <3>5. Range(Tail(l)) \subseteq Range(a)
      BY <1>5, <2>10
    <3>6. QED
      BY <1>1, <2>6, <3>1, <3>2, <3>4, <3>5 DEF MadeOf
  <2>12. Whole'
    BY <1>1, <1>7, <2>2, <2>6, <2>7, <2>8, <2>11, JobKept DEF DownloadInv, Whole
  <2>13. Registered'
    BY <1>1, <2>6, <2>8 DEF DownloadInv, Registered
  <2>14. QED
    BY <2>6, <2>12, <2>13 DEF DownloadInv
<1>10. QED
  BY <1>8, <1>9

\* The zip holds the file of every name: each recording's own or its namesake's.
LEMMA WriteZipDownload ==
  ASSUME DownloadInv, NEW j \in Downloads, WriteZip(j)
  PROVE  DownloadInv'
<1>1. /\ download[j].at = "loop" /\ download[j].left = <<>> /\ To(j, "stat")
      /\ zip' = [zip EXCEPT ![j] = [i \in DOMAIN download[j].files |-> dir[j][download[j].files[i]]]]
      /\ UNCHANGED <<clip, dir, jobs, closing, transfer, processDeaths, lost>>
  BY DEF WriteZip
<1>2. /\ download'[j].at = "stat" /\ download'[j].asked = download[j].asked
      /\ \A i \in Downloads \ {j} : download'[i] = download[i] /\ zip'[i] = zip[i]
      /\ zip'[j] = [i \in DOMAIN download[j].files |-> dir[j][download[j].files[i]]]
  BY <1>1 DEF To, DownloadInv, DownloadTyped
<1>3. DownloadTyped'
  <2>1. [download[j] EXCEPT !.at = "stat"] \in
          [at : {"none", "loop", "stat", "tidy", "done", "failed"},
           asked : Seq(Clips), left : Seq(Clips), files : Seq(FileNames)]
    BY DEF DownloadInv, DownloadTyped
  <2>2. download' = [download EXCEPT ![j] = [download[j] EXCEPT !.at = "stat"]]
    BY <1>1 DEF To
  <2>3. QED
    BY <1>1, <2>1, <2>2 DEF DownloadInv, DownloadTyped
<1>4. MadeOf(j) /\ Range(download[j].left) = {}
  BY <1>1 DEF DownloadInv, Whole, Range
<1>5. HoldsAll(j)'
  <2> SUFFICES ASSUME NEW r \in Range(download[j].asked), Segmented(r)
               PROVE  \/ \E c \in Range(zip'[j]) : c.of = r
                      \/ \E q \in Range(download[j].asked) \ {r} : Segmented(q) /\ clip[q].name = clip[r].name
    BY <1>1, <1>2 DEF HoldsAll, Segmented
  <2>1. clip[r].name \in Range(download[j].files)
    BY <1>4 DEF MadeOf
  <2>2. PICK i \in DOMAIN download[j].files : download[j].files[i] = clip[r].name
    BY <2>1 DEF Range
  <2>3. PICK q : q = dir[j][download[j].files[i]].of
    OBVIOUS
  <2>4. q \in Range(download[j].asked) /\ Segmented(q) /\ clip[q].name = clip[r].name
    BY <1>4, <2>2, <2>3 DEF MadeOf
  <2>5. zip'[j][i] \in Range(zip'[j]) /\ zip'[j][i].of = q
    BY <1>2, <2>2, <2>3 DEF Range
  <2>6. QED
    BY <2>4, <2>5
<1>6. Whole'
  BY <1>1, <1>2, <1>5, JobKept DEF DownloadInv, Whole
<1>7. Registered'
  <2>1. j \notin jobs /\ j \notin closing
    BY <1>1 DEF DownloadInv, DownloadTyped, Registered
  <2>2. QED
    BY <1>1, <1>2, <2>1 DEF DownloadInv, Registered
<1>8. QED
  BY <1>3, <1>6, <1>7 DEF DownloadInv

\* A job goes on without a change of what it made.
LEMMA ToTyped ==
  ASSUME DownloadInv, NEW j \in Downloads, NEW place \in {"tidy", "done", "failed"}, To(j, place)
  PROVE  /\ download' \in [Downloads -> [at : {"none", "loop", "stat", "tidy", "done", "failed"},
                                         asked : Seq(Clips), left : Seq(Clips), files : Seq(FileNames)]]
         /\ download'[j].at = place /\ download'[j].asked = download[j].asked
         /\ \A i \in Downloads \ {j} : download'[i] = download[i]
<1>1. [download[j] EXCEPT !.at = place] \in
        [at : {"none", "loop", "stat", "tidy", "done", "failed"},
         asked : Seq(Clips), left : Seq(Clips), files : Seq(FileNames)]
  BY DEF DownloadInv, DownloadTyped
<1>2. download' = [download EXCEPT ![j] = [download[j] EXCEPT !.at = place]]
  BY DEF To
<1>3. QED
  BY <1>1, <1>2 DEF DownloadInv, DownloadTyped

LEMMA RegisterDownload ==
  ASSUME DownloadInv, NEW j \in Downloads, Register(j)
  PROVE  DownloadInv'
<1>1. /\ download[j].at = "stat" /\ To(j, "tidy") /\ jobs' = jobs \cup {j}
      /\ UNCHANGED <<clip, dir, zip, closing, transfer, processDeaths, lost>>
  BY DEF Register
<1>2. /\ DownloadTyped' /\ download'[j].at = "tidy" /\ download'[j].asked = download[j].asked
      /\ \A i \in Downloads \ {j} : download'[i] = download[i]
  BY <1>1, ToTyped DEF DownloadInv, DownloadTyped
<1>3. HoldsAll(j)' <=> HoldsAll(j)
  BY <1>1, <1>2 DEF HoldsAll, Segmented
<1>4. Whole'
  BY <1>1, <1>2, <1>3, JobKept DEF DownloadInv, Whole
<1>5. Registered'
  BY <1>1, <1>2 DEF DownloadInv, Registered
<1>6. QED
  BY <1>2, <1>4, <1>5 DEF DownloadInv

LEMMA TidyDownload ==
  ASSUME DownloadInv, NEW j \in Downloads, Tidy(j)
  PROVE  DownloadInv'
<1>1. /\ download[j].at = "tidy" /\ To(j, "done") /\ dir' = [dir EXCEPT ![j] = None]
      /\ UNCHANGED <<clip, zip, jobs, closing, transfer, processDeaths, lost>>
  BY DEF Tidy
<1>2. /\ DownloadTyped' /\ download'[j].at = "done" /\ download'[j].asked = download[j].asked
      /\ \A i \in Downloads \ {j} : download'[i] = download[i]
  BY <1>1, ToTyped DEF DownloadInv, DownloadTyped
<1>3. dir'[j] = None /\ \A i \in Downloads \ {j} : dir'[i] = dir[i]
  BY <1>1 DEF DownloadInv, DownloadTyped
<1>4. HoldsAll(j)' <=> HoldsAll(j)
  BY <1>1, <1>2 DEF HoldsAll, Segmented
<1>5. Whole'
  BY <1>1, <1>2, <1>3, <1>4, JobKept DEF DownloadInv, Whole
<1>6. Registered'
  BY <1>1, <1>2, <1>3 DEF DownloadInv, Registered
<1>7. QED
  BY <1>2, <1>5, <1>6 DEF DownloadInv

LEMMA ProcessFailsDownload ==
  ASSUME DownloadInv, NEW j \in Downloads, ProcessFails(j)
  PROVE  DownloadInv'
<1>1. /\ download[j].at \in {"loop", "stat"} /\ To(j, "failed") /\ lost' = lost \cup {j}
      /\ UNCHANGED <<clip, dir, zip, jobs, closing, transfer, processDeaths>>
  BY DEF ProcessFails
<1>2. /\ DownloadTyped' /\ download'[j].at = "failed"
      /\ \A i \in Downloads \ {j} : download'[i] = download[i]
  BY <1>1, ToTyped DEF DownloadInv, DownloadTyped
<1>3. Whole'
  BY <1>1, <1>2, JobKept DEF DownloadInv, Whole
<1>4. Registered'
  BY <1>1, <1>2 DEF DownloadInv, Registered
<1>5. QED
  BY <1>2, <1>3, <1>4 DEF DownloadInv

(***************************************************************************)
(* cleanupJob: the zip goes first, the entry of the map after it.          *)
(***************************************************************************)
LEMMA UnlinkDownload ==
  ASSUME DownloadInv, NEW j \in jobs, Unlink(j), UNCHANGED <<clip, download, dir, jobs, processDeaths, lost>>
  PROVE  DownloadInv'
<1>1. j \in Downloads /\ zip' = [zip EXCEPT ![j] = None] /\ closing' = closing \cup {j}
  BY DEF DownloadInv, DownloadTyped, Unlink, Unlinked
<1>2. zip'[j] = None /\ \A i \in Downloads \ {j} : zip'[i] = zip[i]
  BY <1>1 DEF DownloadInv, DownloadTyped
<1>3. DownloadTyped'
  BY <1>1 DEF DownloadInv, DownloadTyped
<1>4. Whole'
  <2>1. \A i \in Downloads : MadeOf(i) => MadeOf(i)'
    BY DEF MadeOf, Segmented
  <2>2. \A i \in Downloads \ {j} : HoldsAll(i) => HoldsAll(i)'
    BY <1>2 DEF HoldsAll, Segmented
  <2>3. QED
    BY <1>2, <2>1, <2>2 DEF DownloadInv, Whole
<1>5. Registered'
  BY <1>1, <1>2 DEF DownloadInv, Registered
<1>6. QED
  BY <1>3, <1>4, <1>5 DEF DownloadInv

LEMMA CleanupDeleteDownload ==
  ASSUME DownloadInv, NEW j \in Downloads, CleanupDelete(j)
  PROVE  DownloadInv'
<1>1. /\ j \in closing /\ jobs' = jobs \ {j} /\ closing' = closing \ {j}
      /\ UNCHANGED <<clip, download, dir, zip, transfer, processDeaths, lost>>
  BY DEF CleanupDelete
<1>2. DownloadTyped'
  BY <1>1 DEF DownloadInv, DownloadTyped
<1>3. Whole'
  BY <1>1, JobKept DEF DownloadInv, Whole
<1>4. Registered'
  BY <1>1 DEF DownloadInv, Registered
<1>5. QED
  BY <1>2, <1>3, <1>4 DEF DownloadInv

LEMMA ProcessDiesDownload ==
  ASSUME DownloadInv, ProcessDies
  PROVE  DownloadInv'
<1>1. /\ lost' = lost \cup {j \in Downloads : download[j].at \notin {"none", "done"}} \cup jobs
      /\ download' = [j \in Downloads |->
           IF download[j].at \in {"loop", "stat", "tidy"}
             THEN [download[j] EXCEPT !.at = "failed"] ELSE download[j]]
      /\ jobs' = {} /\ closing' = {} /\ UNCHANGED <<clip, dir, zip>>
  BY DEF ProcessDies
<1>2. ASSUME NEW j \in Downloads
      PROVE  /\ download'[j] \in [at : {"none", "loop", "stat", "tidy", "done", "failed"},
                                  asked : Seq(Clips), left : Seq(Clips), files : Seq(FileNames)]
             /\ download[j].at \in {"loop", "stat", "tidy", "failed"} => download'[j].at = "failed"
             /\ download[j].at \in {"none", "done"} => download'[j] = download[j]
  <2>1. download[j] \in [at : {"none", "loop", "stat", "tidy", "done", "failed"},
                         asked : Seq(Clips), left : Seq(Clips), files : Seq(FileNames)]
    BY DEF DownloadInv, DownloadTyped
  <2>2. CASE download[j].at \in {"loop", "stat", "tidy"}
    <3>1. download'[j] = [download[j] EXCEPT !.at = "failed"]
      BY <1>1, <2>2
    <3>2. QED
      BY <2>1, <2>2, <3>1
  <2>3. CASE download[j].at \notin {"loop", "stat", "tidy"}
    BY <1>1, <2>1, <2>3
  <2>4. QED
    BY <2>2, <2>3
<1>3. DownloadTyped'
  <2>1. download' \in [Downloads -> [at : {"none", "loop", "stat", "tidy", "done", "failed"},
                                     asked : Seq(Clips), left : Seq(Clips), files : Seq(FileNames)]]
    BY <1>1, <1>2
  <2>2. QED
    BY <1>1, <2>1 DEF DownloadInv, DownloadTyped
<1>4. \A j \in Downloads : download[j].at \in {"none", "loop", "stat", "tidy", "done", "failed"}
  BY DEF DownloadInv, DownloadTyped
<1>5. Whole'
  BY <1>1, <1>2, <1>4, JobKept DEF DownloadInv, Whole
<1>6. Registered'
  BY <1>1, <1>2, <1>4 DEF DownloadInv, Registered
<1>7. QED
  BY <1>3, <1>5, <1>6 DEF DownloadInv

\* A GET of a zip changes nothing that is said of the jobs, but by its end.
LEMMA TransferDownload ==
  ASSUME DownloadInv, NEW t \in Transfers,
         GetJob(t) \/ OpenZip(t) \/ OpenMissing(t) \/ SendEnd(t) \/ SendAborted(t)
  PROVE  DownloadInv'
<1>1. ASSUME UNCHANGED <<clip, download, dir, zip, jobs, closing, lost>> PROVE DownloadInv'
  BY <1>1, JobKept DEF DownloadInv, DownloadTyped, Whole, Registered
<1>2. CASE GetJob(t) \/ OpenZip(t) \/ SendAborted(t)
  BY <1>1, <1>2 DEF GetJob, OpenZip, SendAborted
<1>3. CASE OpenMissing(t)
  BY <1>3, ProcessDiesDownload DEF OpenMissing
<1>4. CASE SendEnd(t)
  <2>1. PICK j : j = transfer[t].job
    OBVIOUS
  <2>2. CASE j \in jobs
    BY <1>4, <2>1, <2>2, UnlinkDownload DEF SendEnd
  <2>3. CASE j \notin jobs
    BY <1>1, <1>4, <2>1, <2>3 DEF SendEnd
  <2>4. QED
    BY <2>2, <2>3
<1>5. QED
  BY <1>2, <1>3, <1>4

LEMMA DownloadStepInv == DownloadInv /\ [DownloadNext]_downloadVars => DownloadInv'
<1> SUFFICES ASSUME DownloadInv, [DownloadNext]_downloadVars PROVE DownloadInv'
  OBVIOUS
<1>1. ASSUME NEW j \in Downloads, CleanupOld(j) PROVE DownloadInv'
  BY <1>1, UnlinkDownload DEF CleanupOld
<1>2. ASSUME NEW j \in Downloads,
             \/ ProcessBegin(j) \/ Remux(j) \/ WriteZip(j) \/ Register(j) \/ Tidy(j) \/ ProcessFails(j)
             \/ CleanupDelete(j)
      PROVE  DownloadInv'
  BY <1>2, ProcessBeginDownload, RemuxDownload, WriteZipDownload, RegisterDownload, TidyDownload,
     ProcessFailsDownload, CleanupDeleteDownload
<1>3. CASE UNCHANGED downloadVars
  BY <1>3, JobKept DEF downloadVars, DownloadInv, DownloadTyped, Whole, Registered
<1>4. QED
  BY <1>1, <1>2, <1>3, TransferDownload, ProcessDiesDownload DEF DownloadNext

\* A job's directory has, under each name it made, a recording of that name, and none of
\* those it has passed is missing.  (BulkDownloadService.processJob,
\* bulk-download.service.ts:57)
THEOREM DownloadInvHolds == DownloadSpec => []DownloadInv
<1>1. QED
  BY InitDownload, DownloadStepInv, PTL DEF DownloadSpec

\* A ready job holds what was asked for, and what is over leaves nothing behind.
\* (BulkDownloadService.processJob and cleanupJob, bulk-download.service.ts:57)
THEOREM DownloadsWholeHolds == DownloadSpec => []DownloadsWhole
<1>1. DownloadInv => DownloadsWhole
  <2> SUFFICES ASSUME DownloadInv, NEW j \in Downloads
               PROVE  LET ids == download[j].asked IN
                      /\ download[j].at \in {"stat", "tidy", "done"} /\ zip[j] # None =>
                           \A i \in DOMAIN ids : clip[ids[i]].segments # <<>> =>
                             \/ \E k \in DOMAIN zip[j] : zip[j][k].of = ids[i]
                             \/ \E k \in DOMAIN ids : /\ ids[k] # ids[i] /\ clip[ids[k]].segments # <<>>
                                                      /\ clip[ids[k]].name = clip[ids[i]].name
                      /\ j \notin lost =>
                           /\ download[j].at = "done" => dir[j] = None
                           /\ download[j].at = "done" /\ j \notin jobs => zip[j] = None
    BY DEF DownloadsWhole
  <2>1. download[j].at \in {"stat", "tidy", "done"} /\ zip[j] # None => HoldsAll(j)
    BY DEF DownloadInv, Whole
  <2>2. /\ j \notin lost /\ download[j].at = "done" => dir[j] = None
        /\ j \notin lost /\ j \notin jobs /\ download[j].at \in {"tidy", "done"} => zip[j] = None
    BY DEF DownloadInv, Registered
  <2>3. QED
    BY <2>1, <2>2 DEF HoldsAll, Segmented, Range
<1>2. QED
  BY <1>1, DownloadInvHolds, PTL

\* Types of what is on the disk, and of transfers.
DiskTyped ==
  \A j \in Downloads :
    /\ zip[j] # None => zip[j] \in Seq(Content)
    /\ dir[j] # None => dir[j] \in [DOMAIN dir[j] -> Content] /\ DOMAIN dir[j] \subseteq FileNames
    /\ download[j].at = "loop" => dir[j] \in [DOMAIN dir[j] -> Content]

TransferTyped ==
  /\ transfer \in [Transfers -> [at : {"idle", "open", "send"}, job : Downloads \cup {None}]]
  /\ processDeaths \in 0..MaxProcessDeaths

\* A recording with segments is downloaded from its first.
LEMMA RemuxFromFirst ==
  ASSUME DownloadTyped, NEW r \in Clips, clip[r].segments # <<>>
  PROVE  [of |-> r, first |-> RemuxFirst(r)] \in Content
<1>1. PICK n \in 0..ClipSize : clip[r].segments \in [1..n -> Flags]
  <2>1. PICK flags \in Lists(Flags, 0, ClipSize) : flags = clip[r].segments
    BY DEF DownloadTyped
  <2>2. QED
    BY <2>1 DEF Lists
<1>2. n \in Nat /\ n # 0 /\ 1 <= ClipSize /\ ClipSize \in Nat
  BY <1>1, DownloadAssumption
<1>3. DOMAIN Selected(clip[r].segments) = 1..n
  BY <1>1 DEF Selected
<1>4. {k \in DOMAIN Selected(clip[r].segments) : Selected(clip[r].segments)[k] # "no"} = 1..n
  BY <1>1 DEF Selected
<1>5. 1 \in 1..n /\ \A k \in 1..n : (\A i \in 1..n : k <= i) => k = 1
  <2>1. 1 \in 1..n
    BY <1>2
  <2>2. ASSUME NEW k \in 1..n, \A i \in 1..n : k <= i PROVE k = 1
    <3>1. k <= 1
      BY <2>1, <2>2
    <3>2. QED
      BY <3>1
  <2>3. QED
    BY <2>1, <2>2
<1>6. RemuxFirst(r) = 1
  BY <1>4, <1>5 DEF RemuxFirst, firstPlayable
<1>7. QED
  BY <1>2, <1>6 DEF Content

LEMMA JobsToTheDisk ==
  ASSUME DownloadInv, DiskTyped, NEW j \in Downloads,
         ProcessBegin(j) \/ Remux(j) \/ WriteZip(j) \/ Register(j) \/ Tidy(j) \/ ProcessFails(j)
  PROVE  DiskTyped'
<1> USE DEF DownloadInv, DownloadTyped
<1>1. CASE ProcessBegin(j)
  <2>1. dir' = [dir EXCEPT ![j] = <<>>] /\ zip' = zip /\ \A i \in Downloads \ {j} : download'[i] = download[i]
    BY <1>1 DEF ProcessBegin
  <2>2. <<>> \in [{} -> Content] /\ DOMAIN <<>> = {}
    OBVIOUS
  <2>3. QED
    BY <2>1, <2>2 DEF DiskTyped
<1>2. CASE Remux(j)
  <2>1. /\ download[j].at = "loop" /\ download[j].left # <<>> /\ zip' = zip
        /\ \A i \in Downloads \ {j} : download'[i] = download[i]
    BY <1>2 DEF Remux
  <2>2. CASE clip[Head(download[j].left)].segments = <<>>
    BY <1>2, <2>1, <2>2 DEF Remux, DiskTyped
  <2>3. CASE clip[Head(download[j].left)].segments # <<>>
    <3>1. PICK r \in Clips : r = Head(download[j].left) /\ clip[r].segments # <<>>
      <4>1. download[j].left \in Seq(Clips)
        OBVIOUS
      <4>2. QED
        BY <2>1, <2>3, <4>1
    <3>2. PICK c \in Content : dir' = [dir EXCEPT ![j] = WithFile(dir[j], clip[r].name, c)]
      BY <1>2, <2>1, <3>1, RemuxFromFirst DEF Remux
    <3>3. PICK files : files = dir[j]
      OBVIOUS
    <3>4. files \in [DOMAIN files -> Content] /\ DOMAIN files \subseteq FileNames /\ clip[r].name \in FileNames
      BY <2>1, <3>1, <3>3 DEF DiskTyped, Whole
    <3>5. /\ WithFile(files, clip[r].name, c) \in [DOMAIN files \cup {clip[r].name} -> Content]
          /\ DOMAIN files \cup {clip[r].name} \subseteq FileNames
      BY <3>4 DEF WithFile
    <3>6. /\ dir'[j] \in [DOMAIN dir'[j] -> Content] /\ DOMAIN dir'[j] \subseteq FileNames
          /\ \A i \in Downloads \ {j} : dir'[i] = dir[i]
      BY <3>2, <3>3, <3>5
    <3>7. QED
      BY <2>1, <3>6 DEF DiskTyped
  <2>4. QED
    BY <2>2, <2>3
<1>3. CASE WriteZip(j)
  <2>1. /\ download[j].at = "loop" /\ dir' = dir
        /\ zip' = [zip EXCEPT ![j] = [i \in DOMAIN download[j].files |-> dir[j][download[j].files[i]]]]
        /\ download' = [download EXCEPT ![j].at = "stat"]
    BY <1>3 DEF WriteZip, To
  <2>2. PICK files \in Seq(FileNames) : files = download[j].files
    OBVIOUS
  <2>3. dir[j] \in [DOMAIN dir[j] -> Content] /\ \A i \in DOMAIN files : files[i] \in DOMAIN dir[j]
    BY <2>1, <2>2 DEF DiskTyped, Whole, MadeOf
  <2>4. \A i \in 1..Len(files) : dir[j][files[i]] \in Content
    BY <2>2, <2>3
  <2>5. [i \in 1..Len(files) |-> dir[j][files[i]]] \in Seq(Content)
    BY <2>2, <2>4
  <2>6. /\ zip'[j] = [i \in DOMAIN download[j].files |-> dir[j][download[j].files[i]]]
        /\ \A i \in Downloads \ {j} : zip'[i] = zip[i] /\ download'[i] = download[i]
    BY <2>1
  <2>7. zip'[j] \in Seq(Content)
    <3>1. DOMAIN files = 1..Len(files)
      BY <2>2
    <3>2. zip'[j] = [i \in 1..Len(files) |-> dir[j][files[i]]]
      BY <2>2, <2>6, <3>1
    <3>3. QED
      BY <2>5, <3>2
  <2>8. download'[j].at = "stat"
    BY <2>1
  <2>9. QED
    BY <2>1, <2>3, <2>6, <2>7, <2>8 DEF DiskTyped, Whole
<1>4. CASE Register(j) \/ ProcessFails(j)
  <2>1. /\ dir' = dir /\ zip' = zip /\ \A i \in Downloads \ {j} : download'[i] = download[i]
        /\ download'[j].at \in {"tidy", "failed"}
    BY <1>4 DEF Register, ProcessFails, To
  <2>2. QED
    BY <2>1 DEF DiskTyped
<1>5. CASE Tidy(j)
  <2>1. /\ dir' = [dir EXCEPT ![j] = None] /\ zip' = zip
        /\ \A i \in Downloads \ {j} : download'[i] = download[i]
        /\ download'[j].at = "done"
    BY <1>5 DEF Tidy, To
  <2>2. QED
    BY <2>1 DEF DiskTyped
<1>6. QED
  BY <1>1, <1>2, <1>3, <1>4, <1>5

LEMMA DiskKept ==
  ASSUME DownloadInv, DiskTyped, dir' = dir, NEW gone \in SUBSET Downloads,
         \A j \in Downloads : zip'[j] = zip[j] \/ zip'[j] = None,
         \A j \in Downloads : download'[j].at = "loop" => download[j].at = "loop"
  PROVE  DiskTyped'
BY DEF DiskTyped

LEMMA DownloadTypesStep ==
  ASSUME DownloadInv, DiskTyped, TransferTyped, [DownloadNext]_downloadVars
  PROVE  DiskTyped' /\ TransferTyped'
<1>1. ASSUME NEW j \in Downloads,
             ProcessBegin(j) \/ Remux(j) \/ WriteZip(j) \/ Register(j) \/ Tidy(j) \/ ProcessFails(j)
      PROVE  DiskTyped' /\ TransferTyped'
  <2>1. UNCHANGED <<transfer, processDeaths>>
    BY <1>1 DEF ProcessBegin, Remux, WriteZip, Register, Tidy, ProcessFails
  <2>2. QED
    BY <1>1, <2>1, JobsToTheDisk DEF TransferTyped
<1>2. ASSUME NEW j \in Downloads, CleanupOld(j) \/ CleanupDelete(j) PROVE DiskTyped' /\ TransferTyped'
  <2>1. UNCHANGED <<transfer, processDeaths, dir, download>>
    BY <1>2 DEF CleanupOld, CleanupDelete
  <2>2. \A i \in Downloads : zip'[i] = zip[i] \/ zip'[i] = None
    BY <1>2 DEF CleanupOld, CleanupDelete, Unlink, Unlinked, DownloadInv, DownloadTyped
  <2>3. QED
    BY <2>1, <2>2, DiskKept DEF TransferTyped
<1>3. ASSUME NEW t \in Transfers, GetJob(t) \/ OpenZip(t) \/ SendEnd(t) \/ SendAborted(t)
      PROVE  DiskTyped' /\ TransferTyped'
  <2>1. UNCHANGED <<dir, download, processDeaths>>
    BY <1>3 DEF GetJob, OpenZip, SendEnd, SendAborted
  <2>2. \A i \in Downloads : zip'[i] = zip[i] \/ zip'[i] = None
    BY <1>3 DEF GetJob, OpenZip, SendEnd, SendAborted, Unlink, Unlinked, DownloadInv, DownloadTyped
  <2>3. TransferTyped'
    <3>1. CASE GetJob(t)
      <4>1. PICK i \in jobs : transfer' = [transfer EXCEPT ![t] = [at |-> "open", job |-> i]]
        BY <3>1 DEF GetJob
      <4>2. i \in Downloads
        BY DEF DownloadInv, DownloadTyped
      <4>3. QED
        BY <2>1, <4>1, <4>2 DEF TransferTyped
    <3>2. CASE OpenZip(t)
      <4>1. transfer' = [transfer EXCEPT ![t] = [transfer[t] EXCEPT !.at = "send"]]
        BY <3>2 DEF OpenZip
      <4>2. [transfer[t] EXCEPT !.at = "send"] \in [at : {"idle", "open", "send"}, job : Downloads \cup {None}]
        BY DEF TransferTyped
      <4>3. QED
        BY <2>1, <4>1, <4>2 DEF TransferTyped
    <3>3. CASE SendEnd(t) \/ SendAborted(t)
      BY <2>1, <3>3 DEF SendEnd, SendAborted, TransferTyped, NoTransfer
    <3>4. QED
      BY <1>3, <3>1, <3>2, <3>3
  <2>4. QED
    BY <2>1, <2>2, <2>3, DiskKept
<1>4. CASE ProcessDies
  <2>1. UNCHANGED <<dir, zip>> /\ \A j \in Downloads : download'[j].at = "loop" => download[j].at = "loop"
    BY <1>4 DEF ProcessDies, DownloadInv, DownloadTyped
  <2>2. TransferTyped'
    BY <1>4, DownloadAssumption DEF ProcessDies, TransferTyped, NoTransfer
  <2>3. QED
    BY <2>1, <2>2, DiskKept
<1>5. CASE UNCHANGED downloadVars
  BY <1>5 DEF downloadVars, DiskTyped, TransferTyped
<1>6. QED
  BY <1>1, <1>2, <1>3, <1>4, <1>5 DEF DownloadNext, OpenMissing

\* Types, what the disk holds included: a zip is a sequence of remuxed recordings, in every
\* reachable state.  (BulkDownloadService, bulk-download.service.ts:37)
LEMMA DownloadTypeCorrect == DownloadSpec => []DownloadTypeOK
<1> DEFINE Typed == DownloadInv /\ DiskTyped /\ TransferTyped
<1>1. DownloadInit => Typed
  <2>1. DownloadInit => DiskTyped /\ TransferTyped
    BY DownloadAssumption DEF DownloadInit, DiskTyped, TransferTyped, NoDownload, NoTransfer
  <2>2. QED
    BY <2>1, InitDownload
<1>2. Typed /\ [DownloadNext]_downloadVars => Typed'
  BY DownloadTypesStep, DownloadStepInv
<1>3. Typed => DownloadTypeOK
  <2> SUFFICES ASSUME Typed PROVE DownloadTypeOK
    OBVIOUS
  <2>1. ASSUME NEW r \in Clips PROVE clip[r].segments \in Seq(Flags) /\ clip[r].name \in FileNames
    <3>1. PICK flags \in Lists(Flags, 0, ClipSize) : flags = clip[r].segments /\ clip[r].name \in FileNames
      BY DEF DownloadInv, DownloadTyped
    <3>2. flags \in Seq(Flags)
      BY DownloadAssumption DEF Lists
    <3>3. QED
      BY <3>1, <3>2
  <2>2. QED
    BY <2>1 DEF DownloadTypeOK, DownloadInv, DownloadTyped, DiskTyped, TransferTyped
<1>4. QED
  BY <1>1, <1>2, <1>3, PTL DEF DownloadSpec

(***************************************************************************)
(* The services side by side.  A step of theirs is a step of the service   *)
(* that moves and leaves the others as they are, so a behaviour of theirs  *)
(* is one of each service; what is proved of each then holds of them all.  *)
(***************************************************************************)
LEMMA EachBegins ==
  ServicesInit =>
    /\ InventoryInit
    /\ KeyInit
    /\ ProfileInit
    /\ ProbeInit
    /\ TagInit
    /\ PlaybackInit
    /\ PolicyInit
    /\ MemberInit
    /\ UsageInit
    /\ ScheduleInit
    /\ DownloadInit
    /\ StartsInit
    /\ HealthInit
    /\ AlertInit
    /\ TailInit
    /\ FeedInit
    /\ DialogInit
    /\ RowsInit
    /\ PanelInit
BY DEF ServicesInit

\* The calls of the archive and of the starts are steps of Recordings.
LEMMA CallsStep ==
  /\ CallsOf(Callers, Recs) /\ StartsStep => StartsNext
  /\ ArchiveNext /\ StartsStep => StartsNext
<1>1. (CHOOSE k \in Callers : TRUE) \in Callers
  BY ServicesAssumption
<1>2. ASSUME NEW callers \in SUBSET Callers, CallsOf(callers, Recs) PROVE Next
  BY <1>2 DEF CallsOf, Next
<1>3. ArchiveNext => Next
  <2>1. CASE CallsOf({CHOOSE k \in Callers : TRUE}, Recs)
    BY <1>1, <1>2, <2>1
  <2>2. CASE \/ \E h \in Hooks, c \in Cameras, s \in Segments : HookRead(h, c, s)
             \/ \E h \in Hooks : HookStep(h) \/ HookThrows(h)
    BY <2>2 DEF Next
  <2> QED
    BY <2>1, <2>2 DEF ArchiveNext
<1> QED
  BY <1>2, <1>3 DEF StartsNext

LEMMA EachSteps ==
  ASSUME [ServicesNext]_serviceVars
  PROVE  /\ [InventoryNext]_inventoryVars
         /\ [KeyNext]_keyVars
         /\ [ProfileNext]_profileVars
         /\ [ProbeNext]_probeVars
         /\ [TagNext]_tagVars
         /\ [PlaybackNext]_playbackVars
         /\ [PolicyNext]_policyVars
         /\ [MemberNext]_memberVars
         /\ [UsageNext]_usageVars
         /\ [ScheduleNext]_scheduleVars
         /\ [DownloadNext]_downloadVars
         /\ [StartsNext]_startsVars
         /\ [HealthNext]_gaugeVars
         /\ [AlertNext]_alertVars
         /\ [TailNext]_tailVars
         /\ [FeedNext]_feedVars
         /\ [DialogNext]_dialogVars
         /\ [RowsNext]_rowsVars
         /\ [PanelNext]_panelVars
<1>1. CASE UNCHANGED serviceVars
  BY <1>1 DEF serviceVars
<1>2. CASE Only("inventory") /\ InventoryNext
  BY <1>2 DEF Only
<1>3. CASE Only("keys") /\ KeyNext
  BY <1>3 DEF Only
<1>4. CASE Only("profiles") /\ ProfileNext
  BY <1>4 DEF Only
<1>5. CASE Only("probe") /\ ProbeNext
  BY <1>5 DEF Only
<1>6. CASE Only("tags") /\ TagNext
  BY <1>6 DEF Only
<1>7. CASE Only("playback") /\ PlaybackNext
  BY <1>7 DEF Only
<1>8. CASE Only("policies") /\ PolicyNext
  BY <1>8 DEF Only
<1>9. CASE Only("members") /\ MemberNext
  BY <1>9 DEF Only
<1>10. CASE Only("usage") /\ UsageNext
  BY <1>10 DEF Only
<1>11. CASE Only("schedules") /\ ScheduleNext
  BY <1>11 DEF Only
<1>12. CASE Only("download") /\ DownloadNext
  BY <1>12 DEF Only
<1>13. CASE \/ Only("archive") /\ ArchiveNext /\ StartsStep
            \/ Only("starts") /\ CallsOf(Callers, Recs) /\ StartsStep
  BY <1>13, CallsStep DEF Only
<1>14. CASE Only("health") /\ HealthNext
  BY <1>14 DEF Only
<1>15. CASE Only("alerts") /\ AlertNext
  BY <1>15 DEF Only
<1>16. CASE Only("tail") /\ TailNext
  BY <1>16 DEF Only
<1>17. CASE Only("bell") /\ ~excused /\ FeedNext
  BY <1>17 DEF Only
<1>18. CASE Only("import") /\ ~doubt /\ DialogNext
  BY <1>18 DEF Only
<1>19. CASE Only("rows") /\ RowsNext
  BY <1>19 DEF Only
<1>20. CASE Only("panel") /\ PanelNext
  BY <1>20 DEF Only
<1> QED
  BY <1>1, <1>2, <1>3, <1>4, <1>5, <1>6, <1>7, <1>8, <1>9, <1>10,
     <1>11, <1>12, <1>13, <1>14, <1>15, <1>16, <1>17, <1>18, <1>19, <1>20
     DEF ServicesNext

\* A behaviour of the services side by side is one of each of them (of probes, but for
\* their fairness), for any constants of all.  (AppModule, app.module.ts:33)
THEOREM ServicesApart ==
  ServicesSpec =>
    /\ InventorySpec
    /\ KeySpec
    /\ ProfileSpec
    /\ ProbeInit /\ [][ProbeNext]_probeVars
    /\ TagSpec
    /\ PlaybackSpec
    /\ PolicySpec
    /\ MemberSpec
    /\ UsageSpec
    /\ ScheduleSpec
    /\ DownloadSpec
    /\ StartsSpec
    /\ HealthSpec
    /\ AlertSpec
    /\ TailSpec
    /\ FeedSpec
    /\ DialogSpec
    /\ RowsSpec
    /\ PanelSpec
<1>1. ServicesSpec => InventorySpec
  BY EachBegins, EachSteps, PTL DEF ServicesSpec, InventorySpec
<1>2. ServicesSpec => KeySpec
  BY EachBegins, EachSteps, PTL DEF ServicesSpec, KeySpec
<1>3. ServicesSpec => ProfileSpec
  BY EachBegins, EachSteps, PTL DEF ServicesSpec, ProfileSpec
<1>4. ServicesSpec => ProbeInit /\ [][ProbeNext]_probeVars
  BY EachBegins, EachSteps, PTL DEF ServicesSpec
<1>5. ServicesSpec => TagSpec
  BY EachBegins, EachSteps, PTL DEF ServicesSpec, TagSpec
<1>6. ServicesSpec => PlaybackSpec
  BY EachBegins, EachSteps, PTL DEF ServicesSpec, PlaybackSpec
<1>7. ServicesSpec => PolicySpec
  BY EachBegins, EachSteps, PTL DEF ServicesSpec, PolicySpec
<1>8. ServicesSpec => MemberSpec
  BY EachBegins, EachSteps, PTL DEF ServicesSpec, MemberSpec
<1>9. ServicesSpec => UsageSpec
  BY EachBegins, EachSteps, PTL DEF ServicesSpec, UsageSpec
<1>10. ServicesSpec => ScheduleSpec
  BY EachBegins, EachSteps, PTL DEF ServicesSpec, ScheduleSpec
<1>11. ServicesSpec => DownloadSpec
  BY EachBegins, EachSteps, PTL DEF ServicesSpec, DownloadSpec
<1>12. ServicesSpec => StartsSpec
  BY EachBegins, EachSteps, PTL DEF ServicesSpec, StartsSpec
<1>13. ServicesSpec => HealthSpec
  BY EachBegins, EachSteps, PTL DEF ServicesSpec, HealthSpec
<1>14. ServicesSpec => AlertSpec
  BY EachBegins, EachSteps, PTL DEF ServicesSpec, AlertSpec
<1>15. ServicesSpec => TailSpec
  BY EachBegins, EachSteps, PTL DEF ServicesSpec, TailSpec
<1>16. ServicesSpec => FeedSpec
  BY EachBegins, EachSteps, PTL DEF ServicesSpec, FeedSpec
<1>17. ServicesSpec => DialogSpec
  BY EachBegins, EachSteps, PTL DEF ServicesSpec, DialogSpec
<1>18. ServicesSpec => RowsSpec
  BY EachBegins, EachSteps, PTL DEF ServicesSpec, RowsSpec
<1>19. ServicesSpec => PanelSpec
  BY EachBegins, EachSteps, PTL DEF ServicesSpec, PanelSpec
<1> QED
  BY <1>1, <1>2, <1>3, <1>4, <1>5, <1>6, <1>7, <1>8, <1>9, <1>10,
     <1>11, <1>12, <1>13, <1>14, <1>15, <1>16, <1>17, <1>18, <1>19

PartKnown == part \in Parts

\* Types, in every reachable state of the services side by side.  (AppModule, app.module.ts:33)
THEOREM ServicesTyped == ServicesSpec => []ServicesTypeOK
<1>1. ServicesSpec => []ProbeInv
  BY ServicesApart, ProbeInitInv, ProbeStepInv, PTL
<1>2. FeedTyped => FeedTypeOK
  <2> SUFFICES ASSUME FeedTyped PROVE FeedTypeOK
    OBVIOUS
  <2>1. \A k \in DOMAIN shown : shown[k] \in [id : Notices, read : BOOLEAN]
    <3>1. shown \in Seq(ShownEntries)
      BY DEF FeedTyped
    <3>2. \A k \in DOMAIN shown : shown[k] \in ShownEntries
      BY <3>1
    <3> QED
      BY <3>2 DEF ShownEntries
  <2>2. /\ \A c \in Clicks : click[c].at \in {"idle", "sent", "answered"}
        /\ loading.over \in BOOLEAN
    BY DEF FeedTyped, ClickRecord
  <2> QED
    BY <2>1, <2>2 DEF FeedTyped, FeedTypeOK
<1>3. PanelTyped => PanelTypeOK
  BY DEF PanelTyped, PanelTypeOK, AskRecord, ActRecord, BulkRecord
<1>4. PartKnown /\ [ServicesNext]_serviceVars => PartKnown'
  BY DEF PartKnown, ServicesNext, Only, serviceVars
<1>5. ServicesInit => PartKnown
  BY DEF PartKnown, ServicesInit
<1>6. ServicesSpec => []PartKnown
  BY <1>4, <1>5, PTL DEF ServicesSpec
<1>7. InventoryInv /\ KeyInv /\ ProfileInv /\ ProbeInv /\ TagInv =>
       InventoryTypeOK /\ KeyTypeOK /\ ProfileTypeOK /\ ProbeTypeOK /\ TagTypeOK
  BY DEF InventoryInv, KeyInv, ProfileInv, ProbeInv, TagInv
<1>8. PlaybackInv /\ MemberInv /\ UsageInv /\ ScheduleInv =>
       PlaybackTypeOK /\ MemberTypeOK /\ UsageTypeOK /\ ScheduleTypeOK
  BY DEF PlaybackInv, MemberInv, UsageInv, ScheduleInv
<1>9. GaugeInv /\ AlertInv /\ TailInv /\ BellInv /\ PanelInv =>
       HealthTypeOK /\ AlertTypeOK /\ TailTypeOK /\ FeedTypeOK /\ PanelTypeOK
  BY <1>2, <1>3 DEF GaugeInv, AlertInv, TailInv, BellInv, PanelInv
<1>10. ServicesSpec => [](InventoryTypeOK /\ KeyTypeOK /\ ProfileTypeOK /\ ProbeTypeOK /\ TagTypeOK)
  BY <1>1, <1>7, ServicesApart, InventoryInvHolds, KeysSound, ProfilesSound, TagInvHolds, PTL
<1>11. ServicesSpec => [](PlaybackTypeOK /\ MemberTypeOK /\ UsageTypeOK /\ ScheduleTypeOK)
  BY <1>8, ServicesApart, Counted, RemovalsSure, UsageInvHolds, ScheduleInvHolds, PTL
<1>12. ServicesSpec => [](HealthTypeOK /\ AlertTypeOK /\ TailTypeOK /\ FeedTypeOK /\ PanelTypeOK)
  BY <1>9, ServicesApart, GaugeInvHolds, AlertInvHolds, TailInvHolds, BellInvHolds, PanelInvHolds, PTL
<1>13. ServicesSpec => [](PolicyTypeOK /\ DownloadTypeOK /\ DialogTypeOK /\ RowsTypeOK)
  BY ServicesApart, PolicyTypesHold, DownloadTypeCorrect, DialogTypesHold, RowsTypesHold, PTL
<1>14. ASSUME PartKnown,
              InventoryTypeOK, KeyTypeOK, ProfileTypeOK, ProbeTypeOK, TagTypeOK, PlaybackTypeOK, MemberTypeOK,
              UsageTypeOK, ScheduleTypeOK, HealthTypeOK, AlertTypeOK, TailTypeOK, FeedTypeOK, PanelTypeOK,
              PolicyTypeOK, DownloadTypeOK, DialogTypeOK, RowsTypeOK
       PROVE  ServicesTypeOK
  BY <1>14 DEF ServicesTypeOK, PartKnown
<1> QED
  BY <1>6, <1>10, <1>11, <1>12, <1>13, <1>14, PTL

\* What the services promise, each by itself, holds side by side.  (AppModule,
\* app.module.ts:33)
THEOREM ServicesSound ==
  ServicesSpec =>
    /\ []InventorySound /\ []StrangerExplained /\ []OneDefaultUnlessBlurred /\ []PendingHasProbe
    /\ []TagsSound /\ []ViewersCounted /\ []ScalarsInherited /\ []UsageExplained
    /\ []AgreedDaysFollow /\ []DownloadsWhole /\ []QuotaNearlyKept /\ []FlagTellsUnlessCrossed
    /\ []DegradedTold /\ []LogTailServes /\ []BellTellsRows /\ []ImportDialogSound
    /\ []RowsTellStatus /\ []PanelTellsNode
    /\ UsedDeletedOnlyWhenLate /\ AdmittedWithinLimit /\ LastAdminRemovedOnlyWhenStale /\ AlertsSpaced
<1>1. ServicesSpec => []InventorySound /\ []StrangerExplained /\ []OneDefaultUnlessBlurred /\ []TagsSound
  BY ServicesApart, InventorySoundHolds, StrangersExplained, OneDefaultAlways, TagsSoundHolds, PTL
<1>2. ServicesSpec => []PendingHasProbe
  <2>1. ProbeInv => PendingHasProbe
    BY DEF ProbeInv, PendingServed, PendingHasProbe
  <2> QED
    BY <2>1, ServicesApart, ProbeInitInv, ProbeStepInv, PTL
<1>3. ServicesSpec => []ViewersCounted /\ []ScalarsInherited /\ []UsageExplained /\ []LogTailServes
  BY ServicesApart, ViewersAlwaysCounted, ScalarsInheritedHolds, UsageAlwaysExplained, LogTailServesHolds, PTL
<1>4. ServicesSpec => []AgreedDaysFollow /\ []DownloadsWhole /\ []FlagTellsUnlessCrossed /\ []DegradedTold
  BY ServicesApart, AgreedDaysFollowHolds, DownloadsWholeHolds, FlagAlwaysTells, DegradedToldHolds, PTL
<1>5. ServicesSpec => []QuotaNearlyKept
  <2>1. StartsInit => Init
    BY DEF StartsInit
  <2>2. [StartsNext]_startsVars => [Next]_vars
    BY DEF StartsNext, startsVars
  <2>3. StartsSpec => Spec
    BY <2>1, <2>2, PTL DEF StartsSpec, Spec
  <2> QED
    BY <2>3, ServicesApart, QuotaAlwaysNearlyKept
<1>6. ServicesSpec => []BellTellsRows /\ []ImportDialogSound /\ []RowsTellStatus /\ []PanelTellsNode
  BY ServicesApart, BellTellsRowsHolds, ImportDialogSoundHolds, RowsTellStatusHolds, PanelTellsNodeHolds, PTL
<1>7. ServicesSpec => /\ UsedDeletedOnlyWhenLate /\ AdmittedWithinLimit
                      /\ LastAdminRemovedOnlyWhenStale /\ AlertsSpaced
  BY ServicesApart, UsedKept, AdmittedAlwaysWithinLimit, LastAdminStays, AlertsSpacedHolds
<1> QED
  BY <1>1, <1>2, <1>3, <1>4, <1>5, <1>6, <1>7
=============================================================================

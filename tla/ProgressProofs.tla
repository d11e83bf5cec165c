---------------------------- MODULE ProgressProofs ----------------------------
(***************************************************************************)
(* Theorems about Progress: the bar, the bytes that are planned for and    *)
(* the free space, for any number of repositories of any sizes on a disk   *)
(* of any size.                                                            *)
(***************************************************************************)
EXTENDS Progress, FoldProofs

-----------------------------------------------------------------------------
(* The inductive invariant: what holds of one job's status s, error e,     *)
(* total_bytes t and downloaded_bytes b, of the bytes d on disk, of the    *)
(* next step of its thread and the poller p.                               *)

Statuses == {"absent", "queued", "running", "verifying", "completed", "failed", "deleting"}
Errors == {"none", "other", "disk full"}
Row == [status : Statuses, error : Errors, total : Nat, bar : Nat]
Reading == [on : BOOLEAN, read : SUBSET Nat]

Measures(j, s, e, t, b, d, p) ==
    /\ t \in {0, Size[j]} /\ b \in 0..Size[j] /\ d \in 0..Size[j]
    /\ s = "absent" => e = "none" /\ t = 0 /\ b = 0
    /\ p.read \subseteq 0..Size[j]

(* The thread at a step works on a row with the status of that step, and   *)
(* only the threads that download or remove have a poller.                 *)
StepFits(s, step, p) ==
    /\ step \in {"measure", "download", "complete", "stop", "runOut", "settle"}
           => s = "running"
    /\ step \in {"verify", "land"} => s = "verifying"
    /\ step \in {"remove", "renew", "drop", "empty", "giveUp", "requeue"}
           => s = "deleting"
    /\ p = Off \/ step \in Polled \cup Joining

(* Where the size is known, and where all of it is on the disk. *)
Whole(j, s, t, d, step) ==
    /\ s \in {"completed", "verifying"} \/ step \in {"download", "complete", "settle"}
           => t = Size[j]
    /\ s \in {"completed", "verifying"} \/ step \in {"complete", "settle"} => d = Size[j]

(* What the bar says while only the thread in charge has set it: at most   *)
(* what is on the disk unless that is being removed, nothing when it has   *)
(* been, all of it when it is complete.                                    *)
BarFits(j, s, b, d, step) ==
    /\ s # "deleting" => b <= d
    /\ step = "requeue" => b = 0
    /\ step \in {"settle", "land"} \/ s = "completed" => b = Size[j]

Sound(j, s, e, t, b, d, step, p, blur, share) ==
    /\ Measures(j, s, e, t, b, d, p)
    /\ StepFits(s, step, p)
    /\ Whole(j, s, t, d, step)
    /\ ~blur => BarFits(j, s, b, d, step)
    /\ s = "running" => \A bytes \in p.read : bytes <= d
    /\ e = "disk full" => s = "failed" /\ share
    /\ step = "runOut" => share

Typed ==
    /\ row \in [Jobs -> Row]
    /\ disk \in [Jobs -> Nat]
    /\ at \in [Jobs -> Steps]
    /\ poller \in [Jobs -> Reading]
    /\ late \subseteq Jobs \X Nat
    /\ \A report \in late : report[2] \in 0..Size[report[1]]
    /\ blurred \subseteq Jobs /\ sizer \subseteq Jobs /\ shared \subseteq Jobs

AllSound ==
    \A j \in Jobs : Sound(j, row[j].status, row[j].error, row[j].total, row[j].bar,
                          disk[j], at[j], poller[j], j \in blurred, j \in shared)

(* A download that shares the disk with no other has room for what it      *)
(* lacks.                                                                  *)
RoomAlone ==
    \A j \in Jobs : at[j] = "download" /\ j \notin shared =>
        Downloading = {j} /\ Size[j] - disk[j] <= Free

Inv == Typed /\ AllSound /\ RoomAlone

(* What is known of one job's values. *)
LEMMA OneJob ==
    ASSUME Typed, AllSound, NEW j \in Jobs
    PROVE  /\ row[j].status \in Statuses /\ row[j].error \in Errors
           /\ row[j].total \in Nat /\ row[j].bar \in Nat
           /\ disk[j] \in Nat /\ at[j] \in Steps /\ poller[j] \in Reading
           /\ Size[j] \in Nat /\ Size[j] > 0
           /\ Sound(j, row[j].status, row[j].error, row[j].total, row[j].bar,
                    disk[j], at[j], poller[j], j \in blurred, j \in shared)
BY ProgressAssumption DEF Typed, AllSound, Row

LEMMA Pollers ==
    /\ Off \in Reading /\ Unread \in Reading /\ Off.read = {} /\ Unread.read = {}
    /\ Unread # Off
BY DEF Off, Unread, Reading

LEMMA NoRowType ==
    /\ NoRow \in Row /\ NoRow.status = "absent" /\ NoRow.error = "none"
    /\ NoRow.total = 0 /\ NoRow.bar = 0
BY DEF NoRow, Row, Statuses, Errors

LEMMA InvInit == Init => Inv
<1> SUFFICES ASSUME Init PROVE Inv
  OBVIOUS
<1>1. Size \in [Jobs -> Nat \ {0}]
  BY ProgressAssumption
<1>2. Typed
  BY NoRowType, Pollers DEF Init, Typed, Steps
<1>3. ASSUME NEW j \in Jobs
      PROVE  Sound(j, row[j].status, row[j].error, row[j].total, row[j].bar,
                   disk[j], at[j], poller[j], j \in blurred, j \in shared)
  <2>1. row[j] = NoRow /\ disk[j] = 0 /\ at[j] = "none" /\ poller[j] = Off
    BY DEF Init
  <2>2. Size[j] \in Nat /\ 0 \in 0..Size[j]
    BY <1>1
  <2>3. \A blur, share : Sound(j, "absent", "none", 0, 0, 0, "none", Off, blur, share)
    BY Pollers, <2>2 DEF Sound, Measures, StepFits, Whole, BarFits
  <2> QED
    BY NoRowType, <2>1, <2>3
<1>4. RoomAlone
  BY DEF Init, RoomAlone
<1> QED
  BY <1>2, <1>3, <1>4 DEF Inv, AllSound

-----------------------------------------------------------------------------
(* A step that is about one job. *)

RowIs(j, s, e, t, b) ==
    \E r \in Row : /\ row' = [row EXCEPT ![j] = r]
                   /\ r.status = s /\ r.error = e /\ r.total = t /\ r.bar = b

DiskIs(j, d) == disk' = [disk EXCEPT ![j] = d]

(* Another job may find itself sharing the disk, that is all. *)
Others(j) ==
    /\ \A i \in Jobs \ {j} : /\ i \in blurred <=> i \in blurred'
                             /\ i \in shared => i \in shared'
    /\ late' \subseteq Jobs \X Nat
    /\ \A report \in late' : report[2] \in 0..Size[report[1]]
    /\ blurred' \subseteq Jobs /\ sizer' \subseteq Jobs /\ shared' \subseteq Jobs

LEMMA JobStep ==
    ASSUME Typed, AllSound, NEW j \in Jobs, NEW s, NEW e, NEW t, NEW b, NEW d \in Nat,
           NEW step \in Steps, NEW p \in Reading,
           RowIs(j, s, e, t, b), DiskIs(j, d), GoTo(j, step), Poller(j, p), Others(j),
           Sound(j, s, e, t, b, d, step, p, j \in blurred', j \in shared')
    PROVE  Typed' /\ AllSound'
<1>1. PICK r \in Row : /\ row' = [row EXCEPT ![j] = r]
                       /\ r.status = s /\ r.error = e /\ r.total = t /\ r.bar = b
  BY DEF RowIs
<1>2. Typed'
  BY <1>1 DEF Typed, DiskIs, GoTo, Poller, Others
<1>3. ASSUME NEW i \in Jobs
      PROVE  Sound(i, row'[i].status, row'[i].error, row'[i].total, row'[i].bar, disk'[i],
                   at'[i], poller'[i], i \in blurred', i \in shared')
  <2>1. CASE i = j
    <3>1. row'[j] = r /\ disk'[j] = d /\ at'[j] = step /\ poller'[j] = p
      BY <1>1 DEF Typed, DiskIs, GoTo, Poller
    <3> QED
      BY <1>1, <2>1, <3>1
  <2>2. CASE i # j
    <3>1. /\ row'[i] = row[i] /\ disk'[i] = disk[i]
          /\ at'[i] = at[i] /\ poller'[i] = poller[i]
      BY <1>1, <2>2 DEF Typed, DiskIs, GoTo, Poller
    <3>2. (i \in blurred <=> i \in blurred') /\ (i \in shared => i \in shared')
      BY <2>2 DEF Others
    <3>3. Sound(i, row[i].status, row[i].error, row[i].total, row[i].bar, disk[i],
                at[i], poller[i], i \in blurred, i \in shared)
      BY DEF AllSound
    <3> QED
      BY <3>1, <3>2, <3>3 DEF Sound
  <2> QED
    BY <2>1, <2>2
<1> QED
  BY <1>2, <1>3 DEF AllSound

(* The ways a step writes the row. *)
LEMMA RowWrites ==
    ASSUME Typed, NEW j \in Jobs
    PROVE  /\ UNCHANGED row =>
                 RowIs(j, row[j].status, row[j].error, row[j].total, row[j].bar)
           /\ \A s \in Statuses, e \in Errors :
                 Status(j, s, e) => RowIs(j, s, e, row[j].total, row[j].bar)
           /\ \A s \in Statuses :
                 row' = [row EXCEPT ![j].status = s] =>
                     RowIs(j, s, row[j].error, row[j].total, row[j].bar)
           /\ \A b \in Nat :
                 row' = [row EXCEPT ![j].bar = b] =>
                     RowIs(j, row[j].status, row[j].error, row[j].total, b)
           /\ \A b, t \in Nat :
                 row' = [row EXCEPT ![j].bar = b, ![j].total = t] =>
                     RowIs(j, row[j].status, row[j].error, t, b)
<1>1. row[j] \in Row /\ row \in [Jobs -> Row]
  BY DEF Typed
<1>2. UNCHANGED row => row' = [row EXCEPT ![j] = row[j]]
  BY <1>1
<1>3. UNCHANGED row => RowIs(j, row[j].status, row[j].error, row[j].total, row[j].bar)
  BY <1>1, <1>2 DEF RowIs
<1>4. ASSUME NEW s \in Statuses, NEW e \in Errors, Status(j, s, e)
      PROVE  RowIs(j, s, e, row[j].total, row[j].bar)
  <2> DEFINE r == [row[j] EXCEPT !.status = s, !.error = e]
  <2>1. r \in Row /\ r.status = s /\ r.error = e
        /\ r.total = row[j].total /\ r.bar = row[j].bar
    BY <1>1 DEF Row
  <2>2. row' = [row EXCEPT ![j] = r]
    BY <1>1, <1>4 DEF Status
  <2> HIDE DEF r
  <2> QED
    BY <2>1, <2>2 DEF RowIs
<1>5. ASSUME NEW s \in Statuses, row' = [row EXCEPT ![j].status = s]
      PROVE  RowIs(j, s, row[j].error, row[j].total, row[j].bar)
  <2> DEFINE r == [row[j] EXCEPT !.status = s]
  <2>1. r \in Row /\ r.status = s /\ r.error = row[j].error
        /\ r.total = row[j].total /\ r.bar = row[j].bar
    BY <1>1 DEF Row
  <2>2. row' = [row EXCEPT ![j] = r]
    BY <1>1, <1>5
  <2> HIDE DEF r
  <2> QED
    BY <2>1, <2>2 DEF RowIs
<1>6. ASSUME NEW b \in Nat, row' = [row EXCEPT ![j].bar = b]
      PROVE  RowIs(j, row[j].status, row[j].error, row[j].total, b)
  <2> DEFINE r == [row[j] EXCEPT !.bar = b]
  <2>1. r \in Row /\ r.status = row[j].status /\ r.error = row[j].error
        /\ r.total = row[j].total /\ r.bar = b
    BY <1>1 DEF Row
  <2>2. row' = [row EXCEPT ![j] = r]
    BY <1>1, <1>6
  <2> HIDE DEF r
  <2> QED
    BY <2>1, <2>2 DEF RowIs
<1>7. ASSUME NEW b \in Nat, NEW t \in Nat,
             row' = [row EXCEPT ![j].bar = b, ![j].total = t]
      PROVE  RowIs(j, row[j].status, row[j].error, t, b)
  <2> DEFINE r == [row[j] EXCEPT !.bar = b, !.total = t]
  <2>1. r \in Row /\ r.status = row[j].status /\ r.error = row[j].error
        /\ r.total = t /\ r.bar = b
    BY <1>1 DEF Row
  <2>2. row' = [row EXCEPT ![j] = r]
    BY <1>1, <1>7
  <2> HIDE DEF r
  <2> QED
    BY <2>1, <2>2 DEF RowIs
<1> QED
  BY <1>3, <1>4, <1>5, <1>6, <1>7

(* What a step leaves alone. *)
LEMMA Unchanged ==
    ASSUME Typed, NEW j \in Jobs
    PROVE  /\ UNCHANGED disk => DiskIs(j, disk[j])
           /\ UNCHANGED at => GoTo(j, at[j])
           /\ UNCHANGED poller => Poller(j, poller[j])
BY DEF Typed, DiskIs, GoTo, Poller
(* Why each step that moves bytes keeps a job sound. *)
LEMMA WritingIsSound ==
    ASSUME NEW j \in Jobs, NEW s, NEW e, NEW t \in Nat, NEW b \in Nat, NEW d \in Nat,
           NEW p \in Reading, NEW blur, NEW share, d < Size[j],
           Sound(j, s, e, t, b, d, "download", p, blur, share)
    PROVE  Sound(j, s, e, t, b, d + 1, "download", p, blur, share)
<1>1. Size[j] \in Nat /\ p.read \subseteq Nat
  BY ProgressAssumption DEF Reading
<1>2. d + 1 \in 0..Size[j] /\ d + 1 \in Nat /\ d + 1 > d
  BY <1>1
<1>3. s = "running"
  BY DEF Sound, StepFits
<1>4. Measures(j, s, e, t, b, d + 1, p)
  BY <1>2, <1>3 DEF Sound, Measures
<1>5. Whole(j, s, t, d + 1, "download")
  BY <1>3 DEF Sound, Whole
<1>6. ~blur => BarFits(j, s, b, d + 1, "download")
  <2>1. ~blur => b <= d
    BY <1>3 DEF Sound, BarFits
  <2> QED
    BY <1>3, <2>1 DEF BarFits
<1>7. ASSUME NEW bytes \in p.read PROVE bytes <= d + 1
  <2>1. bytes <= d
    BY <1>3 DEF Sound
  <2> QED
    BY <1>1, <2>1
<1> QED
  BY <1>3, <1>4, <1>5, <1>6, <1>7 DEF Sound

LEMMA UnlinkingIsSound ==
    ASSUME NEW j \in Jobs, NEW s, NEW e, NEW t \in Nat, NEW b \in Nat, NEW d \in Nat,
           NEW p \in Reading, NEW blur, NEW share, NEW step \in {"remove", "renew"}, d > 0,
           Sound(j, s, e, t, b, d, step, p, blur, share)
    PROVE  Sound(j, s, e, t, b, d - 1, step, p, blur, share)
<1>1. Size[j] \in Nat
  BY ProgressAssumption
<1>2. s = "deleting" /\ d \in 0..Size[j]
  BY DEF Sound, StepFits, Measures
<1>3. d - 1 \in 0..Size[j]
  BY <1>1, <1>2
<1>4. Measures(j, s, e, t, b, d - 1, p)
  BY <1>2, <1>3 DEF Sound, Measures
<1>5. Whole(j, s, t, d - 1, step) /\ BarFits(j, s, b, d - 1, step)
  BY <1>2 DEF Sound, Whole, BarFits
<1> QED
  BY <1>2, <1>4, <1>5 DEF Sound

LEMMA FillingIsSound ==
    ASSUME NEW j \in Jobs, NEW s, NEW e, NEW t \in Nat, NEW b \in Nat, NEW d \in Nat,
           NEW p \in Reading, NEW blur, NEW share,
           Sound(j, s, e, t, b, d, "complete", p, blur, share)
    PROVE  \A also : Sound(j, s, e, t, Size[j], d, "settle", Off, FALSE, also)
<1>1. Size[j] \in Nat /\ Size[j] \in 0..Size[j] /\ Size[j] <= Size[j]
  BY ProgressAssumption
<1>2. s = "running" /\ d = Size[j] /\ t = Size[j] /\ e # "disk full"
  BY DEF Sound, StepFits, Whole
<1>3. Measures(j, s, e, t, Size[j], d, Off)
  BY <1>1, <1>2, Pollers DEF Sound, Measures
<1>4. StepFits(s, "settle", Off) /\ Whole(j, s, t, d, "settle")
  BY <1>2 DEF Sound, StepFits, Whole
<1>5. BarFits(j, s, Size[j], d, "settle")
  BY <1>1, <1>2 DEF BarFits
<1> QED
  BY <1>2, <1>3, <1>4, <1>5, Pollers DEF Sound

LEMMA ConcludingIsSound ==
    ASSUME NEW j \in Jobs, NEW s, NEW e, NEW t \in Nat, NEW b \in Nat, NEW d \in Nat,
           NEW p \in Reading, NEW blur, NEW share,
           Sound(j, s, e, t, b, d, "verify", p, blur, share)
    PROVE  Sound(j, s, e, t, t, d, "land", p, FALSE, share)
<1>1. Size[j] \in Nat /\ Size[j] \in 0..Size[j] /\ Size[j] <= Size[j]
  BY ProgressAssumption
<1>2. s = "verifying" /\ d = Size[j] /\ t = Size[j] /\ e # "disk full" /\ p = Off
  BY DEF Sound, StepFits, Whole, Polled, Joining
<1>3. Measures(j, s, e, t, t, d, p)
  BY <1>1, <1>2 DEF Sound, Measures
<1>4. StepFits(s, "land", p) /\ Whole(j, s, t, d, "land")
  BY <1>2 DEF Sound, StepFits, Whole
<1>5. BarFits(j, s, t, d, "land")
  BY <1>1, <1>2 DEF BarFits
<1> QED
  BY <1>2, <1>3, <1>4, <1>5, Pollers DEF Sound

LEMMA EmptyingIsSound ==
    ASSUME NEW j \in Jobs, NEW s, NEW e, NEW t \in Nat, NEW b \in Nat, NEW d \in Nat,
           NEW p \in Reading, NEW blur, NEW share,
           Sound(j, s, e, t, b, d, "empty", p, blur, share)
    PROVE  Sound(j, s, e, t, 0, d, "requeue", Off, FALSE, share)
<1>1. Size[j] \in Nat /\ 0 \in 0..Size[j] /\ 0 <= d
  BY ProgressAssumption
<1>2. s = "deleting" /\ e # "disk full"
  BY DEF Sound, StepFits
<1>3. Measures(j, s, e, t, 0, d, Off)
  BY <1>1, <1>2, Pollers DEF Sound, Measures
<1>4. StepFits(s, "requeue", Off) /\ Whole(j, s, t, d, "requeue")
  BY <1>2 DEF Sound, StepFits, Whole
<1>5. BarFits(j, s, 0, d, "requeue")
  BY <1>1, <1>2 DEF BarFits
<1> QED
  BY <1>2, <1>3, <1>4, <1>5, Pollers DEF Sound

LEMMA RequeuingIsSound ==
    ASSUME NEW j \in Jobs, NEW s, NEW e, NEW t \in Nat, NEW b \in Nat, NEW d \in Nat,
           NEW p \in Reading, NEW blur, NEW share,
           Sound(j, s, e, t, b, d, "requeue", p, blur, share)
    PROVE  Sound(j, "queued", "none", t, b, d, "none", p, blur, share)
<1>1. d >= 0
  OBVIOUS
<1>2. s = "deleting" /\ p = Off
  BY DEF Sound, StepFits, Polled, Joining
<1>3. Measures(j, "queued", "none", t, b, d, p)
  BY <1>2 DEF Sound, Measures
<1>4. StepFits("queued", "none", p) /\ Whole(j, "queued", t, d, "none")
  BY <1>2 DEF StepFits, Whole
<1>5. ~blur => BarFits(j, "queued", b, d, "none")
  <2>1. ~blur => b = 0
    BY DEF Sound, BarFits
  <2> QED
    BY <1>1, <2>1 DEF BarFits
<1> QED
  BY <1>2, <1>3, <1>4, <1>5 DEF Sound

LEMMA MeasuringIsSound ==
    ASSUME NEW j \in Jobs, NEW s, NEW e, NEW t \in Nat, NEW b \in Nat, NEW d \in Nat,
           NEW p \in Reading, NEW blur, NEW share,
           Sound(j, s, e, t, b, d, "measure", p, blur, share)
    PROVE  /\ \A also : Sound(j, s, e, Size[j], d, d, "download", Unread, FALSE, also)
           /\ Sound(j, "failed", "other", Size[j], d, d, "none", p, FALSE, share)
<1>1. Size[j] \in Nat /\ d <= d
  BY ProgressAssumption
<1>2. s = "running" /\ d \in 0..Size[j] /\ e # "disk full" /\ p = Off
  BY DEF Sound, StepFits, Polled, Joining, Measures
<1>3. /\ Measures(j, s, e, Size[j], d, d, Unread)
      /\ Measures(j, "failed", "other", Size[j], d, d, p)
  BY <1>1, <1>2, Pollers DEF Sound, Measures
<1>4. /\ StepFits(s, "download", Unread) /\ Whole(j, s, Size[j], d, "download")
      /\ StepFits("failed", "none", p) /\ Whole(j, "failed", Size[j], d, "none")
  BY <1>2 DEF Sound, StepFits, Whole, Polled
<1>5. BarFits(j, s, d, d, "download") /\ BarFits(j, "failed", d, d, "none")
  BY <1>1, <1>2 DEF BarFits
<1> QED
  BY <1>2, <1>3, <1>4, <1>5, Pollers DEF Sound

LEMMA DroppingIsSound ==
    ASSUME NEW j \in Jobs, NEW s, NEW e, NEW t \in Nat, NEW b \in Nat, NEW d \in Nat,
           NEW step, NEW p \in Reading, NEW blur, NEW share,
           Sound(j, s, e, t, b, d, step, p, blur, share)
    PROVE  Sound(j, "absent", "none", 0, 0, d, "none", Off, FALSE, share)
<1>1. Size[j] \in Nat /\ 0 \in 0..Size[j] /\ 0 <= d
  BY ProgressAssumption
<1>2. Measures(j, "absent", "none", 0, 0, d, Off)
  BY <1>1, Pollers DEF Sound, Measures
<1>3. StepFits("absent", "none", Off) /\ Whole(j, "absent", 0, d, "none")
  BY DEF StepFits, Whole
<1>4. BarFits(j, "absent", 0, d, "none")
  BY <1>1 DEF BarFits
<1> QED
  BY <1>2, <1>3, <1>4, Pollers DEF Sound

LEMMA CreatingIsSound ==
    ASSUME NEW j \in Jobs, NEW e, NEW t \in Nat, NEW b \in Nat, NEW d \in Nat,
           NEW p \in Reading, NEW blur, NEW share,
           Sound(j, "absent", e, t, b, d, "none", p, blur, share)
    PROVE  Sound(j, "queued", "none", 0, 0, d, "none", p, FALSE, share)
<1>1. Size[j] \in Nat /\ 0 \in 0..Size[j] /\ 0 <= d
  BY ProgressAssumption
<1>2. p = Off
  BY DEF Sound, StepFits, Polled, Joining
<1>3. Measures(j, "queued", "none", 0, 0, d, p)
  BY <1>1, <1>2 DEF Sound, Measures
<1>4. StepFits("queued", "none", p) /\ Whole(j, "queued", 0, d, "none")
  BY <1>2 DEF StepFits, Whole
<1>5. BarFits(j, "queued", 0, d, "none")
  BY <1>1 DEF BarFits
<1> QED
  BY <1>2, <1>3, <1>4, <1>5 DEF Sound

LEMMA SizingIsSound ==
    ASSUME NEW j \in Jobs, NEW s, NEW e, NEW t \in Nat, NEW b \in Nat, NEW d \in Nat,
           NEW step, NEW p \in Reading, NEW blur, NEW share, s # "absent",
           Sound(j, s, e, t, b, d, step, p, blur, share)
    PROVE  /\ Sound(j, s, e, Size[j], 0, d, step, p, TRUE, share)
           /\ s = "queued" => Sound(j, s, e, Size[j], 0, d, step, p, FALSE, share)
<1>1. Size[j] \in Nat /\ 0 \in 0..Size[j] /\ 0 <= d
  BY ProgressAssumption
<1>2. Measures(j, s, e, Size[j], 0, d, p)
  BY <1>1 DEF Sound, Measures
<1>3. StepFits(s, step, p) /\ Whole(j, s, Size[j], d, step)
  BY DEF Sound, Whole
<1>4. Sound(j, s, e, Size[j], 0, d, step, p, TRUE, share)
  BY <1>2, <1>3 DEF Sound
<1>5. ASSUME s = "queued" PROVE BarFits(j, s, 0, d, step)
  BY <1>1, <1>5 DEF Sound, StepFits, BarFits
<1> QED
  BY <1>4, <1>5 DEF Sound

LEMMA HashingIsSound ==
    ASSUME NEW j \in Jobs, NEW s, NEW e, NEW t \in Nat, NEW b \in Nat, NEW d \in Nat,
           NEW p \in Reading, NEW blur, NEW share, NEW bytes \in 0..d,
           Sound(j, s, e, t, b, d, "verify", p, blur, share)
    PROVE  Sound(j, s, e, t, bytes, d, "verify", p, FALSE, share)
<1>1. Size[j] \in Nat /\ bytes \in Nat /\ bytes <= d
  BY ProgressAssumption
<1>2. s = "verifying" /\ d = Size[j]
  BY DEF Sound, StepFits, Whole
<1>3. bytes \in 0..Size[j]
  BY <1>1, <1>2
<1>4. Measures(j, s, e, t, bytes, d, p)
  BY <1>2, <1>3 DEF Sound, Measures
<1>5. BarFits(j, s, bytes, d, "verify")
  BY <1>1, <1>2 DEF BarFits
<1> QED
  BY <1>2, <1>4, <1>5 DEF Sound

LEMMA ReadingIsSound ==
    ASSUME NEW j \in Jobs, NEW s, NEW e, NEW t \in Nat, NEW b \in Nat, NEW d \in Nat,
           NEW step \in Polled, NEW p \in Reading, NEW blur, NEW share,
           Sound(j, s, e, t, b, d, step, p, blur, share)
    PROVE  Sound(j, s, e, t, b, d, step, [on |-> TRUE, read |-> {d}], blur, share)
<1> DEFINE q == [on |-> TRUE, read |-> {d}]
<1>1. d <= d /\ q.read = {d}
  OBVIOUS
<1>2. d \in 0..Size[j]
  BY DEF Sound, Measures
<1>3. Measures(j, s, e, t, b, d, q)
  BY <1>1, <1>2 DEF Sound, Measures
<1>4. StepFits(s, step, q)
  BY DEF Sound, StepFits
<1> HIDE DEF q
<1>5. Sound(j, s, e, t, b, d, step, q, blur, share)
  BY <1>1, <1>3, <1>4 DEF Sound
<1> QED
  BY <1>5 DEF q

LEMMA ReportingIsSound ==
    ASSUME NEW j \in Jobs, NEW s, NEW e, NEW t \in Nat, NEW b \in Nat, NEW d \in Nat,
           NEW step, NEW p \in Reading, NEW blur, NEW share, NEW bytes \in p.read,
           Sound(j, s, e, t, b, d, step, p, blur, share)
    PROVE  /\ step \in Polled => Sound(j, s, e, t, bytes, d, step, Unread, FALSE, share)
           /\ Sound(j, s, e, t, bytes, d, step, Off, FALSE, share)
<1>1. Size[j] \in Nat /\ bytes \in Nat /\ bytes \in 0..Size[j] /\ p # Off
  BY ProgressAssumption, Pollers DEF Reading, Sound, Measures
<1>2. step \in Polled \cup Joining
  BY <1>1 DEF Sound, StepFits
<1>3. s \in {"running", "deleting"}
  BY <1>2 DEF Sound, StepFits, Polled, Joining
<1>4. /\ Measures(j, s, e, t, bytes, d, Unread)
      /\ Measures(j, s, e, t, bytes, d, Off)
  BY <1>1, <1>3, Pollers DEF Sound, Measures
<1>5. /\ step \in Polled => StepFits(s, step, Unread)
      /\ StepFits(s, step, Off)
  BY DEF Sound, StepFits
<1>6. BarFits(j, s, bytes, d, step)
  <2>1. s # "deleting" => bytes <= d
    BY <1>3 DEF Sound
  <2> QED
    BY <1>2, <1>3, <2>1 DEF BarFits, Polled, Joining
<1> QED
  BY <1>4, <1>5, <1>6, Pollers DEF Sound

LEMMA LateReportIsSound ==
    ASSUME NEW j \in Jobs, NEW s, NEW e, NEW t \in Nat, NEW b \in Nat, NEW d \in Nat,
           NEW step, NEW p \in Reading, NEW blur, NEW share, NEW bytes \in 0..Size[j],
           s # "absent", Sound(j, s, e, t, b, d, step, p, blur, share)
    PROVE  Sound(j, s, e, t, bytes, d, step, p, TRUE, share)
<1>1. Measures(j, s, e, t, bytes, d, p)
  BY DEF Sound, Measures
<1> QED
  BY <1>1 DEF Sound

(* A restart: the download that was interrupted is queued again, a          *)
(* verification ends as a complete download, a removal is started over.    *)
AfterRestart(j, s, e, t, b, d, blur, share) ==
    /\ s = "running" =>
           \A also : Sound(j, "queued", e, t, b, d, "none", Off, blur, also)
    /\ s = "verifying" =>
           \A also : Sound(j, "completed", e, t, t, d, "none", Off, FALSE, also)
    /\ s = "deleting" =>
           \A also : Sound(j, s, e, t, b, d, "remove", Unread, blur, also)
    /\ s \notin {"running", "verifying", "deleting"} =>
           /\ e # "disk full" =>
                 \A also : Sound(j, s, e, t, b, d, "none", Off, blur, also)
           /\ e = "disk full" => s = "failed" /\ share
           /\ Sound(j, s, e, t, b, d, "none", Off, blur, share)

LEMMA RestartingIsSound ==
    ASSUME NEW j \in Jobs, NEW s, NEW e, NEW t \in Nat, NEW b \in Nat, NEW d \in Nat,
           NEW step, NEW p \in Reading, NEW blur, NEW share,
           Sound(j, s, e, t, b, d, step, p, blur, share)
    PROVE  AfterRestart(j, s, e, t, b, d, blur, share)
<1>1. Size[j] \in Nat /\ Size[j] <= Size[j] /\ Size[j] \in 0..Size[j]
  BY ProgressAssumption
<1>2. ASSUME s = "running", NEW also
      PROVE  Sound(j, "queued", e, t, b, d, "none", Off, blur, also)
  <2>1. Measures(j, "queued", e, t, b, d, Off)
    BY Pollers DEF Sound, Measures
  <2>2. StepFits("queued", "none", Off) /\ Whole(j, "queued", t, d, "none")
    BY DEF StepFits, Whole
  <2>3. ~blur => BarFits(j, "queued", b, d, "none")
    BY <1>2 DEF Sound, BarFits
  <2> QED
    BY <1>2, <2>1, <2>2, <2>3, Pollers DEF Sound
<1>3. ASSUME s = "verifying", NEW also
      PROVE  Sound(j, "completed", e, t, t, d, "none", Off, FALSE, also)
  <2>1. t = Size[j] /\ d = Size[j]
    BY <1>3 DEF Sound, Whole
  <2>2. Measures(j, "completed", e, t, t, d, Off)
    BY <1>1, <2>1, Pollers DEF Measures
  <2>3. StepFits("completed", "none", Off) /\ Whole(j, "completed", t, d, "none")
    BY <2>1 DEF StepFits, Whole
  <2>4. BarFits(j, "completed", t, d, "none")
    BY <1>1, <2>1 DEF BarFits
  <2> QED
    BY <1>3, <2>2, <2>3, <2>4, Pollers DEF Sound
<1>4. ASSUME s = "deleting", NEW also
      PROVE  Sound(j, s, e, t, b, d, "remove", Unread, blur, also)
  <2>1. Measures(j, s, e, t, b, d, Unread)
    BY <1>4, Pollers DEF Sound, Measures
  <2>2. StepFits(s, "remove", Unread) /\ Whole(j, s, t, d, "remove")
    BY <1>4 DEF StepFits, Whole, Polled
  <2>3. BarFits(j, s, b, d, "remove")
    BY <1>4 DEF BarFits
  <2> QED
    BY <1>4, <2>1, <2>2, <2>3, Pollers DEF Sound
<1>5. ASSUME s \notin {"running", "verifying", "deleting"}, NEW also,
             e = "disk full" => also
      PROVE  Sound(j, s, e, t, b, d, "none", Off, blur, also)
  <2>1. Measures(j, s, e, t, b, d, Off)
    BY Pollers DEF Sound, Measures
  <2>2. StepFits(s, "none", Off) /\ Whole(j, s, t, d, "none")
    BY <1>5 DEF Sound, StepFits, Whole
  <2>3. ~blur => BarFits(j, s, b, d, "none")
    BY DEF Sound, BarFits
  <2> QED
    BY <1>5, <2>1, <2>2, <2>3, Pollers DEF Sound
<1>6. e = "disk full" => s = "failed" /\ share
  BY DEF Sound
<1> QED
  BY <1>2, <1>3, <1>4, <1>5, <1>6 DEF AfterRestart

-----------------------------------------------------------------------------
(* The steps that are about one job, one lemma each.                       *)

(* What a poller that is left behind will write is no more than the size.  *)
LEMMA JoinedLate ==
    ASSUME Typed, AllSound, NEW j \in Jobs, Joined(j)
    PROVE  late' \subseteq Jobs \X Nat /\ \A report \in late' : report[2] \in 0..Size[report[1]]
<1>1. poller[j].read \subseteq 0..Size[j] /\ poller[j].read \subseteq Nat
  BY OneJob DEF Sound, Measures, Reading
<1>2. /\ late \subseteq Jobs \X Nat
      /\ \A report \in late : report[2] \in 0..Size[report[1]]
  BY DEF Typed
<1>3. \A report \in {j} \X poller[j].read : report[1] = j /\ report[2] \in poller[j].read
  OBVIOUS
<1>4. {j} \X poller[j].read \subseteq Jobs \X Nat
  BY <1>1
<1>5. UNCHANGED late \/ late' = late \cup ({j} \X poller[j].read)
  BY DEF Joined
<1> QED
  BY <1>1, <1>2, <1>3, <1>4, <1>5

LEMMA SizerFailsKeeps ==
    ASSUME Typed, AllSound, NEW j \in Jobs, SizerFails(j)
    PROVE  Typed' /\ AllSound'
<1>1. RowIs(j, row[j].status, row[j].error, row[j].total, row[j].bar)
  BY RowWrites, OneJob, NoRowType DEF SizerFails, Statuses, Errors
<1>2. DiskIs(j, disk[j]) /\ GoTo(j, at[j]) /\ Poller(j, poller[j])
  BY Unchanged DEF SizerFails, threads, DiskIs
<1>3. Others(j)
  BY OneJob DEF SizerFails, threads, Others, Typed
<1>4. Sound(j, row[j].status, row[j].error, row[j].total, row[j].bar,
          disk[j], at[j], poller[j], j \in blurred', j \in shared')
  BY OneJob, Pollers DEF SizerFails, Sound, Measures, StepFits, Whole, BarFits,
     Polled, Joining, threads, Bar, GoTo, Typed
<1>5. disk[j] \in Nat /\ at[j] \in Steps /\ poller[j] \in Reading
  BY OneJob, Pollers DEF SizerFails, Steps
<1> QED
  BY <1>1, <1>2, <1>3, <1>4, <1>5, JobStep

LEMMA AddsAgainKeeps ==
    ASSUME Typed, AllSound, NEW j \in Jobs, AddsAgain(j)
    PROVE  Typed' /\ AllSound'
<1>1. RowIs(j, "queued", "none", row[j].total, row[j].bar)
  BY RowWrites, OneJob, NoRowType DEF AddsAgain, Statuses, Errors
<1>2. DiskIs(j, disk[j]) /\ GoTo(j, at[j]) /\ Poller(j, poller[j])
  BY Unchanged DEF AddsAgain, threads, DiskIs
<1>3. Others(j)
  BY OneJob DEF AddsAgain, threads, Others, Typed
<1>4. Sound(j, "queued", "none", row[j].total, row[j].bar,
          disk[j], at[j], poller[j], j \in blurred', j \in shared')
  BY OneJob, Pollers DEF AddsAgain, Sound, Measures, StepFits, Whole, BarFits,
     Polled, Joining, threads, Bar, GoTo, Typed
<1>5. disk[j] \in Nat /\ at[j] \in Steps /\ poller[j] \in Reading
  BY OneJob, Pollers DEF AddsAgain, Steps
<1> QED
  BY <1>1, <1>2, <1>3, <1>4, <1>5, JobStep

LEMMA VerifiesKeeps ==
    ASSUME Typed, AllSound, NEW j \in Jobs, Verifies(j)
    PROVE  Typed' /\ AllSound'
<1>1. RowIs(j, "verifying", "none", row[j].total, row[j].bar)
  BY RowWrites, OneJob, NoRowType DEF Verifies, Statuses, Errors
<1>2. DiskIs(j, disk[j]) /\ GoTo(j, "verify") /\ Poller(j, poller[j])
  BY Unchanged DEF Verifies, threads, DiskIs
<1>3. Others(j)
  BY OneJob DEF Verifies, threads, Others, Typed
<1>4. Sound(j, "verifying", "none", row[j].total, row[j].bar,
          disk[j], "verify", poller[j], j \in blurred', j \in shared')
  BY OneJob, Pollers DEF Verifies, Sound, Measures, StepFits, Whole, BarFits,
     Polled, Joining, threads, Bar, GoTo, Typed
<1>5. disk[j] \in Nat /\ "verify" \in Steps /\ poller[j] \in Reading
  BY OneJob, Pollers DEF Verifies, Steps
<1> QED
  BY <1>1, <1>2, <1>3, <1>4, <1>5, JobStep

LEMMA ClaimsKeeps ==
    ASSUME Typed, AllSound, NEW j \in Jobs, Claims(j)
    PROVE  Typed' /\ AllSound'
<1>1. RowIs(j, "running", row[j].error, row[j].total, row[j].bar)
  BY RowWrites, OneJob, NoRowType DEF Claims, Statuses, Errors
<1>2. DiskIs(j, disk[j]) /\ GoTo(j, "measure") /\ Poller(j, poller[j])
  BY Unchanged DEF Claims, threads, DiskIs
<1>3. Others(j)
  BY OneJob DEF Claims, threads, Others, Typed
<1>4. Sound(j, "running", row[j].error, row[j].total, row[j].bar,
          disk[j], "measure", poller[j], j \in blurred', j \in shared')
  BY OneJob, Pollers DEF Claims, Sound, Measures, StepFits, Whole, BarFits,
     Polled, Joining, threads, Bar, GoTo, Typed
<1>5. disk[j] \in Nat /\ "measure" \in Steps /\ poller[j] \in Reading
  BY OneJob, Pollers DEF Claims, Steps
<1> QED
  BY <1>1, <1>2, <1>3, <1>4, <1>5, JobStep

LEMMA WritesKeeps ==
    ASSUME Typed, AllSound, NEW j \in Jobs, Writes(j)
    PROVE  Typed' /\ AllSound'
<1>1. RowIs(j, row[j].status, row[j].error, row[j].total, row[j].bar)
  BY RowWrites, OneJob, NoRowType DEF Writes, Statuses, Errors
<1>2. DiskIs(j, disk[j] + 1) /\ GoTo(j, at[j]) /\ Poller(j, poller[j])
  BY Unchanged DEF Writes, threads, DiskIs
<1>3. Others(j)
  BY OneJob DEF Writes, threads, Others, Typed
<1>4. Sound(j, row[j].status, row[j].error, row[j].total, row[j].bar,
          disk[j] + 1, at[j], poller[j], j \in blurred', j \in shared')
  BY OneJob, WritingIsSound DEF Writes, threads
<1>5. disk[j] + 1 \in Nat /\ at[j] \in Steps /\ poller[j] \in Reading
  BY OneJob, Pollers DEF Writes, Steps
<1> QED
  BY <1>1, <1>2, <1>3, <1>4, <1>5, JobStep

LEMMA UnlinksKeeps ==
    ASSUME Typed, AllSound, NEW j \in Jobs, Unlinks(j)
    PROVE  Typed' /\ AllSound'
<1>1. RowIs(j, row[j].status, row[j].error, row[j].total, row[j].bar)
  BY RowWrites, OneJob, NoRowType DEF Unlinks, Statuses, Errors
<1>2. DiskIs(j, disk[j] - 1) /\ GoTo(j, at[j]) /\ Poller(j, poller[j])
  BY Unchanged DEF Unlinks, threads, DiskIs
<1>3. Others(j)
  BY OneJob DEF Unlinks, threads, Others, Typed
<1>4. Sound(j, row[j].status, row[j].error, row[j].total, row[j].bar,
          disk[j] - 1, at[j], poller[j], j \in blurred', j \in shared')
  BY OneJob, UnlinkingIsSound DEF Unlinks, threads
<1>5. disk[j] - 1 \in Nat /\ at[j] \in Steps /\ poller[j] \in Reading
  BY OneJob, Pollers DEF Unlinks, Steps
<1> QED
  BY <1>1, <1>2, <1>3, <1>4, <1>5, JobStep

LEMMA ConcludesKeeps ==
    ASSUME Typed, AllSound, NEW j \in Jobs, Concludes(j)
    PROVE  Typed' /\ AllSound'
<1>1. RowIs(j, row[j].status, row[j].error, row[j].total, row[j].total)
  BY RowWrites, OneJob, NoRowType DEF Concludes, Bar, Statuses, Errors
<1>2. DiskIs(j, disk[j]) /\ GoTo(j, "land") /\ Poller(j, poller[j])
  BY Unchanged DEF Concludes, Bar, threads, DiskIs
<1>3. Others(j)
  BY OneJob DEF Concludes, Bar, threads, Others, Typed
<1>4. Sound(j, row[j].status, row[j].error, row[j].total, row[j].total,
          disk[j], "land", poller[j], j \in blurred', j \in shared')
  <2>1. Sound(j, row[j].status, row[j].error, row[j].total, row[j].total,
             disk[j], "land", poller[j], FALSE, j \in shared)
    BY OneJob, ConcludingIsSound DEF Concludes
  <2>2. j \notin blurred' /\ shared' = shared
    BY DEF Concludes, Bar
  <2> QED
    BY <2>1, <2>2 DEF Sound, Concludes, Bar
<1>5. disk[j] \in Nat /\ "land" \in Steps /\ poller[j] \in Reading
  BY OneJob, Pollers DEF Concludes, Bar, Steps
<1> QED
  BY <1>1, <1>2, <1>3, <1>4, <1>5, JobStep

LEMMA LandsKeeps ==
    ASSUME Typed, AllSound, NEW j \in Jobs, Lands(j)
    PROVE  Typed' /\ AllSound'
<1>1. RowIs(j, "completed", "none", row[j].total, row[j].bar)
  BY RowWrites, OneJob, NoRowType DEF Lands, Statuses, Errors
<1>2. DiskIs(j, disk[j]) /\ GoTo(j, "none") /\ Poller(j, poller[j])
  BY Unchanged DEF Lands, threads, DiskIs
<1>3. Others(j)
  BY OneJob DEF Lands, threads, Others, Typed
<1>4. Sound(j, "completed", "none", row[j].total, row[j].bar,
          disk[j], "none", poller[j], j \in blurred', j \in shared')
  BY OneJob, Pollers DEF Lands, Sound, Measures, StepFits, Whole, BarFits,
     Polled, Joining, threads, Bar, GoTo, Typed
<1>5. disk[j] \in Nat /\ "none" \in Steps /\ poller[j] \in Reading
  BY OneJob, Pollers DEF Lands, Steps
<1> QED
  BY <1>1, <1>2, <1>3, <1>4, <1>5, JobStep

LEMMA RequeuesKeeps ==
    ASSUME Typed, AllSound, NEW j \in Jobs, Requeues(j)
    PROVE  Typed' /\ AllSound'
<1>1. RowIs(j, "queued", "none", row[j].total, row[j].bar)
  BY RowWrites, OneJob, NoRowType DEF Requeues, Statuses, Errors
<1>2. DiskIs(j, disk[j]) /\ GoTo(j, "none") /\ Poller(j, poller[j])
  BY Unchanged DEF Requeues, threads, DiskIs
<1>3. Others(j)
  BY OneJob DEF Requeues, threads, Others, Typed
<1>4. Sound(j, "queued", "none", row[j].total, row[j].bar,
          disk[j], "none", poller[j], j \in blurred', j \in shared')
  BY OneJob, RequeuingIsSound DEF Requeues
<1>5. disk[j] \in Nat /\ "none" \in Steps /\ poller[j] \in Reading
  BY OneJob, Pollers DEF Requeues, Steps
<1> QED
  BY <1>1, <1>2, <1>3, <1>4, <1>5, JobStep

LEMMA FillsKeeps ==
    ASSUME Typed, AllSound, NEW j \in Jobs, Fills(j)
    PROVE  Typed' /\ AllSound'
<1>1. RowIs(j, row[j].status, row[j].error, row[j].total, Size[j])
  BY RowWrites, OneJob, NoRowType DEF Fills, Bar, Joined, Statuses, Errors
<1>2. DiskIs(j, disk[j]) /\ GoTo(j, "settle") /\ Poller(j, Off)
  BY Unchanged DEF Fills, Bar, Joined, threads, DiskIs
<1>3. Others(j)
  BY OneJob, JoinedLate DEF Fills, Bar, threads, Others, Typed
<1>4. Sound(j, row[j].status, row[j].error, row[j].total, Size[j],
          disk[j], "settle", Off, j \in blurred', j \in shared')
  <2>1. \A also : Sound(j, row[j].status, row[j].error, row[j].total, Size[j],
                      disk[j], "settle", Off, FALSE, also)
    BY OneJob, FillingIsSound DEF Fills
  <2>2. j \notin blurred'
    BY DEF Fills, Bar
  <2> QED
    BY <2>1, <2>2 DEF Sound, Fills, Bar
<1>5. disk[j] \in Nat /\ "settle" \in Steps /\ Off \in Reading
  BY OneJob, Pollers DEF Fills, Bar, Joined, Steps
<1> QED
  BY <1>1, <1>2, <1>3, <1>4, <1>5, JobStep

LEMMA RunsOutKeeps ==
    ASSUME Typed, AllSound, NEW j \in Jobs, RunsOut(j)
    PROVE  Typed' /\ AllSound'
<1>1. RowIs(j, "failed", "disk full", row[j].total, row[j].bar)
  BY RowWrites, OneJob, NoRowType DEF RunsOut, Joined, Statuses, Errors
<1>2. DiskIs(j, disk[j]) /\ GoTo(j, "none") /\ Poller(j, Off)
  BY Unchanged DEF RunsOut, Joined, threads, DiskIs
<1>3. Others(j)
  BY OneJob, JoinedLate DEF RunsOut, threads, Others, Typed
<1>4. Sound(j, "failed", "disk full", row[j].total, row[j].bar,
          disk[j], "none", Off, j \in blurred', j \in shared')
  BY OneJob, Pollers DEF RunsOut, Joined, Sound, Measures, StepFits, Whole, BarFits,
     Polled, Joining, threads, Bar, GoTo, Typed
<1>5. disk[j] \in Nat /\ "none" \in Steps /\ Off \in Reading
  BY OneJob, Pollers DEF RunsOut, Joined, Steps
<1> QED
  BY <1>1, <1>2, <1>3, <1>4, <1>5, JobStep

LEMMA GivesUpKeeps ==
    ASSUME Typed, AllSound, NEW j \in Jobs, GivesUp(j)
    PROVE  Typed' /\ AllSound'
<1>1. RowIs(j, "failed", "other", row[j].total, row[j].bar)
  BY RowWrites, OneJob, NoRowType DEF GivesUp, Joined, Statuses, Errors
<1>2. DiskIs(j, disk[j]) /\ GoTo(j, "none") /\ Poller(j, Off)
  BY Unchanged DEF GivesUp, Joined, threads, DiskIs
<1>3. Others(j)
  BY OneJob, JoinedLate DEF GivesUp, threads, Others, Typed
<1>4. Sound(j, "failed", "other", row[j].total, row[j].bar,
          disk[j], "none", Off, j \in blurred', j \in shared')
  BY OneJob, Pollers DEF GivesUp, Joined, Sound, Measures, StepFits, Whole, BarFits,
     Polled, Joining, threads, Bar, GoTo, Typed
<1>5. disk[j] \in Nat /\ "none" \in Steps /\ Off \in Reading
  BY OneJob, Pollers DEF GivesUp, Joined, Steps
<1> QED
  BY <1>1, <1>2, <1>3, <1>4, <1>5, JobStep

LEMMA EmptiesKeeps ==
    ASSUME Typed, AllSound, NEW j \in Jobs, Empties(j)
    PROVE  Typed' /\ AllSound'
<1>1. RowIs(j, row[j].status, row[j].error, row[j].total, 0)
  BY RowWrites, OneJob, NoRowType DEF Empties, Bar, Joined, Statuses, Errors
<1>2. DiskIs(j, disk[j]) /\ GoTo(j, "requeue") /\ Poller(j, Off)
  BY Unchanged DEF Empties, Bar, Joined, threads, DiskIs
<1>3. Others(j)
  BY OneJob, JoinedLate DEF Empties, Bar, threads, Others, Typed
<1>4. Sound(j, row[j].status, row[j].error, row[j].total, 0,
          disk[j], "requeue", Off, j \in blurred', j \in shared')
  <2>1. Sound(j, row[j].status, row[j].error, row[j].total, 0,
             disk[j], "requeue", Off, FALSE, j \in shared)
    BY OneJob, EmptyingIsSound DEF Empties
  <2>2. j \notin blurred' /\ shared' = shared
    BY DEF Empties, Bar
  <2> QED
    BY <2>1, <2>2 DEF Sound, Empties, Bar
<1>5. disk[j] \in Nat /\ "requeue" \in Steps /\ Off \in Reading
  BY OneJob, Pollers DEF Empties, Bar, Joined, Steps
<1> QED
  BY <1>1, <1>2, <1>3, <1>4, <1>5, JobStep

LEMMA SeesStopKeeps ==
    ASSUME Typed, AllSound, NEW j \in Jobs, SeesStop(j)
    PROVE  Typed' /\ AllSound'
<1>1. RowIs(j, row[j].status, row[j].error, row[j].total, row[j].bar)
  BY RowWrites, OneJob, NoRowType DEF SeesStop, Statuses, Errors
<1>2. DiskIs(j, disk[j]) /\ GoTo(j, at[j]) /\ Poller(j, Off)
  BY Unchanged DEF SeesStop, threads, DiskIs
<1>3. Others(j)
  BY OneJob DEF SeesStop, threads, Others, Typed
<1>4. Sound(j, row[j].status, row[j].error, row[j].total, row[j].bar,
          disk[j], at[j], Off, j \in blurred', j \in shared')
  BY OneJob, Pollers DEF SeesStop, Sound, Measures, StepFits, Whole, BarFits,
     Polled, Joining, threads, Bar, GoTo, Typed
<1>5. disk[j] \in Nat /\ at[j] \in Steps /\ Off \in Reading
  BY OneJob, Pollers DEF SeesStop, Steps
<1> QED
  BY <1>1, <1>2, <1>3, <1>4, <1>5, JobStep

LEMMA SettlesKeeps ==
    ASSUME Typed, AllSound, NEW j \in Jobs, Settles(j)
    PROVE  Typed' /\ AllSound'
<1>1. CASE Status(j, "completed", "none") /\ GoTo(j, "none")
  <2>1. RowIs(j, "completed", "none", row[j].total, row[j].bar)
    BY <1>1, RowWrites, OneJob, NoRowType DEF Settles, Statuses, Errors
  <2>2. DiskIs(j, disk[j]) /\ GoTo(j, "none") /\ Poller(j, poller[j])
    BY <1>1, Unchanged DEF Settles, threads, DiskIs
  <2>3. Others(j)
    BY <1>1, OneJob DEF Settles, threads, Others, Typed
  <2>4. Sound(j, "completed", "none", row[j].total, row[j].bar,
            disk[j], "none", poller[j], j \in blurred', j \in shared')
    BY <1>1, OneJob, Pollers DEF Settles, Sound, Measures, StepFits, Whole, BarFits,
       Polled, Joining, threads, Bar, GoTo, Typed
  <2>5. disk[j] \in Nat /\ "none" \in Steps /\ poller[j] \in Reading
    BY <1>1, OneJob, Pollers DEF Settles, Steps
  <2> QED
    BY <2>1, <2>2, <2>3, <2>4, <2>5, JobStep
<1>2. CASE Status(j, "verifying", "none") /\ GoTo(j, "verify")
  <2>1. RowIs(j, "verifying", "none", row[j].total, row[j].bar)
    BY <1>2, RowWrites, OneJob, NoRowType DEF Settles, Statuses, Errors
  <2>2. DiskIs(j, disk[j]) /\ GoTo(j, "verify") /\ Poller(j, poller[j])
    BY <1>2, Unchanged DEF Settles, threads, DiskIs
  <2>3. Others(j)
    BY <1>2, OneJob DEF Settles, threads, Others, Typed
  <2>4. Sound(j, "verifying", "none", row[j].total, row[j].bar,
            disk[j], "verify", poller[j], j \in blurred', j \in shared')
    BY <1>2, OneJob, Pollers DEF Settles, Sound, Measures, StepFits, Whole, BarFits,
       Polled, Joining, threads, Bar, GoTo, Typed
  <2>5. disk[j] \in Nat /\ "verify" \in Steps /\ poller[j] \in Reading
    BY <1>2, OneJob, Pollers DEF Settles, Steps
  <2> QED
    BY <2>1, <2>2, <2>3, <2>4, <2>5, JobStep
<1> QED
  BY <1>1, <1>2 DEF Settles

LEMMA StopsKeeps ==
    ASSUME Typed, AllSound, NEW j \in Jobs, Stops(j)
    PROVE  Typed' /\ AllSound'
<1>1. CASE Status(j, "queued", "none") /\ GoTo(j, "none") /\ Poller(j, Off)
  <2>1. RowIs(j, "queued", "none", row[j].total, row[j].bar)
    BY <1>1, RowWrites, OneJob, NoRowType DEF Stops, Joined, Statuses, Errors
  <2>2. DiskIs(j, disk[j]) /\ GoTo(j, "none") /\ Poller(j, Off)
    BY <1>1, Unchanged DEF Stops, Joined, threads, DiskIs
  <2>3. Others(j)
    BY <1>1, OneJob, JoinedLate DEF Stops, threads, Others, Typed
  <2>4. Sound(j, "queued", "none", row[j].total, row[j].bar,
            disk[j], "none", Off, j \in blurred', j \in shared')
    BY <1>1, OneJob, Pollers DEF Stops, Joined, Sound, Measures, StepFits, Whole, BarFits,
       Polled, Joining, threads, Bar, GoTo, Typed
  <2>5. disk[j] \in Nat /\ "none" \in Steps /\ Off \in Reading
    BY <1>1, OneJob, Pollers DEF Stops, Joined, Steps
  <2> QED
    BY <2>1, <2>2, <2>3, <2>4, <2>5, JobStep
<1>2. CASE Status(j, "deleting", "none") /\ GoTo(j, "remove") /\ Poller(j, Unread)
  <2>1. RowIs(j, "deleting", "none", row[j].total, row[j].bar)
    BY <1>2, RowWrites, OneJob, NoRowType DEF Stops, Joined, Statuses, Errors
  <2>2. DiskIs(j, disk[j]) /\ GoTo(j, "remove") /\ Poller(j, Unread)
    BY <1>2, Unchanged DEF Stops, Joined, threads, DiskIs
  <2>3. Others(j)
    BY <1>2, OneJob, JoinedLate DEF Stops, threads, Others, Typed
  <2>4. Sound(j, "deleting", "none", row[j].total, row[j].bar,
            disk[j], "remove", Unread, j \in blurred', j \in shared')
    BY <1>2, OneJob, Pollers DEF Stops, Joined, Sound, Measures, StepFits, Whole, BarFits,
       Polled, Joining, threads, Bar, GoTo, Typed
  <2>5. disk[j] \in Nat /\ "remove" \in Steps /\ Unread \in Reading
    BY <1>2, OneJob, Pollers DEF Stops, Joined, Steps
  <2> QED
    BY <2>1, <2>2, <2>3, <2>4, <2>5, JobStep
<1> QED
  BY <1>1, <1>2 DEF Stops, Joined

LEMMA DeletesKeeps ==
    ASSUME Typed, AllSound, NEW j \in Jobs, Deletes(j)
    PROVE  Typed' /\ AllSound'
<1>1. CASE GoTo(j, "remove")
  <2>1. RowIs(j, "deleting", "none", row[j].total, row[j].bar)
    BY <1>1, RowWrites, OneJob, NoRowType DEF Deletes, Statuses, Errors
  <2>2. DiskIs(j, disk[j]) /\ GoTo(j, "remove") /\ Poller(j, Unread)
    BY <1>1, Unchanged DEF Deletes, threads, DiskIs
  <2>3. Others(j)
    BY <1>1, OneJob DEF Deletes, threads, Others, Typed
  <2>4. Sound(j, "deleting", "none", row[j].total, row[j].bar,
            disk[j], "remove", Unread, j \in blurred', j \in shared')
    BY <1>1, OneJob, Pollers DEF Deletes, Sound, Measures, StepFits, Whole, BarFits,
       Polled, Joining, threads, Bar, GoTo, Typed
  <2>5. disk[j] \in Nat /\ "remove" \in Steps /\ Unread \in Reading
    BY <1>1, OneJob, Pollers DEF Deletes, Steps
  <2> QED
    BY <2>1, <2>2, <2>3, <2>4, <2>5, JobStep
<1>2. CASE GoTo(j, "renew")
  <2>1. RowIs(j, "deleting", "none", row[j].total, row[j].bar)
    BY <1>2, RowWrites, OneJob, NoRowType DEF Deletes, Statuses, Errors
  <2>2. DiskIs(j, disk[j]) /\ GoTo(j, "renew") /\ Poller(j, Unread)
    BY <1>2, Unchanged DEF Deletes, threads, DiskIs
  <2>3. Others(j)
    BY <1>2, OneJob DEF Deletes, threads, Others, Typed
  <2>4. Sound(j, "deleting", "none", row[j].total, row[j].bar,
            disk[j], "renew", Unread, j \in blurred', j \in shared')
    BY <1>2, OneJob, Pollers DEF Deletes, Sound, Measures, StepFits, Whole, BarFits,
       Polled, Joining, threads, Bar, GoTo, Typed
  <2>5. disk[j] \in Nat /\ "renew" \in Steps /\ Unread \in Reading
    BY <1>2, OneJob, Pollers DEF Deletes, Steps
  <2> QED
    BY <2>1, <2>2, <2>3, <2>4, <2>5, JobStep
<1> QED
  BY <1>1, <1>2 DEF Deletes

LEMMA EndsKeeps ==
    ASSUME Inv, NEW j \in Jobs, Ends(j)
    PROVE  Typed' /\ AllSound'
<1> USE DEF Inv
<1>1. CASE disk[j] = Size[j] /\ GoTo(j, "complete")
  <2>1. RowIs(j, row[j].status, row[j].error, row[j].total, row[j].bar)
    BY <1>1, RowWrites, OneJob, NoRowType DEF Ends, Statuses, Errors
  <2>2. DiskIs(j, disk[j]) /\ GoTo(j, "complete") /\ Poller(j, poller[j])
    BY <1>1, Unchanged DEF Ends, threads, DiskIs
  <2>3. Others(j)
    BY <1>1, OneJob DEF Ends, threads, Others, Typed
  <2>4. Sound(j, row[j].status, row[j].error, row[j].total, row[j].bar,
            disk[j], "complete", poller[j], j \in blurred', j \in shared')
    BY <1>1, OneJob, Pollers DEF Ends, Sound, Measures, StepFits, Whole, BarFits,
       Polled, Joining, threads, Bar, GoTo, Typed
  <2>5. disk[j] \in Nat /\ "complete" \in Steps /\ poller[j] \in Reading
    BY <1>1, OneJob, Pollers DEF Ends, Steps
  <2> QED
    BY <2>1, <2>2, <2>3, <2>4, <2>5, JobStep
<1>2. CASE GoTo(j, "stop")
  <2>1. RowIs(j, row[j].status, row[j].error, row[j].total, row[j].bar)
    BY <1>2, RowWrites, OneJob, NoRowType DEF Ends, Statuses, Errors
  <2>2. DiskIs(j, disk[j]) /\ GoTo(j, "stop") /\ Poller(j, poller[j])
    BY <1>2, Unchanged DEF Ends, threads, DiskIs
  <2>3. Others(j)
    BY <1>2, OneJob DEF Ends, threads, Others, Typed
  <2>4. Sound(j, row[j].status, row[j].error, row[j].total, row[j].bar,
            disk[j], "stop", poller[j], j \in blurred', j \in shared')
    BY <1>2, OneJob, Pollers DEF Ends, Sound, Measures, StepFits, Whole, BarFits,
       Polled, Joining, threads, Bar, GoTo, Typed
  <2>5. disk[j] \in Nat /\ "stop" \in Steps /\ poller[j] \in Reading
    BY <1>2, OneJob, Pollers DEF Ends, Steps
  <2> QED
    BY <2>1, <2>2, <2>3, <2>4, <2>5, JobStep
<1>3. CASE disk[j] < Size[j] /\ Free = 0 /\ GoTo(j, "runOut")
  <2>1. j \in shared
    BY <1>3, OneJob DEF Ends, RoomAlone
  <2>2. RowIs(j, row[j].status, row[j].error, row[j].total, row[j].bar)
    BY RowWrites DEF Ends
  <2>3. DiskIs(j, disk[j]) /\ GoTo(j, "runOut") /\ Poller(j, poller[j])
    BY <1>3, Unchanged DEF Ends
  <2>4. Others(j)
    BY DEF Ends, Others, Typed
  <2>5. Sound(j, row[j].status, row[j].error, row[j].total, row[j].bar,
            disk[j], "runOut", poller[j], j \in blurred', j \in shared')
    BY <2>1, OneJob DEF Ends, Sound, StepFits, Whole, BarFits, Polled, Joining
  <2>6. disk[j] \in Nat /\ "runOut" \in Steps /\ poller[j] \in Reading
    BY OneJob DEF Steps
  <2> QED
    BY <2>2, <2>3, <2>4, <2>5, <2>6, JobStep
<1> QED
  BY <1>1, <1>2, <1>3 DEF Ends

LEMMA RemoverEndsKeeps ==
    ASSUME Typed, AllSound, NEW j \in Jobs, RemoverEnds(j)
    PROVE  Typed' /\ AllSound'
<1>1. CASE at[j] = "remove" /\ GoTo(j, "drop")
  <2>1. RowIs(j, row[j].status, row[j].error, row[j].total, row[j].bar)
    BY <1>1, RowWrites, OneJob, NoRowType DEF RemoverEnds, Statuses, Errors
  <2>2. DiskIs(j, disk[j]) /\ GoTo(j, "drop") /\ Poller(j, poller[j])
    BY <1>1, Unchanged DEF RemoverEnds, threads, DiskIs
  <2>3. Others(j)
    BY <1>1, OneJob DEF RemoverEnds, threads, Others, Typed
  <2>4. Sound(j, row[j].status, row[j].error, row[j].total, row[j].bar,
            disk[j], "drop", poller[j], j \in blurred', j \in shared')
    BY <1>1, OneJob, Pollers DEF RemoverEnds, Sound, Measures, StepFits, Whole, BarFits,
       Polled, Joining, threads, Bar, GoTo, Typed
  <2>5. disk[j] \in Nat /\ "drop" \in Steps /\ poller[j] \in Reading
    BY <1>1, OneJob, Pollers DEF RemoverEnds, Steps
  <2> QED
    BY <2>1, <2>2, <2>3, <2>4, <2>5, JobStep
<1>2. CASE at[j] = "renew" /\ GoTo(j, "empty")
  <2>1. RowIs(j, row[j].status, row[j].error, row[j].total, row[j].bar)
    BY <1>2, RowWrites, OneJob, NoRowType DEF RemoverEnds, Statuses, Errors
  <2>2. DiskIs(j, disk[j]) /\ GoTo(j, "empty") /\ Poller(j, poller[j])
    BY <1>2, Unchanged DEF RemoverEnds, threads, DiskIs
  <2>3. Others(j)
    BY <1>2, OneJob DEF RemoverEnds, threads, Others, Typed
  <2>4. Sound(j, row[j].status, row[j].error, row[j].total, row[j].bar,
            disk[j], "empty", poller[j], j \in blurred', j \in shared')
    BY <1>2, OneJob, Pollers DEF RemoverEnds, Sound, Measures, StepFits, Whole, BarFits,
       Polled, Joining, threads, Bar, GoTo, Typed
  <2>5. disk[j] \in Nat /\ "empty" \in Steps /\ poller[j] \in Reading
    BY <1>2, OneJob, Pollers DEF RemoverEnds, Steps
  <2> QED
    BY <2>1, <2>2, <2>3, <2>4, <2>5, JobStep
<1>3. CASE GoTo(j, "giveUp")
  <2>1. RowIs(j, row[j].status, row[j].error, row[j].total, row[j].bar)
    BY <1>3, RowWrites, OneJob, NoRowType DEF RemoverEnds, Statuses, Errors
  <2>2. DiskIs(j, disk[j]) /\ GoTo(j, "giveUp") /\ Poller(j, poller[j])
    BY <1>3, Unchanged DEF RemoverEnds, threads, DiskIs
  <2>3. Others(j)
    BY <1>3, OneJob DEF RemoverEnds, threads, Others, Typed
  <2>4. Sound(j, row[j].status, row[j].error, row[j].total, row[j].bar,
            disk[j], "giveUp", poller[j], j \in blurred', j \in shared')
    BY <1>3, OneJob, Pollers DEF RemoverEnds, Sound, Measures, StepFits, Whole, BarFits,
       Polled, Joining, threads, Bar, GoTo, Typed
  <2>5. disk[j] \in Nat /\ "giveUp" \in Steps /\ poller[j] \in Reading
    BY <1>3, OneJob, Pollers DEF RemoverEnds, Steps
  <2> QED
    BY <2>1, <2>2, <2>3, <2>4, <2>5, JobStep
<1> QED
  BY <1>1, <1>2, <1>3 DEF RemoverEnds

LEMMA CreatesKeeps ==
    ASSUME Typed, AllSound, NEW j \in Jobs, Creates(j)
    PROVE  Typed' /\ AllSound'
<1>1. RowIs(j, "queued", "none", 0, 0)
  <2> DEFINE r == [NoRow EXCEPT !.status = "queued"]
  <2>1. r \in Row /\ r.status = "queued" /\ r.error = "none" /\ r.total = 0 /\ r.bar = 0
    BY DEF NoRow, Row, Statuses, Errors
  <2>2. row' = [row EXCEPT ![j] = r]
    BY DEF Creates
  <2> HIDE DEF r
  <2> QED
    BY <2>1, <2>2 DEF RowIs
<1>2. DiskIs(j, disk[j]) /\ GoTo(j, "none") /\ Poller(j, poller[j])
  BY Unchanged DEF Creates
<1>3. Others(j)
  BY DEF Creates, Others, Typed
<1>4. Sound(j, "queued", "none", 0, 0, disk[j], "none", poller[j], FALSE, j \in shared)
  <2>1. /\ row[j].error \in Errors /\ row[j].total \in Nat /\ row[j].bar \in Nat
        /\ disk[j] \in Nat /\ poller[j] \in Reading
        /\ Sound(j, "absent", row[j].error, row[j].total, row[j].bar,
                 disk[j], "none", poller[j], j \in blurred, j \in shared)
    BY OneJob DEF Creates
  <2> QED
    BY <2>1, CreatingIsSound
<1>5. j \notin blurred' /\ shared' = shared
  BY DEF Creates
<1>6. Sound(j, "queued", "none", 0, 0, disk[j], "none", poller[j],
            j \in blurred', j \in shared')
  BY <1>4, <1>5 DEF Sound
<1>7. disk[j] \in Nat /\ "none" \in Steps /\ poller[j] \in Reading
  BY OneJob DEF Steps
<1> QED
  BY <1>1, <1>2, <1>3, <1>6, <1>7, JobStep

LEMMA SizerAnswersKeeps ==
    ASSUME Typed, AllSound, NEW j \in Jobs, SizerAnswers(j)
    PROVE  Typed' /\ AllSound'
<1>1. DiskIs(j, disk[j]) /\ GoTo(j, at[j]) /\ Poller(j, poller[j])
  BY Unchanged DEF SizerAnswers
<1>2. Others(j)
  BY DEF SizerAnswers, Others, Typed
<1>3. disk[j] \in Nat /\ at[j] \in Steps /\ poller[j] \in Reading /\ shared' = shared
  BY OneJob DEF SizerAnswers
<1>4. CASE row[j].status = "absent"
  <2>1. UNCHANGED <<row, blurred>>
    BY <1>4 DEF SizerAnswers
  <2>2. RowIs(j, row[j].status, row[j].error, row[j].total, row[j].bar)
    BY <2>1, RowWrites
  <2>3. Sound(j, row[j].status, row[j].error, row[j].total, row[j].bar,
              disk[j], at[j], poller[j], j \in blurred', j \in shared')
    BY <1>3, <2>1, OneJob
  <2> QED
    BY <1>1, <1>2, <1>3, <2>2, <2>3, JobStep
<1>5. CASE row[j].status # "absent"
  <2>1. /\ row' = [row EXCEPT ![j].bar = 0, ![j].total = Size[j]]
        /\ blurred' = IF row[j].status = "queued" THEN blurred \ {j} ELSE blurred \cup {j}
    BY <1>5 DEF SizerAnswers
  <2>2. RowIs(j, row[j].status, row[j].error, Size[j], 0)
    BY <2>1, RowWrites, OneJob
  <2>3. /\ Sound(j, row[j].status, row[j].error, Size[j], 0,
                 disk[j], at[j], poller[j], TRUE, j \in shared)
        /\ row[j].status = "queued" =>
              Sound(j, row[j].status, row[j].error, Size[j], 0,
                    disk[j], at[j], poller[j], FALSE, j \in shared)
    BY <1>5, OneJob, SizingIsSound
  <2>4. row[j].status = "queued" \/ j \in blurred'
    BY <2>1
  <2>5. Sound(j, row[j].status, row[j].error, Size[j], 0,
              disk[j], at[j], poller[j], j \in blurred', j \in shared')
    BY <1>3, <2>3, <2>4 DEF Sound
  <2> QED
    BY <1>1, <1>2, <1>3, <2>2, <2>5, OneJob, JobStep
<1> QED
  BY <1>4, <1>5

LEMMA MeasuredRow ==
    ASSUME Typed, NEW j \in Jobs
    PROVE  /\ row' = Measured(j) =>
                 RowIs(j, row[j].status, row[j].error, Size[j], disk[j])
           /\ row' = [Measured(j) EXCEPT ![j].status = "failed", ![j].error = "other"] =>
                 RowIs(j, "failed", "other", Size[j], disk[j])
<1>1. /\ row[j] \in Row /\ row \in [Jobs -> Row] /\ Size[j] \in Nat /\ disk[j] \in Nat
  BY ProgressAssumption DEF Typed
<1>2. row' = Measured(j) => RowIs(j, row[j].status, row[j].error, Size[j], disk[j])
  BY <1>1, RowWrites DEF Measured
<1>3. ASSUME row' = [Measured(j) EXCEPT ![j].status = "failed", ![j].error = "other"]
      PROVE  RowIs(j, "failed", "other", Size[j], disk[j])
  <2> DEFINE r == [row[j] EXCEPT !.bar = disk[j], !.total = Size[j],
                                 !.status = "failed", !.error = "other"]
  <2>1. r \in Row /\ r.status = "failed" /\ r.error = "other"
        /\ r.total = Size[j] /\ r.bar = disk[j]
    BY <1>1 DEF Row, Statuses, Errors
  <2>2. row' = [row EXCEPT ![j] = r]
    BY <1>1, <1>3 DEF Measured
  <2> HIDE DEF r
  <2> QED
    BY <2>1, <2>2 DEF RowIs
<1> QED
  BY <1>2, <1>3

LEMMA FitsKeeps ==
    ASSUME Typed, AllSound, NEW j \in Jobs, Fits(j)
    PROVE  Typed' /\ AllSound'
<1>1. RowIs(j, row[j].status, row[j].error, Size[j], disk[j])
  BY MeasuredRow DEF Fits
<1>2. DiskIs(j, disk[j]) /\ GoTo(j, "download") /\ Poller(j, Unread)
  BY Unchanged DEF Fits, Begins
<1>3. Others(j)
  BY DEF Fits, Begins, Others, Typed, Downloading
<1>4. \A also : Sound(j, row[j].status, row[j].error, Size[j], disk[j],
                      disk[j], "download", Unread, FALSE, also)
  <2>1. /\ row[j].error \in Errors /\ row[j].total \in Nat /\ row[j].bar \in Nat
        /\ disk[j] \in Nat /\ poller[j] \in Reading
        /\ Sound(j, row[j].status, row[j].error, row[j].total, row[j].bar,
                 disk[j], "measure", poller[j], j \in blurred, j \in shared)
    BY OneJob DEF Fits
  <2> QED
    BY <2>1, MeasuringIsSound
<1>5. j \notin blurred'
  BY DEF Fits
<1>6. Sound(j, row[j].status, row[j].error, Size[j], disk[j],
            disk[j], "download", Unread, j \in blurred', j \in shared')
  BY <1>4, <1>5 DEF Sound
<1>7. disk[j] \in Nat /\ Size[j] \in Nat /\ "download" \in Steps /\ Unread \in Reading
  BY OneJob, Pollers DEF Steps
<1> QED
  BY <1>1, <1>2, <1>3, <1>6, <1>7, JobStep

LEMMA DoesNotFitKeeps ==
    ASSUME Typed, AllSound, NEW j \in Jobs, DoesNotFit(j)
    PROVE  Typed' /\ AllSound'
<1>1. RowIs(j, "failed", "other", Size[j], disk[j])
  BY MeasuredRow DEF DoesNotFit
<1>2. DiskIs(j, disk[j]) /\ GoTo(j, "none") /\ Poller(j, poller[j])
  BY Unchanged DEF DoesNotFit
<1>3. Others(j)
  BY DEF DoesNotFit, Others, Typed
<1>4. Sound(j, "failed", "other", Size[j], disk[j],
            disk[j], "none", poller[j], FALSE, j \in shared)
  <2>1. /\ row[j].error \in Errors /\ row[j].total \in Nat /\ row[j].bar \in Nat
        /\ disk[j] \in Nat /\ poller[j] \in Reading
        /\ Sound(j, row[j].status, row[j].error, row[j].total, row[j].bar,
                 disk[j], "measure", poller[j], j \in blurred, j \in shared)
    BY OneJob DEF DoesNotFit
  <2> QED
    BY <2>1, MeasuringIsSound
<1>5. j \notin blurred' /\ shared' = shared
  BY DEF DoesNotFit
<1>6. Sound(j, "failed", "other", Size[j], disk[j],
            disk[j], "none", poller[j], j \in blurred', j \in shared')
  BY <1>4, <1>5 DEF Sound
<1>7. disk[j] \in Nat /\ Size[j] \in Nat /\ "none" \in Steps /\ poller[j] \in Reading
  BY OneJob DEF Steps
<1> QED
  BY <1>1, <1>2, <1>3, <1>6, <1>7, JobStep

LEMMA DropsKeeps ==
    ASSUME Typed, AllSound, NEW j \in Jobs, Drops(j)
    PROVE  Typed' /\ AllSound'
<1>1. RowIs(j, "absent", "none", 0, 0)
  BY NoRowType DEF Drops, RowIs
<1>2. DiskIs(j, disk[j]) /\ GoTo(j, "none") /\ Poller(j, Off)
  BY Unchanged DEF Drops
<1>3. Others(j)
  BY JoinedLate DEF Drops, Others, Typed
<1>4. Sound(j, "absent", "none", 0, 0, disk[j], "none", Off, FALSE, j \in shared)
  BY OneJob, DroppingIsSound
<1>5. j \notin blurred' /\ shared' = shared
  BY DEF Drops
<1>6. Sound(j, "absent", "none", 0, 0, disk[j], "none", Off, j \in blurred', j \in shared')
  BY <1>4, <1>5 DEF Sound
<1>7. disk[j] \in Nat /\ "none" \in Steps /\ Off \in Reading
  BY OneJob, Pollers DEF Steps
<1> QED
  BY <1>1, <1>2, <1>3, <1>6, <1>7, JobStep

LEMMA HashesKeeps ==
    ASSUME Typed, AllSound, NEW j \in Jobs, Hashes(j)
    PROVE  Typed' /\ AllSound'
<1>1. PICK bytes \in 0..disk[j] : Bar(j, bytes)
  BY DEF Hashes
<1>2. disk[j] \in Nat /\ bytes \in Nat /\ at[j] \in Steps /\ poller[j] \in Reading
  BY OneJob
<1>3. RowIs(j, row[j].status, row[j].error, row[j].total, bytes)
  BY <1>1, <1>2, RowWrites DEF Bar
<1>4. DiskIs(j, disk[j]) /\ GoTo(j, at[j]) /\ Poller(j, poller[j])
  BY Unchanged DEF Hashes, threads
<1>5. Others(j)
  BY <1>1 DEF Hashes, Bar, threads, Others, Typed
<1>6. Sound(j, row[j].status, row[j].error, row[j].total, bytes,
            disk[j], "verify", poller[j], FALSE, j \in shared)
  <2>1. /\ row[j].error \in Errors /\ row[j].total \in Nat /\ row[j].bar \in Nat
        /\ disk[j] \in Nat /\ poller[j] \in Reading
        /\ Sound(j, row[j].status, row[j].error, row[j].total, row[j].bar,
                 disk[j], "verify", poller[j], j \in blurred, j \in shared)
    BY OneJob DEF Hashes
  <2> QED
    BY <2>1, <1>1, HashingIsSound
<1>7. j \notin blurred' /\ shared' = shared
  BY <1>1 DEF Hashes, Bar
<1>8. Sound(j, row[j].status, row[j].error, row[j].total, bytes,
            disk[j], at[j], poller[j], j \in blurred', j \in shared')
  BY <1>6, <1>7 DEF Sound, Hashes
<1> QED
  BY <1>2, <1>3, <1>4, <1>5, <1>8, JobStep

LEMMA ReadsKeeps ==
    ASSUME Typed, AllSound, NEW j \in Jobs, Reads(j)
    PROVE  Typed' /\ AllSound'
<1>1. RowIs(j, row[j].status, row[j].error, row[j].total, row[j].bar)
  BY RowWrites DEF Reads
<1>2. /\ DiskIs(j, disk[j]) /\ GoTo(j, at[j])
      /\ Poller(j, [on |-> TRUE, read |-> {disk[j]}])
  BY Unchanged DEF Reads
<1>3. Others(j)
  BY DEF Reads, Others, Typed
<1>4. /\ disk[j] \in Nat /\ at[j] \in Steps
      /\ [on |-> TRUE, read |-> {disk[j]}] \in Reading
  BY OneJob DEF Reading
<1>5. Sound(j, row[j].status, row[j].error, row[j].total, row[j].bar,
            disk[j], at[j], [on |-> TRUE, read |-> {disk[j]}], j \in blurred, j \in shared)
  BY OneJob, ReadingIsSound DEF Reads
<1>6. blurred' = blurred /\ shared' = shared
  BY DEF Reads
<1> QED
  BY <1>1, <1>2, <1>3, <1>4, <1>5, <1>6, JobStep

LEMMA ReportsKeeps ==
    ASSUME Typed, AllSound, NEW j \in Jobs, Reports(j)
    PROVE  Typed' /\ AllSound'
<1>1. PICK bytes \in poller[j].read : Bar(j, bytes)
  BY DEF Reports
<1>2. disk[j] \in Nat /\ bytes \in Nat /\ at[j] \in Steps
  BY <1>1, OneJob DEF Reading
<1>3. RowIs(j, row[j].status, row[j].error, row[j].total, bytes)
  BY <1>1, <1>2, RowWrites DEF Bar
<1>4. DiskIs(j, disk[j]) /\ GoTo(j, at[j])
  BY Unchanged DEF Reports
<1>5. Others(j)
  BY <1>1 DEF Reports, Bar, Others, Typed
<1>6. /\ at[j] \in Polled =>
            Sound(j, row[j].status, row[j].error, row[j].total, bytes,
                  disk[j], at[j], Unread, FALSE, j \in shared)
      /\ Sound(j, row[j].status, row[j].error, row[j].total, bytes,
               disk[j], at[j], Off, FALSE, j \in shared)
  BY <1>1, OneJob, ReportingIsSound
<1>7. j \notin blurred' /\ shared' = shared
  BY <1>1 DEF Reports, Bar
<1>8. PICK p \in Reading :
          /\ Poller(j, p)
          /\ Sound(j, row[j].status, row[j].error, row[j].total, bytes,
                   disk[j], at[j], p, FALSE, j \in shared)
  <2>1. CASE at[j] \in Polled
    BY <1>6, <2>1, Pollers DEF Reports
  <2>2. CASE at[j] \notin Polled
    BY <1>6, <2>2, Pollers DEF Reports
  <2> QED
    BY <2>1, <2>2
<1>9. Sound(j, row[j].status, row[j].error, row[j].total, bytes,
            disk[j], at[j], p, j \in blurred', j \in shared')
  BY <1>7, <1>8 DEF Sound
<1> QED
  BY <1>2, <1>3, <1>4, <1>5, <1>8, <1>9, JobStep

LEMMA ReportsLateKeeps ==
    ASSUME Typed, AllSound, NEW j \in Jobs, ReportsLate(j)
    PROVE  Typed' /\ AllSound'
<1>1. PICK bytes \in 0..Size[j] :
          /\ late' = late \ {<<j, bytes>>}
          /\ IF row[j].status = "absent" THEN UNCHANGED <<row, blurred>>
             ELSE /\ row' = [row EXCEPT ![j].bar = bytes]
                  /\ blurred' = blurred \cup {j}
          /\ UNCHANGED <<disk, at, poller, sizer, shared>>
  BY DEF ReportsLate
<1>2. DiskIs(j, disk[j]) /\ GoTo(j, at[j]) /\ Poller(j, poller[j])
  BY <1>1, Unchanged
<1>3. Others(j)
  BY <1>1 DEF Others, Typed
<1>4. disk[j] \in Nat /\ at[j] \in Steps /\ poller[j] \in Reading /\ shared' = shared
  BY <1>1, OneJob
<1>5. CASE row[j].status = "absent"
  <2>1. RowIs(j, row[j].status, row[j].error, row[j].total, row[j].bar)
    BY <1>1, <1>5, RowWrites
  <2>2. Sound(j, row[j].status, row[j].error, row[j].total, row[j].bar,
              disk[j], at[j], poller[j], j \in blurred', j \in shared')
    BY <1>1, <1>5, OneJob
  <2> QED
    BY <1>2, <1>3, <1>4, <2>1, <2>2, JobStep
<1>6. CASE row[j].status # "absent"
  <2>1. bytes \in Nat /\ RowIs(j, row[j].status, row[j].error, row[j].total, bytes)
    BY <1>1, <1>6, OneJob, RowWrites
  <2>2. Sound(j, row[j].status, row[j].error, row[j].total, bytes,
              disk[j], at[j], poller[j], TRUE, j \in shared)
    BY <1>6, OneJob, LateReportIsSound
  <2>3. j \in blurred'
    BY <1>1, <1>6
  <2>4. Sound(j, row[j].status, row[j].error, row[j].total, bytes,
              disk[j], at[j], poller[j], j \in blurred', j \in shared')
    BY <1>4, <2>2, <2>3 DEF Sound
  <2> QED
    BY <1>2, <1>3, <1>4, <2>1, <2>4, JobStep
<1> QED
  BY <1>5, <1>6

LEMMA RestartsKeeps ==
    ASSUME Typed, AllSound, Restarts
    PROVE  Typed' /\ AllSound'
<1>1. ASSUME NEW j \in Jobs
      PROVE  /\ Started(row[j]) \in Row
             /\ Sound(j, row'[j].status, row'[j].error, row'[j].total, row'[j].bar,
                      disk'[j], at'[j], poller'[j], j \in blurred', j \in shared')
  <2>1. /\ row[j] \in Row /\ row'[j] = Started(row[j]) /\ disk'[j] = disk[j]
        /\ at'[j] = IF row[j].status = "deleting" THEN "remove" ELSE "none"
        /\ poller'[j] = IF row[j].status = "deleting" THEN Unread ELSE Off
    BY DEF Restarts, Typed
  <2>2. /\ j \in blurred' <=> (j \in blurred /\ row[j].status # "verifying")
        /\ j \in shared' <=> (j \in shared /\ row[j].status = "failed")
    BY DEF Restarts
  <2>3. /\ row[j].total \in Nat /\ row[j].bar \in Nat
        /\ disk[j] \in Nat /\ at[j] \in Steps /\ poller[j] \in Reading
        /\ Sound(j, row[j].status, row[j].error, row[j].total, row[j].bar,
                 disk[j], at[j], poller[j], j \in blurred, j \in shared)
    BY OneJob
  <2>4. AfterRestart(j, row[j].status, row[j].error, row[j].total, row[j].bar, disk[j],
                     j \in blurred, j \in shared)
    BY <2>3, RestartingIsSound
  <2>5. CASE row[j].status = "running"
    <3>1. /\ Started(row[j]) \in Row /\ Started(row[j]).status = "queued"
          /\ Started(row[j]).error = row[j].error /\ Started(row[j]).total = row[j].total
          /\ Started(row[j]).bar = row[j].bar
      BY <2>1, <2>5 DEF Started, Row, Statuses
    <3>2. at'[j] = "none" /\ poller'[j] = Off
      BY <2>1, <2>5
    <3>3. \A also : Sound(j, "queued", row[j].error, row[j].total, row[j].bar,
                          disk[j], "none", Off, j \in blurred, also)
      BY <2>5, <2>4 DEF AfterRestart
    <3>4. Sound(j, "queued", row[j].error, row[j].total, row[j].bar,
                disk[j], "none", Off, j \in blurred', j \in shared')
      BY <2>2, <2>5, <3>3 DEF Sound
    <3> QED
      BY <2>1, <3>1, <3>2, <3>4
  <2>6. CASE row[j].status = "verifying"
    <3>1. /\ Started(row[j]) \in Row /\ Started(row[j]).status = "completed"
          /\ Started(row[j]).error = row[j].error /\ Started(row[j]).total = row[j].total
          /\ Started(row[j]).bar = row[j].total
      BY <2>1, <2>6 DEF Started, Row, Statuses
    <3>2. at'[j] = "none" /\ poller'[j] = Off
      BY <2>1, <2>6
    <3>3. \A also : Sound(j, "completed", row[j].error, row[j].total, row[j].total,
                          disk[j], "none", Off, FALSE, also)
      BY <2>6, <2>4 DEF AfterRestart
    <3>4. Sound(j, "completed", row[j].error, row[j].total, row[j].total,
                disk[j], "none", Off, j \in blurred', j \in shared')
      BY <2>2, <2>6, <3>3 DEF Sound
    <3> QED
      BY <2>1, <3>1, <3>2, <3>4
  <2>7. CASE row[j].status = "deleting"
    <3>1. Started(row[j]) = row[j] /\ at'[j] = "remove" /\ poller'[j] = Unread
      BY <2>1, <2>7 DEF Started
    <3>2. \A also : Sound(j, row[j].status, row[j].error, row[j].total, row[j].bar,
                          disk[j], "remove", Unread, j \in blurred, also)
      BY <2>7, <2>4 DEF AfterRestart
    <3>3. Sound(j, row[j].status, row[j].error, row[j].total, row[j].bar,
                disk[j], "remove", Unread, j \in blurred', j \in shared')
      BY <2>2, <2>7, <3>2 DEF Sound
    <3> QED
      BY <2>1, <3>1, <3>3
  <2>8. CASE row[j].status \notin {"running", "verifying", "deleting"}
    <3>1. Started(row[j]) = row[j] /\ at'[j] = "none" /\ poller'[j] = Off
      BY <2>1, <2>8 DEF Started
    <3>2. /\ row[j].error = "disk full" => row[j].status = "failed" /\ j \in shared
          /\ Sound(j, row[j].status, row[j].error, row[j].total, row[j].bar,
                   disk[j], "none", Off, j \in blurred, j \in shared)
      BY <2>8, <2>4 DEF AfterRestart
    <3>3. Sound(j, row[j].status, row[j].error, row[j].total, row[j].bar,
                disk[j], "none", Off, j \in blurred', j \in shared')
      BY <2>2, <2>8, <3>2 DEF Sound
    <3> QED
      BY <2>1, <3>1, <3>3
  <2> QED
    BY <2>5, <2>6, <2>7, <2>8
<1>2. Typed'
  BY <1>1, Pollers DEF Restarts, Typed, Steps
<1> QED
  BY <1>1, <1>2 DEF AllSound
-----------------------------------------------------------------------------
(* RoomAlone: what one job writes or removes is what the free space loses  *)
(* or gains.                                                               *)

LEMMA FreeMoves ==
    ASSUME Typed, NEW j \in Jobs, NEW d \in Nat, DiskIs(j, d)
    PROVE  Free \in Int /\ Free' = Free + disk[j] - d
<1> DEFINE new == [disk EXCEPT ![j] = d]
<1>1. disk \in [Jobs -> Nat] /\ new \in [Jobs -> Nat] /\ disk' = new
  BY DEF Typed, DiskIs
<1>2. new[j] = d /\ \A i \in Jobs \ {j} : disk[i] = new[i]
  BY <1>1
<1>3. NatOn(disk, Jobs) /\ NatOn(new, Jobs) /\ IsFiniteSet(Jobs)
  BY <1>1, ProgressAssumption DEF NatOn
<1>4. SumFunction(disk) = SumFunctionOnSet(disk, Jobs)
  BY <1>1 DEF SumFunction
<1>5. SumFunction(disk') = SumFunctionOnSet(new, Jobs)
  BY <1>1 DEF SumFunction
<1> HIDE DEF new
<1>6. /\ SumFunctionOnSet(disk, Jobs) \in Nat /\ SumFunctionOnSet(new, Jobs) \in Nat
      /\ SumFunctionOnSet(new, Jobs) - SumFunctionOnSet(disk, Jobs) = new[j] - disk[j]
  BY <1>2, <1>3, SumChangesOne
<1>7. Capacity \in Nat /\ disk[j] \in Nat
  BY <1>1, ProgressAssumption
<1>8. Free = Capacity - SumFunctionOnSet(disk, Jobs)
  BY <1>4 DEF Free
<1>9. Free' = Capacity - SumFunctionOnSet(new, Jobs)
  BY <1>5 DEF Free
<1> QED
  BY <1>2, <1>6, <1>7, <1>8, <1>9

(* A step that starts no download and makes no one share the disk less     *)
(* while it downloads.                                                     *)
LEMMA RoomStays ==
    ASSUME Typed, RoomAlone, UNCHANGED disk,
           \A i \in Jobs : at'[i] = "download" =>
               at[i] = "download" /\ (i \in shared => i \in shared')
    PROVE  RoomAlone'
<1>1. Free' = Free
  BY DEF Free
<1>2. Downloading' \subseteq Downloading
  BY DEF Downloading
<1> SUFFICES ASSUME NEW i \in Jobs, at'[i] = "download", i \notin shared'
             PROVE  Downloading' = {i} /\ Size[i] - disk'[i] <= Free'
  BY DEF RoomAlone
<1>3. Downloading = {i} /\ Size[i] - disk[i] <= Free
  BY DEF RoomAlone
<1>4. i \in Downloading'
  BY DEF Downloading
<1> QED
  BY <1>1, <1>2, <1>3, <1>4

LEMMA StaysElsewhere ==
    ASSUME Typed, RoomAlone, NEW j \in Jobs, UNCHANGED disk, shared \ {j} \subseteq shared',
           \/ UNCHANGED <<at, shared>>
           \/ \E step \in Steps \ {"download"} : GoTo(j, step)
    PROVE  RoomAlone'
<1>1. ASSUME NEW i \in Jobs, at'[i] = "download"
      PROVE  at[i] = "download" /\ (i \in shared => i \in shared')
  BY <1>1 DEF GoTo, Typed
<1> QED
  BY <1>1, RoomStays

LEMMA FitsKeepsRoom ==
    ASSUME Typed, RoomAlone, NEW j \in Jobs, Fits(j)
    PROVE  RoomAlone'
<1>1. /\ at' = [at EXCEPT ![j] = "download"] /\ disk' = disk
      /\ Size[j] - disk[j] <= Free
      /\ shared' = IF Downloading = {} THEN shared \ {j}
                   ELSE shared \cup Downloading \cup {j}
  BY DEF Fits, Begins, GoTo
<1>2. Free' = Free
  BY <1>1 DEF Free
<1>3. Downloading' = Downloading \cup {j}
  BY <1>1 DEF Downloading, Typed
<1> SUFFICES ASSUME NEW i \in Jobs, at'[i] = "download", i \notin shared'
             PROVE  Downloading' = {i} /\ Size[i] - disk'[i] <= Free'
  BY DEF RoomAlone
<1>4. i \in Downloading \cup {j}
  BY <1>3 DEF Downloading
<1>5. Downloading = {} /\ i = j
  BY <1>1, <1>4
<1> QED
  BY <1>1, <1>2, <1>3, <1>5

LEMMA WritesKeepsRoom ==
    ASSUME Typed, RoomAlone, NEW j \in Jobs, Writes(j)
    PROVE  RoomAlone'
<1>1. /\ at[j] = "download" /\ at' = at /\ shared' = shared
      /\ disk' = [disk EXCEPT ![j] = disk[j] + 1] /\ disk[j] \in Nat /\ Size[j] \in Nat
  BY ProgressAssumption DEF Writes, threads, Typed
<1>2. disk[j] + 1 \in Nat /\ DiskIs(j, disk[j] + 1)
  BY <1>1 DEF DiskIs
<1>3. Free \in Int /\ Free' = Free + disk[j] - (disk[j] + 1)
  BY <1>2, FreeMoves
<1> SUFFICES ASSUME NEW i \in Jobs, at[i] = "download", i \notin shared
             PROVE  Downloading' = {i} /\ Size[i] - disk'[i] <= Free'
  BY <1>1 DEF RoomAlone
<1>4. Downloading = {i} /\ Size[i] - disk[i] <= Free /\ j \in Downloading
  BY <1>1 DEF RoomAlone, Downloading
<1>5. i = j /\ Downloading' = Downloading /\ disk'[j] = disk[j] + 1
  BY <1>1, <1>4 DEF Downloading, Typed
<1> QED
  BY <1>1, <1>3, <1>4, <1>5

LEMMA UnlinksKeepsRoom ==
    ASSUME Typed, RoomAlone, NEW j \in Jobs, Unlinks(j)
    PROVE  RoomAlone'
<1>1. /\ at[j] # "download" /\ at' = at /\ shared' = shared /\ disk[j] \in Nat
      /\ disk[j] - 1 \in Nat /\ disk' = [disk EXCEPT ![j] = disk[j] - 1]
  BY DEF Unlinks, threads, Typed
<1>2. Free \in Int /\ Free' = Free + disk[j] - (disk[j] - 1)
  BY <1>1, FreeMoves DEF DiskIs
<1> SUFFICES ASSUME NEW i \in Jobs, at[i] = "download", i \notin shared
             PROVE  Downloading' = {i} /\ Size[i] - disk'[i] <= Free'
  BY <1>1 DEF RoomAlone
<1>3. Downloading = {i} /\ Size[i] - disk[i] <= Free
  BY DEF RoomAlone
<1>4. i # j /\ Downloading' = Downloading /\ disk'[i] = disk[i]
  BY <1>1 DEF Downloading, Typed
<1>5. Size[i] \in Nat /\ disk[i] \in Nat
  BY ProgressAssumption DEF Typed
<1> QED
  BY <1>1, <1>2, <1>3, <1>4, <1>5

LEMMA InvNext ==
    ASSUME Inv, [Next]_vars
    PROVE  Inv'
<1> USE DEF Inv
<1>1. CASE UNCHANGED vars
  <2>1. UNCHANGED <<row, blurred, disk, at, poller, late, sizer, shared>>
    BY <1>1 DEF vars
  <2> QED
    BY <2>1 DEF Typed, AllSound, RoomAlone, Downloading, Free
<1>2. CASE Restarts
  <2>1. \A i \in Jobs : at'[i] # "download" /\ disk' = disk
    BY <1>2 DEF Restarts
  <2> QED
    BY <1>2, <2>1, RestartsKeeps, RoomStays DEF Restarts
<1>3. ASSUME NEW j \in Jobs, Handles(j) PROVE Inv'
  <2>1. CASE Creates(j)
    BY <2>1, CreatesKeeps, StaysElsewhere DEF Creates
  <2>2. CASE SizerAnswers(j)
    BY <2>2, SizerAnswersKeeps, StaysElsewhere DEF SizerAnswers
  <2>3. CASE SizerFails(j)
    BY <2>3, SizerFailsKeeps, StaysElsewhere DEF SizerFails
  <2>4. CASE AddsAgain(j)
    BY <2>4, AddsAgainKeeps, StaysElsewhere DEF AddsAgain, threads
  <2>5. CASE Verifies(j)
    BY <2>5, VerifiesKeeps, StaysElsewhere DEF Verifies, Steps
  <2>6. CASE Deletes(j)
    BY <2>6, DeletesKeeps, StaysElsewhere DEF Deletes, Steps
  <2> QED
    BY <1>3, <2>1, <2>2, <2>3, <2>4, <2>5, <2>6 DEF Handles
<1>4. ASSUME NEW j \in Jobs, Works(j) PROVE Inv'
  <2>1. CASE Claims(j)
    BY <2>1, ClaimsKeeps, StaysElsewhere DEF Claims, Steps
  <2>2. CASE Fits(j)
    BY <2>2, FitsKeeps, FitsKeepsRoom
  <2>3. CASE DoesNotFit(j)
    BY <2>3, DoesNotFitKeeps, StaysElsewhere DEF DoesNotFit, Steps
  <2>4. CASE Writes(j)
    BY <2>4, WritesKeeps, WritesKeepsRoom
  <2>5. CASE Ends(j)
    BY <2>5, EndsKeeps, StaysElsewhere DEF Ends, Steps
  <2>6. CASE Fills(j)
    BY <2>6, FillsKeeps, StaysElsewhere DEF Fills, Steps
  <2>7. CASE Settles(j)
    BY <2>7, SettlesKeeps, StaysElsewhere DEF Settles, Steps
  <2>8. CASE Stops(j)
    BY <2>8, StopsKeeps, StaysElsewhere DEF Stops, Steps
  <2>9. CASE RunsOut(j)
    BY <2>9, RunsOutKeeps, StaysElsewhere DEF RunsOut, Steps
  <2>10. CASE Hashes(j)
    BY <2>10, HashesKeeps, StaysElsewhere DEF Hashes, threads
  <2>11. CASE Concludes(j)
    BY <2>11, ConcludesKeeps, StaysElsewhere DEF Concludes, Steps
  <2>12. CASE Lands(j)
    BY <2>12, LandsKeeps, StaysElsewhere DEF Lands, Steps
  <2>13. CASE Unlinks(j)
    BY <2>13, UnlinksKeeps, UnlinksKeepsRoom
  <2>14. CASE RemoverEnds(j)
    BY <2>14, RemoverEndsKeeps, StaysElsewhere DEF RemoverEnds, Steps
  <2>15. CASE Drops(j)
    BY <2>15, DropsKeeps, StaysElsewhere DEF Drops, Steps
  <2>16. CASE GivesUp(j)
    BY <2>16, GivesUpKeeps, StaysElsewhere DEF GivesUp, Steps
  <2>17. CASE Empties(j)
    BY <2>17, EmptiesKeeps, StaysElsewhere DEF Empties, Steps
  <2>18. CASE Requeues(j)
    BY <2>18, RequeuesKeeps, StaysElsewhere DEF Requeues, Steps
  <2> QED
    BY <1>4, <2>1, <2>2, <2>3, <2>4, <2>5, <2>6, <2>7, <2>8, <2>9, <2>10, <2>11, <2>12,
       <2>13, <2>14, <2>15, <2>16, <2>17, <2>18 DEF Works
<1>5. ASSUME NEW j \in Jobs, Polls(j) PROVE Inv'
  <2>1. CASE Reads(j)
    BY <2>1, ReadsKeeps, StaysElsewhere DEF Reads
  <2>2. CASE Reports(j)
    BY <2>2, ReportsKeeps, StaysElsewhere DEF Reports
  <2>3. CASE SeesStop(j)
    BY <2>3, SeesStopKeeps, StaysElsewhere DEF SeesStop
  <2>4. CASE ReportsLate(j)
    BY <2>4, ReportsLateKeeps, StaysElsewhere DEF ReportsLate
  <2> QED
    BY <1>5, <2>1, <2>2, <2>3, <2>4 DEF Polls
<1> QED
  BY <1>1, <1>2, <1>3, <1>4, <1>5 DEF Next

LEMMA InvHolds == Spec => []Inv
<1>1. Init => Inv
  BY InvInit
<1>2. Inv /\ [Next]_vars => Inv'
  BY InvNext
<1> QED
  BY <1>1, <1>2, PTL DEF Spec

-----------------------------------------------------------------------------
(* The theorems. *)

(* Every byte count stays within the size of its repository, a row that    *)
(* has gone keeps nothing, and no thread is at a step it does not have.    *)
THEOREM TypeCorrect == Spec => []TypeOK
<1>1. Inv => TypeOK
  <2> SUFFICES ASSUME Inv PROVE TypeOK
    OBVIOUS
  <2>1. Typed /\ AllSound
    BY DEF Inv
  <2>2. ASSUME NEW j \in Jobs
        PROVE  /\ row[j].status \in Statuses /\ row[j].error \in Errors
               /\ row[j].total \in {0, Size[j]} /\ row[j].bar \in 0..Size[j]
               /\ row[j].status = "absent" => row[j] = NoRow
               /\ disk[j] \in 0..Size[j] /\ at[j] \in Steps
               /\ poller[j].on \in BOOLEAN /\ poller[j].read \subseteq 0..Size[j]
    <3>1. Measures(j, row[j].status, row[j].error, row[j].total, row[j].bar,
                   disk[j], poller[j])
      BY <2>1, OneJob DEF Sound
    <3>2. row[j].status = "absent" => row[j] = NoRow
      BY <2>1, <3>1 DEF Typed, Row, NoRow, Measures
    <3> QED
      BY <2>1, <3>1, <3>2, OneJob DEF Measures, Reading
  <2> QED
    BY <2>1, <2>2 DEF TypeOK, Typed, Statuses, Errors
<1> QED
  BY <1>1, InvHolds, PTL

(* A complete backup shows 100 %: no order of hashing, stopping,           *)
(* restarting, polling and re-downloading leaves 'completed' in a row      *)
(* whose bar and size do not agree, for any number of jobs and any sizes   *)
(* (backup.py:358,437,462, db.py:159-169), but where a late poller or a    *)
(* late size was the last to write the bar (blurred).                      *)
THEOREM CompletedBarFull == Spec => []CompletedBarIsFull
<1>1. Inv => CompletedBarIsFull
  <2> SUFFICES ASSUME Inv, NEW j \in Jobs, row[j].status = "completed", j \notin blurred
               PROVE  row[j].bar = row[j].total /\ row[j].total = Size[j]
    BY DEF CompletedBarIsFull
  <2> QED
    BY OneJob DEF Inv, Sound, Whole, BarFits
<1> QED
  BY <1>1, InvHolds, PTL

(* What pending_bytes promises for the rows that are queued or running     *)
(* (db.py:285-300) covers what their directories still lack, but where a   *)
(* late poller, a late size or a removal that failed half-way was the last *)
(* to touch bar or files (blurred).                                        *)
THEOREM PlannedEnough == Spec => []PlannedIsEnough
<1>1. Inv => PlannedIsEnough
  <2> SUFFICES ASSUME Inv, NEW j \in Jobs, row[j].status \in {"queued", "running"},
                      row[j].total > 0, j \notin blurred
               PROVE  Planned(j) >= Size[j] - disk[j]
    BY DEF PlannedIsEnough
  <2>1. /\ row[j].total \in Nat /\ row[j].bar \in Nat /\ disk[j] \in Nat /\ Size[j] \in Nat
        /\ row[j].total \in {0, Size[j]} /\ row[j].bar <= disk[j]
    BY OneJob DEF Inv, Sound, Measures, BarFits
  <2> QED
    BY <2>1 DEF Planned
<1> QED
  BY <1>1, InvHolds, PTL

(* A download that passed the pre-flight check (backup.py:319-327) finds   *)
(* the disk full only if another download shared the disk with it: alone,  *)
(* it keeps the room it was promised.                                      *)
THEOREM DiskFullIsShared == Spec => []DiskFullOnlyWhenShared
<1>1. Inv => DiskFullOnlyWhenShared
  BY OneJob DEF Inv, Sound, DiskFullOnlyWhenShared
<1> QED
  BY <1>1, InvHolds, PTL
=============================================================================

----------------------------- MODULE IndexerProofs -----------------------------
(***************************************************************************)
(* A photo's hash and capture time are those of its file: for any photos,  *)
(* files and requests.                                                     *)
(*                                                                         *)
(* The file of a photo is the one at its path or, while it is trashed or   *)
(* on its way, the one in the trash.  An undisturbed photo's entry tells   *)
(* the truth about that file at every moment, and what the indexer holds   *)
(* of an undisturbed photo is about a file that has not moved since it was *)
(* picked.                                                                 *)
(***************************************************************************)
EXTENDS Indexer, TLAPS

FileOf(id) == IF lib[id] # Nil THEN lib[id] ELSE bin[id]

\* Entry and file belong together.
EntryTrue(id) ==
    Known(id) =>
        /\ FileOf(id) # Nil
        /\ photos[id].time = "exif" => FileOf(id) \in Dated
        /\ photos[id].hash # "none" =>
              [hash |-> photos[id].hash, time |-> photos[id].time] = Result(FileOf(id))

\* Nothing but a request that has not ended yet, or a crash, takes a file from its
\* path and leaves the entry.
AtItsPath(id) ==
    (Known(id) /\ ~photos[id].trashed /\ moving[id] = "none" /\ proc # "down") =>
        lib[id] # Nil

\* What the indexer has found out so far.
HandTrue(id) ==
    InHand(id) =>
        /\ Known(id) /\ ~photos[id].trashed /\ photos[id].hash = "none"
        /\ moving[id] = "none"
        /\ pc = "date" => lib[id] \in Dated
        /\ (pc \in {"decode", "set", "fail"} /\ lib[id] \in Dated) =>
              photos[id].time = "exif"
        /\ pc = "set" => work.file = lib[id] /\ lib[id] \notin Broken
        /\ pc = "fail" => lib[id] \in Broken

Undisturbed(id) ==
    disk[id] = photos[id] /\ EntryTrue(id) /\ AtItsPath(id) /\ HandTrue(id)

\* The indexer's locals, by where it is.
Hand ==
    /\ pc \in {"exif", "date", "decode", "set", "fail"} <=> work.id # Nil
    /\ pc = "set" => work.file # Nil
    /\ proc = "down" => work.id = Nil

Inv == TypeOK /\ Hand /\ \A id \in PhotoIDs \ disturbed : Undisturbed(id)
-----------------------------------------------------------------------------
LEMMA NewEntryType == NewEntry \in Entry /\ NewEntry # Nil
  <1>1. NewEntry \in Entry
    BY DEF NewEntry, Entry
  <1> QED
    BY <1>1, NilAssumption

LEMMA InitInv == Init => Inv
  <1> SUFFICES ASSUME Init PROVE Inv
    OBVIOUS
  <1>1. lib \in [PhotoIDs -> Contents]
    BY ContentsAssumption DEF Init
  <1>2. NewEntry \in Entry /\ NewEntry # Nil
    BY NewEntryType
  <1>3. TypeOK
    BY <1>1, <1>2 DEF Init, TypeOK, Idle
  <1>4. Hand
    BY DEF Init, Hand, Idle
  <1>5. ASSUME NEW id \in PhotoIDs PROVE Undisturbed(id)
    <2>1. lib[id] # Nil
      BY <1>1, NilAssumption
    <2>2. photos[id] = NewEntry /\ disk[id] = photos[id] /\ ~InHand(id)
      BY NilAssumption DEF Init, InHand, Idle
    <2> QED
      BY <2>1, <2>2 DEF Undisturbed, EntryTrue, FileOf, AtItsPath, HandTrue, NewEntry
  <1> QED
    BY <1>3, <1>4, <1>5 DEF Inv

\* A photo that a step leaves alone stays as true as it was.
LEMMA Frame ==
    ASSUME Inv, NEW x \in PhotoIDs \ disturbed,
           photos'[x] = photos[x], disk'[x] = photos'[x],
           lib'[x] = lib[x], bin'[x] = bin[x], moving'[x] = moving[x],
           proc' # "down" => proc # "down",
           InHand(x)' => InHand(x) /\ pc' = pc /\ work' = work
    PROVE  Undisturbed(x)'
  <1>1. Undisturbed(x)
    BY DEF Inv
  <1>2. EntryTrue(x)'
    BY <1>1 DEF Undisturbed, EntryTrue, Known, FileOf
  <1>3. AtItsPath(x)'
    BY <1>1 DEF Undisturbed, AtItsPath, Known
  <1>4. HandTrue(x)'
    BY <1>1 DEF Undisturbed, HandTrue, InHand, Known
  <1> QED
    BY <1>2, <1>3, <1>4 DEF Undisturbed

\* After a save table and file agree on every photo that is not disturbed by it.
LEMMA SaveAgrees ==
    ASSUME Inv, NEW id \in PhotoIDs, NEW note, Save(id, note),
           NEW x \in PhotoIDs \ disturbed',
           x # id => x \notin disturbed /\ photos'[x] = photos[x]
    PROVE  disk'[x] = photos'[x]
  <1>1. CASE disk' = photos'
    BY <1>1
  <1>2. CASE UNCHANGED disk /\ disturbed' = note \cup {id}
    BY <1>2 DEF Inv, Undisturbed
  <1> QED
    BY <1>1, <1>2 DEF Save

LEMMA SaveType ==
    ASSUME TypeOK, photos' \in [PhotoIDs -> Entry \cup {Nil}],
           NEW id \in PhotoIDs, NEW note \in SUBSET PhotoIDs, Save(id, note)
    PROVE  /\ disk' \in [PhotoIDs -> Entry \cup {Nil}]
           /\ disturbed' \subseteq PhotoIDs
           /\ note \subseteq disturbed'
  BY DEF Save, TypeOK

\* Where the indexer works on a photo, it has one.
LEMMA Working ==
    ASSUME Inv, pc \in {"exif", "date", "decode", "set", "fail"}
    PROVE  work.id \in PhotoIDs /\ InHand(work.id) /\ proc # "down"
  BY NilAssumption DEF Inv, Hand, TypeOK, InHand

-----------------------------------------------------------------------------
(***************************************************************************)
(* The indexer's steps.                                                    *)
(***************************************************************************)
\* Steps between photos change nothing but pc.
LEMMA BetweenInv ==
    ASSUME Inv, pc \in {"loop", "nap"}, pc' \in {"loop", "nap", "done"},
           UNCHANGED <<photos, disk, lib, bin, moving, proc, work, disturbed>>
    PROVE  Inv'
  <1>1. TypeOK'
    BY DEF Inv, TypeOK
  <1>2. Hand'
    BY DEF Inv, Hand
  <1>3. ASSUME NEW x \in PhotoIDs \ disturbed PROVE Undisturbed(x)'
    <2>1. ~InHand(x)' /\ disk[x] = photos[x]
      BY NilAssumption DEF Inv, Hand, InHand, Undisturbed
    <2> QED
      BY <2>1, Frame
  <1> QED
    BY <1>1, <1>2, <1>3 DEF Inv

LEMMA PickInv == ASSUME Inv, NEW id \in PhotoIDs, Pick(id) PROVE Inv'
  <1> USE DEF Pick, Runs, Goes, world
  <1>1. /\ TypeOK' /\ Hand'
        /\ disturbed \subseteq disturbed'
    BY NilAssumption DEF Inv, TypeOK, Hand
  <1>2. ASSUME NEW x \in PhotoIDs \ disturbed' PROVE Undisturbed(x)'
    <2>1. x \in PhotoIDs \ disturbed /\ Undisturbed(x)
      BY <1>1, <1>2 DEF Inv
    <2>2. CASE x # id
      BY <2>1, <2>2, Frame DEF InHand, Undisturbed
    <2>3. CASE x = id
      <3>1. moving[id] = "none"
        BY <1>2, <2>3
      <3>2. disk'[x] = photos'[x] /\ EntryTrue(x)' /\ AtItsPath(x)'
        BY <2>1 DEF Undisturbed, EntryTrue, AtItsPath, Known, FileOf
      <3>3. HandTrue(x)'
        BY <2>3, <3>1 DEF HandTrue, InHand, Unhashed, Known
      <3> QED
        BY <3>2, <3>3 DEF Undisturbed
    <2> QED
      BY <2>2, <2>3
  <1> QED
    BY <1>1, <1>2 DEF Inv

LEMMA ReadExifInv == ASSUME Inv, ReadExif PROVE Inv'
  <1> USE DEF ReadExif, Runs, Goes, Reads, world
  <1>1. work.id \in PhotoIDs /\ InHand(work.id) /\ proc # "down"
    BY Working
  <1>2. TypeOK' /\ Hand'
    BY DEF Inv, TypeOK, Hand
  <1>3. ASSUME NEW x \in PhotoIDs \ disturbed PROVE Undisturbed(x)'
    <2>1. Undisturbed(x)
      BY <1>3 DEF Inv
    <2>2. disk'[x] = photos'[x] /\ EntryTrue(x)' /\ AtItsPath(x)'
      BY <2>1 DEF Undisturbed, EntryTrue, AtItsPath, Known, FileOf
    <2>3. HandTrue(x)'
      BY <2>1 DEF Undisturbed, HandTrue, InHand, Known
    <2> QED
      BY <2>2, <2>3 DEF Undisturbed
  <1> QED
    BY <1>2, <1>3 DEF Inv

\* The date is that of the file in hand.
LEMMA SetCaptureTimeInv == ASSUME Inv, SetCaptureTime PROVE Inv'
  <1> USE DEF SetCaptureTime, Runs, Goes, world
  <1>1. work.id \in PhotoIDs /\ InHand(work.id) /\ proc # "down"
    BY Working
  <1>2. CASE Known(work.id) /\ photos[work.id].time # "exif"
    <2> DEFINE dated == [photos[work.id] EXCEPT !.time = "exif"]
    <2>1. /\ photos' = [photos EXCEPT ![work.id] = dated]
          /\ Save(work.id, disturbed)
      BY <1>2
    <2>2. /\ photos[work.id] \in Entry
          /\ dated \in Entry /\ dated.time = "exif"
          /\ dated.hash = photos[work.id].hash /\ dated.trashed = photos[work.id].trashed
      BY <1>1, <1>2 DEF Inv, TypeOK, Known, Entry
    <2>3. dated # Nil
      BY <2>2, NilAssumption
    <2> HIDE DEF dated
    <2>4. photos' \in [PhotoIDs -> Entry \cup {Nil}]
      BY <2>1, <2>2 DEF Inv, TypeOK
    <2>5. disturbed \subseteq disturbed'
      BY <1>1, <2>1, <2>4, SaveType DEF Inv, TypeOK
    <2>6. TypeOK' /\ Hand'
      <3>1. disk' \in [PhotoIDs -> Entry \cup {Nil}] /\ disturbed' \subseteq PhotoIDs
        BY <1>1, <2>1, <2>4, SaveType DEF Inv, TypeOK
      <3> QED
        BY <2>4, <3>1 DEF Inv, TypeOK, Hand
    <2>7. ASSUME NEW x \in PhotoIDs \ disturbed' PROVE Undisturbed(x)'
      <3>1. x \in PhotoIDs \ disturbed /\ Undisturbed(x)
        BY <2>5, <2>7 DEF Inv
      <3>2. x # work.id => photos'[x] = photos[x]
        BY <2>1 DEF Inv, TypeOK
      <3>3. disk'[x] = photos'[x]
        BY <1>1, <2>1, <2>7, <3>1, <3>2, SaveAgrees
      <3>4. CASE x # work.id
        BY <3>1, <3>2, <3>3, <3>4, Frame DEF InHand
      <3>5. CASE x = work.id
        <4>1. photos'[x] = dated
          BY <1>1, <2>1, <3>5 DEF Inv, TypeOK
        <4>2. /\ photos[x].hash = "none" /\ ~photos[x].trashed
              /\ moving[x] = "none" /\ lib[x] \in Dated
          BY <1>1, <3>1, <3>5 DEF Undisturbed, HandTrue
        <4>3. lib[x] # Nil
          BY <4>2, NilAssumption, ContentsAssumption
        <4>4. EntryTrue(x)' /\ AtItsPath(x)'
          BY <2>2, <3>5, <4>1, <4>2, <4>3 DEF EntryTrue, AtItsPath, FileOf, Known
        <4>5. HandTrue(x)'
          BY <2>2, <2>3, <3>5, <4>1, <4>2 DEF HandTrue, Known
        <4> QED
          BY <3>3, <4>4, <4>5 DEF Undisturbed
      <3> QED
        BY <3>4, <3>5
    <2> QED
      BY <2>6, <2>7 DEF Inv
  <1>3. CASE ~(Known(work.id) /\ photos[work.id].time # "exif")
    <2> USE <1>3 DEF Reads
    <2>1. TypeOK' /\ Hand'
      BY DEF Inv, TypeOK, Hand
    <2>2. ASSUME NEW x \in PhotoIDs \ disturbed PROVE Undisturbed(x)'
      <3>1. Undisturbed(x)
        BY <2>2 DEF Inv
      <3>2. disk'[x] = photos'[x] /\ EntryTrue(x)' /\ AtItsPath(x)'
        BY <3>1 DEF Undisturbed, EntryTrue, AtItsPath, Known, FileOf
      <3>3. HandTrue(x)'
        BY <3>1 DEF Undisturbed, HandTrue, InHand, Known
      <3> QED
        BY <3>2, <3>3 DEF Undisturbed
    <2> QED
      BY <2>1, <2>2 DEF Inv
  <1> QED
    BY <1>2, <1>3

LEMMA DecodeInv == ASSUME Inv, Decode PROVE Inv'
  <1> USE DEF Decode, Runs, Goes, Reads, world
  <1>1. work.id \in PhotoIDs /\ InHand(work.id) /\ proc # "down"
    BY Working
  <1>2. work'.id = work.id /\ work' \in [id: PhotoIDs \cup {Nil}, file: Contents \cup {Nil}]
    BY <1>1 DEF Inv, TypeOK
  <1>3. pc' = "set" => work'.file = lib[work.id] /\ work'.file \in Contents \ Broken
    BY DEF Inv, TypeOK
  <1>4. pc' \in {"set", "fail"}
    OBVIOUS
  <1>5. TypeOK'
    BY <1>2, <1>4 DEF Inv, TypeOK
  <1>6. Hand'
    BY <1>1, <1>2, <1>3, <1>4, NilAssumption DEF Inv, Hand
  <1>7. ASSUME NEW x \in PhotoIDs \ disturbed PROVE Undisturbed(x)'
    <2>1. Undisturbed(x)
      BY <1>7 DEF Inv
    <2>2. disk'[x] = photos'[x] /\ EntryTrue(x)' /\ AtItsPath(x)'
      BY <2>1 DEF Undisturbed, EntryTrue, AtItsPath, Known, FileOf
    <2>3. HandTrue(x)'
      <3>1. CASE x # work.id
        BY <1>2, <3>1 DEF HandTrue, InHand
      <3>2. CASE x = work.id
        <4>1. Known(x) /\ ~photos[x].trashed /\ moving[x] = "none" /\ photos[x].hash = "none"
              /\ (lib[x] \in Dated => photos[x].time = "exif")
          BY <2>1, <3>2, <1>1 DEF Undisturbed, HandTrue
        <4>2. lib[x] \in Contents
          BY <2>1, <4>1, <1>1, NilAssumption DEF Undisturbed, AtItsPath, Inv, TypeOK
        <4>3. pc' = "fail" => lib[x] \in Broken
          BY <3>2, <4>2
        <4> QED
          BY <1>3, <3>2, <4>1, <4>3 DEF HandTrue, Known
      <3> QED
        BY <3>1, <3>2
    <2> QED
      BY <2>2, <2>3 DEF Undisturbed
  <1> QED
    BY <1>5, <1>6, <1>7 DEF Inv
\* The hash is that of the file in hand; without a save the photo is disturbed.
LEMMA SetHashInv == ASSUME Inv, SetHash PROVE Inv'
  <1> USE DEF SetHash, Runs, Goes, world
  <1>1. work.id \in PhotoIDs /\ InHand(work.id) /\ proc # "down"
    BY Working
  <1>2. work.file \in Contents
    BY DEF Inv, TypeOK, Hand
  <1>3. CASE Known(work.id)
    <2> DEFINE hashed == [photos[work.id] EXCEPT !.hash = work.file]
    <2>1. photos' = [photos EXCEPT ![work.id] = hashed]
      BY <1>3
    <2>2. /\ photos[work.id] \in Entry /\ hashed \in Entry
          /\ hashed.hash = work.file /\ hashed.time = photos[work.id].time
          /\ hashed.trashed = photos[work.id].trashed
      BY <1>1, <1>2, <1>3 DEF Inv, TypeOK, Known, Entry
    <2>3. hashed # Nil
      BY <2>2, NilAssumption
    <2> HIDE DEF hashed
    <2>4. photos' \in [PhotoIDs -> Entry \cup {Nil}]
      BY <2>1, <2>2 DEF Inv, TypeOK
    <2>5. \/ /\ disk' = photos' /\ UNCHANGED disturbed
             /\ pc' = "loop" /\ work' = Idle
          \/ /\ UNCHANGED disk /\ disturbed' = disturbed \cup {work.id}
             /\ pc' = "fail" /\ work' = work
      BY <1>3
    <2>6. TypeOK'
      BY <1>1, <2>4, <2>5 DEF Inv, TypeOK, Idle
    <2>7. Hand'
      BY <1>1, <2>5, NilAssumption DEF Inv, Hand, Idle
    <2>8. ASSUME NEW x \in PhotoIDs \ disturbed' PROVE Undisturbed(x)'
      <3>1. x \in PhotoIDs \ disturbed /\ Undisturbed(x)
        BY <2>5, <2>8 DEF Inv
      <3>2. CASE x # work.id
        <4>1. photos'[x] = photos[x] /\ disk'[x] = photos'[x]
          BY <2>1, <2>5, <3>1, <3>2 DEF Inv, TypeOK, Undisturbed
        <4>2. ~InHand(x)'
          BY <2>5, <3>2, NilAssumption DEF InHand, Idle
        <4> QED
          BY <3>1, <4>1, <4>2, Frame
      <3>3. CASE x = work.id
        <4>1. disk' = photos' /\ work' = Idle /\ photos'[x] = hashed
          BY <1>1, <2>1, <2>5, <2>8, <3>3 DEF Inv, TypeOK
        <4>2. /\ ~photos[x].trashed /\ moving[x] = "none"
              /\ work.file = lib[x] /\ lib[x] \notin Broken
              /\ lib[x] \in Dated => photos[x].time = "exif"
              /\ photos[x].time = "exif" => FileOf(x) \in Dated
          BY <1>1, <1>3, <3>1, <3>3 DEF Undisturbed, HandTrue, EntryTrue
        <4>3. lib[x] # Nil /\ FileOf(x) = lib[x] /\ FileOf(x)' = lib[x]
          BY <1>2, <4>2, NilAssumption DEF FileOf
        <4>4. photos[x].time \in {"mtime", "exif"}
          BY <2>2, <3>3 DEF Entry
        <4>5. [hash |-> hashed.hash, time |-> hashed.time] = Result(lib[x])
          BY <2>2, <3>3, <4>2, <4>3, <4>4 DEF Result
        <4>6. EntryTrue(x)' /\ AtItsPath(x)'
          BY <2>2, <3>3, <4>1, <4>2, <4>3, <4>5 DEF EntryTrue, AtItsPath, Known, Result
        <4>7. HandTrue(x)'
          BY <4>1, NilAssumption DEF HandTrue, InHand, Idle
        <4> QED
          BY <4>1, <4>6, <4>7 DEF Undisturbed
      <3> QED
        BY <3>2, <3>3
    <2> QED
      BY <2>6, <2>7, <2>8 DEF Inv
  <1>4. CASE ~Known(work.id)
    <2> USE <1>4 DEF Reads
    <2>1. TypeOK' /\ Hand'
      BY DEF Inv, TypeOK, Hand
    <2>2. ASSUME NEW x \in PhotoIDs \ disturbed PROVE Undisturbed(x)'
      <3>1. Undisturbed(x)
        BY <2>2 DEF Inv
      <3>2. ~InHand(x)
        BY <3>1 DEF Undisturbed, HandTrue, InHand
      <3> QED
        BY <2>2, <3>1, <3>2, Frame DEF Undisturbed, InHand
    <2> QED
      BY <2>1, <2>2 DEF Inv
  <1> QED
    BY <1>3, <1>4

\* Only a broken file fails while its photo is undisturbed.
LEMMA MarkHashFailedInv == ASSUME Inv, MarkHashFailed PROVE Inv'
  <1> USE DEF MarkHashFailed, Runs, Goes, world
  <1>1. work.id \in PhotoIDs /\ InHand(work.id) /\ proc # "down"
    BY Working
  <1>2. CASE Known(work.id)
    <2> DEFINE failed == [photos[work.id] EXCEPT !.hash = "failed"]
    <2>1. /\ photos' = [photos EXCEPT ![work.id] = failed]
          /\ Save(work.id, disturbed)
      BY <1>2
    <2>2. /\ photos[work.id] \in Entry /\ failed \in Entry
          /\ failed.hash = "failed" /\ failed.time = photos[work.id].time
          /\ failed.trashed = photos[work.id].trashed
      BY <1>1, <1>2 DEF Inv, TypeOK, Known, Entry
    <2>3. failed # Nil
      BY <2>2, NilAssumption
    <2> HIDE DEF failed
    <2>4. photos' \in [PhotoIDs -> Entry \cup {Nil}]
      BY <2>1, <2>2 DEF Inv, TypeOK
    <2>5. /\ disk' \in [PhotoIDs -> Entry \cup {Nil}] /\ disturbed' \subseteq PhotoIDs
          /\ disturbed \subseteq disturbed'
      BY <1>1, <2>1, <2>4, SaveType DEF Inv, TypeOK
    <2>6. TypeOK'
      BY <1>1, <2>4, <2>5 DEF Inv, TypeOK, Idle
    <2>7. Hand'
      BY <1>1, NilAssumption DEF Inv, Hand, Idle
    <2>8. ASSUME NEW x \in PhotoIDs \ disturbed' PROVE Undisturbed(x)'
      <3>1. x \in PhotoIDs \ disturbed /\ Undisturbed(x)
        BY <2>5, <2>8 DEF Inv
      <3>2. x # work.id => photos'[x] = photos[x]
        BY <2>1 DEF Inv, TypeOK
      <3>3. disk'[x] = photos'[x]
        BY <1>1, <2>1, <2>8, <3>1, <3>2, SaveAgrees
      <3>4. ~InHand(x)'
        BY NilAssumption DEF InHand, Idle
      <3>5. CASE x # work.id
        BY <3>1, <3>2, <3>3, <3>4, <3>5, Frame
      <3>6. CASE x = work.id
        <4>1. photos'[x] = failed
          BY <1>1, <2>1, <3>6 DEF Inv, TypeOK
        <4>2. /\ ~photos[x].trashed /\ moving[x] = "none" /\ lib[x] \in Broken
              /\ lib[x] \in Dated => photos[x].time = "exif"
              /\ photos[x].time = "exif" => FileOf(x) \in Dated
          BY <1>1, <1>2, <3>1, <3>6 DEF Undisturbed, HandTrue, EntryTrue
        <4>3. lib[x] # Nil /\ FileOf(x) = lib[x] /\ FileOf(x)' = lib[x]
          BY <4>2, NilAssumption, ContentsAssumption DEF FileOf
        <4>4. photos[x].time \in {"mtime", "exif"}
          BY <2>2, <3>6 DEF Entry
        <4>5. [hash |-> failed.hash, time |-> failed.time] = Result(lib[x])
          BY <2>2, <3>6, <4>2, <4>3, <4>4 DEF Result
        <4>6. EntryTrue(x)' /\ AtItsPath(x)'
          BY <2>2, <3>6, <4>1, <4>2, <4>3, <4>5 DEF EntryTrue, AtItsPath, Known, Result
        <4> QED
          BY <3>3, <3>4, <4>6 DEF Undisturbed, HandTrue
      <3> QED
        BY <3>5, <3>6
    <2> QED
      BY <2>6, <2>7, <2>8 DEF Inv
  <1>3. CASE ~Known(work.id)
    <2> USE <1>3 DEF Reads
    <2>1. TypeOK' /\ Hand'
      BY NilAssumption DEF Inv, TypeOK, Hand, Idle
    <2>2. ASSUME NEW x \in PhotoIDs \ disturbed PROVE Undisturbed(x)'
      <3>1. ~InHand(x)' /\ disk[x] = photos[x]
        BY <2>2, NilAssumption DEF InHand, Idle, Inv, Undisturbed
      <3> QED
        BY <2>2, <3>1, Frame
    <2> QED
      BY <2>1, <2>2 DEF Inv
  <1> QED
    BY <1>2, <1>3

LEMMA IndexerStepInv == ASSUME Inv, IndexerStep PROVE Inv'
  <1>1. CASE Stopped \/ Sleep \/ Wake
    <2>1. /\ pc \in {"loop", "nap"} /\ pc' \in {"loop", "nap", "done"}
          /\ UNCHANGED <<photos, disk, lib, bin, moving, proc, work, disturbed>>
      BY <1>1 DEF Stopped, Sleep, Wake, Runs, Goes, Reads, world
    <2> QED
      BY <2>1, BetweenInv
  <1> QED
    BY <1>1, PickInv, ReadExifInv, SetCaptureTimeInv, DecodeInv, SetHashInv,
       MarkHashFailedInv DEF IndexerStep

-----------------------------------------------------------------------------
(***************************************************************************)
(* Requests and the user.                                                  *)
(***************************************************************************)
\* The file is now the one in the trash.
LEMMA TrashFileInv == ASSUME Inv, NEW id \in PhotoIDs, TrashFile(id) PROVE Inv'
  <1> USE DEF TrashFile, IndexerKept
  <1>1. TypeOK' /\ Hand' /\ disturbed \subseteq disturbed'
    BY DEF Inv, TypeOK, Hand
  <1>2. ASSUME NEW x \in PhotoIDs \ disturbed' PROVE Undisturbed(x)'
    <2>1. x \in PhotoIDs \ disturbed /\ Undisturbed(x)
      BY <1>1, <1>2 DEF Inv
    <2>2. CASE x # id
      BY <2>1, <2>2, Frame DEF InHand, Undisturbed, Inv, TypeOK
    <2>3. CASE x = id
      <3>1. ~InHand(x) /\ ~InHand(x)'
        BY <1>2, <2>3 DEF InHand
      <3>2. FileOf(x)' = FileOf(x) /\ moving'[x] = "out"
        BY <2>3 DEF FileOf, Inv, TypeOK
      <3> QED
        BY <2>1, <3>1, <3>2 DEF Undisturbed, EntryTrue, AtItsPath, HandTrue, Known
    <2> QED
      BY <2>2, <2>3
  <1> QED
    BY <1>1, <1>2 DEF Inv

LEMMA RecordTrashInv == ASSUME Inv, NEW id \in PhotoIDs, RecordTrash(id) PROVE Inv'
  <1> USE DEF RecordTrash, IndexerKept
  <1>1. moving' \in [PhotoIDs -> {"none", "out", "back"}]
    BY DEF Inv, TypeOK
  <1>2. CASE Known(id)
    <2> DEFINE binned == [photos[id] EXCEPT !.trashed = TRUE]
    <2>1. photos' = [photos EXCEPT ![id] = binned] /\ Save(id, disturbed)
      BY <1>2
    <2>2. /\ binned \in Entry /\ binned.trashed = TRUE
          /\ binned.hash = photos[id].hash /\ binned.time = photos[id].time
      <3>1. photos[id] \in Entry
        BY <1>2 DEF Inv, TypeOK, Known
      <3> HIDE DEF RecordTrash
      <3> QED
        BY <3>1 DEF Entry
    <2> HIDE DEF binned
    <2>3. photos' \in [PhotoIDs -> Entry \cup {Nil}]
      BY <2>1, <2>2 DEF Inv, TypeOK
    <2>4. /\ disk' \in [PhotoIDs -> Entry \cup {Nil}] /\ disturbed' \subseteq PhotoIDs
          /\ disturbed \subseteq disturbed'
      BY <2>1, <2>3, SaveType DEF Inv, TypeOK
    <2>5. TypeOK' /\ Hand'
      BY <1>1, <2>3, <2>4 DEF Inv, TypeOK, Hand
    <2>6. ASSUME NEW x \in PhotoIDs \ disturbed' PROVE Undisturbed(x)'
      <3>1. x \in PhotoIDs \ disturbed /\ Undisturbed(x)
        BY <2>4, <2>6 DEF Inv
      <3>2. x # id => photos'[x] = photos[x] /\ moving'[x] = moving[x]
        BY <2>1 DEF Inv, TypeOK
      <3>3. disk'[x] = photos'[x]
        BY <2>1, <2>6, <3>1, <3>2, SaveAgrees
      <3>4. CASE x # id
        BY <3>1, <3>2, <3>3, <3>4, Frame DEF InHand
      <3>5. CASE x = id
        <4>1. photos'[x] = binned
          BY <2>1, <3>5 DEF Inv, TypeOK
        <4>2. ~InHand(x) /\ ~InHand(x)'
          BY <3>1, <3>5 DEF Undisturbed, HandTrue, InHand
        <4>3. EntryTrue(x)' /\ AtItsPath(x)'
          BY <1>2, <2>2, <3>1, <3>5, <4>1
             DEF Undisturbed, EntryTrue, AtItsPath, Known, FileOf
        <4> QED
          BY <3>3, <4>2, <4>3 DEF Undisturbed, HandTrue
      <3> QED
        BY <3>4, <3>5
    <2> QED
      BY <2>5, <2>6 DEF Inv
  <1>3. CASE ~Known(id)
    <2> USE <1>3 DEF Reads
    <2>1. TypeOK' /\ Hand'
      BY <1>1 DEF Inv, TypeOK, Hand
    <2>2. ASSUME NEW x \in PhotoIDs \ disturbed PROVE Undisturbed(x)'
      <3>1. Undisturbed(x)
        BY <2>2 DEF Inv
      <3>2. CASE x # id
        BY <2>2, <3>1, <3>2, Frame DEF InHand, Undisturbed, Inv, TypeOK
      <3>3. CASE x = id
        BY <3>1, <3>3 DEF Undisturbed, EntryTrue, AtItsPath, HandTrue, Known, InHand
      <3> QED
        BY <3>2, <3>3
    <2> QED
      BY <2>1, <2>2 DEF Inv
  <1> QED
    BY <1>2, <1>3

\* The file is still in the trash, and on its way back.
LEMMA UndoInv == ASSUME Inv, NEW id \in PhotoIDs, Undo(id) PROVE Inv'
  <1> USE DEF Undo, IndexerKept
  <1> DEFINE back == [photos[id] EXCEPT !.trashed = FALSE]
  <1>1. /\ back \in Entry
        /\ back.hash = photos[id].hash /\ back.time = photos[id].time
    BY DEF Inv, TypeOK, Known, Entry
  <1>2. photos' = [photos EXCEPT ![id] = back]
    OBVIOUS
  <1>3. /\ moving' \in [PhotoIDs -> {"none", "out", "back"}]
        /\ \A x \in PhotoIDs : x # id => moving'[x] = moving[x]
    BY DEF Inv, TypeOK
  <1>4. \/ disk' = photos' /\ UNCHANGED disturbed /\ moving'[id] = "back"
        \/ UNCHANGED disk /\ disturbed' = disturbed \cup {id}
    BY DEF Inv, TypeOK
  <1> HIDE DEF back
  <1>5. photos' \in [PhotoIDs -> Entry \cup {Nil}]
    BY <1>1, <1>2 DEF Inv, TypeOK
  <1>6. TypeOK' /\ Hand'
    BY <1>3, <1>4, <1>5 DEF Inv, TypeOK, Hand
  <1>7. ASSUME NEW x \in PhotoIDs \ disturbed' PROVE Undisturbed(x)'
    <2>1. x \in PhotoIDs \ disturbed /\ Undisturbed(x)
      BY <1>4, <1>7 DEF Inv
    <2>2. CASE x # id
      <3>1. photos'[x] = photos[x] /\ disk'[x] = photos'[x]
        BY <1>2, <1>4, <2>1, <2>2 DEF Inv, TypeOK, Undisturbed
      <3> QED
        BY <1>3, <2>1, <2>2, <3>1, Frame DEF InHand
    <2>3. CASE x = id
      <3>1. disk' = photos' /\ moving'[x] = "back" /\ photos'[x] = back
        BY <1>2, <1>4, <1>7, <2>3 DEF Inv, TypeOK
      <3>2. ~InHand(x) /\ ~InHand(x)'
        BY <2>1, <2>3 DEF Undisturbed, HandTrue, InHand
      <3>3. EntryTrue(x)' /\ AtItsPath(x)'
        BY <1>1, <2>1, <2>3, <3>1 DEF Undisturbed, EntryTrue, AtItsPath, Known, FileOf
      <3> QED
        BY <3>1, <3>2, <3>3 DEF Undisturbed, HandTrue
    <2> QED
      BY <2>2, <2>3
  <1> QED
    BY <1>6, <1>7 DEF Inv

\* The file comes back to a path where there is none, or the photo is disturbed.
LEMMA RestoreFileInv == ASSUME Inv, NEW id \in PhotoIDs, RestoreFile(id) PROVE Inv'
  <1> USE DEF RestoreFile, IndexerKept
  <1>1. TypeOK' /\ Hand' /\ disturbed \subseteq disturbed'
    BY DEF Inv, TypeOK, Hand
  <1>2. ASSUME NEW x \in PhotoIDs \ disturbed' PROVE Undisturbed(x)'
    <2>1. x \in PhotoIDs \ disturbed /\ Undisturbed(x)
      BY <1>1, <1>2 DEF Inv
    <2>2. CASE x # id
      BY <2>1, <2>2, Frame DEF InHand, Undisturbed, Inv, TypeOK
    <2>3. CASE x = id
      <3>1. ~InHand(x) /\ ~InHand(x)'
        BY <2>1, <2>3 DEF Undisturbed, HandTrue, InHand
      <3>2. FileOf(x)' = FileOf(x) /\ (FileOf(x) # Nil => lib'[x] # Nil)
        BY <1>2, <2>3 DEF FileOf, Inv, TypeOK
      <3> QED
        BY <2>1, <3>1, <3>2 DEF Undisturbed, EntryTrue, AtItsPath, HandTrue, Known
    <2> QED
      BY <2>2, <2>3
  <1> QED
    BY <1>1, <1>2 DEF Inv

\* A new entry claims nothing yet.
LEMMA RegisterInv == ASSUME Inv, NEW id \in PhotoIDs, Register(id) PROVE Inv'
  <1> USE DEF Register, IndexerKept, world
  <1>1. CASE Known(id)
    <2>1. photos' = photos
      BY <1>1 DEF Known, Upserted, Inv, TypeOK
    <2>2. TypeOK' /\ Hand'
      BY <1>1, <2>1 DEF Inv, TypeOK, Hand
    <2>3. ASSUME NEW x \in PhotoIDs \ disturbed PROVE Undisturbed(x)'
      <3>1. disk'[x] = photos'[x]
        BY <1>1, <2>1, <2>3 DEF Inv, Undisturbed
      <3> QED
        BY <2>1, <2>3, <3>1, Frame DEF InHand
    <2> QED
      BY <1>1, <2>2, <2>3 DEF Inv
  <1>2. CASE ~Known(id)
    <2>1. photos' = [photos EXCEPT ![id] = NewEntry] /\ Save(id, disturbed)
      BY <1>2 DEF Known, Upserted, Inv, TypeOK
    <2>2. photos' \in [PhotoIDs -> Entry \cup {Nil}]
      BY <2>1, NewEntryType DEF Inv, TypeOK
    <2>3. /\ disk' \in [PhotoIDs -> Entry \cup {Nil}] /\ disturbed' \subseteq PhotoIDs
          /\ disturbed \subseteq disturbed'
      BY <2>1, <2>2, SaveType DEF Inv, TypeOK
    <2>4. TypeOK' /\ Hand'
      BY <2>2, <2>3 DEF Inv, TypeOK, Hand
    <2>5. ASSUME NEW x \in PhotoIDs \ disturbed' PROVE Undisturbed(x)'
      <3>1. x \in PhotoIDs \ disturbed /\ Undisturbed(x)
        BY <2>3, <2>5 DEF Inv
      <3>2. x # id => photos'[x] = photos[x]
        BY <2>1 DEF Inv, TypeOK
      <3>3. disk'[x] = photos'[x]
        BY <2>1, <2>5, <3>1, <3>2, SaveAgrees
      <3>4. CASE x # id
        BY <3>1, <3>2, <3>3, <3>4, Frame DEF InHand
      <3>5. CASE x = id
        <4>1. photos'[x] = NewEntry
          BY <2>1, <3>5 DEF Inv, TypeOK
        <4>2. ~InHand(x)'
          BY <1>2, <3>1, <3>5 DEF Undisturbed, HandTrue, InHand
        <4>3. EntryTrue(x)' /\ AtItsPath(x)'
          BY <3>5, <4>1 DEF EntryTrue, AtItsPath, FileOf, NewEntry
        <4> QED
          BY <3>3, <4>2, <4>3 DEF Undisturbed, HandTrue
      <3> QED
        BY <3>4, <3>5
    <2> QED
      BY <2>4, <2>5 DEF Inv
  <1> QED
    BY <1>1, <1>2

\* Where there is no entry, nothing is claimed.
LEMMA ForgetInv == ASSUME Inv, NEW id \in PhotoIDs, Forget(id) PROVE Inv'
  <1> USE DEF Forget, IndexerKept, world
  <1> DEFINE note == IF InHand(id) THEN disturbed \cup {id} ELSE disturbed \ {id}
  <1>1. note \in SUBSET PhotoIDs /\ disturbed \ {id} \subseteq note
    BY DEF Inv, TypeOK
  <1>2. Save(id, note)
    OBVIOUS
  <1>3. InHand(id) => id \in note
    OBVIOUS
  <1> HIDE DEF note
  <1>4. photos' \in [PhotoIDs -> Entry \cup {Nil}]
    BY DEF Inv, TypeOK
  <1>5. /\ disk' \in [PhotoIDs -> Entry \cup {Nil}] /\ disturbed' \subseteq PhotoIDs
        /\ note \subseteq disturbed'
    BY <1>1, <1>2, <1>4, SaveType DEF Inv
  <1>6. TypeOK' /\ Hand'
    BY <1>4, <1>5 DEF Inv, TypeOK, Hand
  <1>7. ASSUME NEW x \in PhotoIDs \ disturbed' PROVE Undisturbed(x)'
    <2>1. x # id => x \notin disturbed /\ photos'[x] = photos[x]
      BY <1>1, <1>5, <1>7 DEF Inv, TypeOK
    <2>2. disk'[x] = photos'[x]
      BY <1>2, <1>7, <2>1, SaveAgrees
    <2>3. CASE x # id
      BY <1>7, <2>1, <2>2, <2>3, Frame DEF InHand
    <2>4. CASE x = id
      <3>1. photos'[x] = Nil
        BY <2>4 DEF Inv, TypeOK
      <3>2. ~InHand(x)'
        BY <1>3, <1>5, <1>7, <2>4 DEF InHand
      <3> QED
        BY <2>2, <3>1, <3>2 DEF Undisturbed, EntryTrue, AtItsPath, HandTrue, Known
    <2> QED
      BY <2>3, <2>4
  <1> QED
    BY <1>6, <1>7 DEF Inv

\* A photo with an entry is disturbed.
LEMMA EditInv ==
    ASSUME Inv, NEW id \in PhotoIDs, NEW file \in Edits, Edit(id, file)
    PROVE  Inv'
  <1> USE DEF Edit, IndexerKept
  <1>1. file \in Contents \cup {Nil}
    BY ContentsAssumption
  <1>2. TypeOK' /\ Hand' /\ disturbed \subseteq disturbed'
    BY <1>1 DEF Inv, TypeOK, Hand
  <1>3. ASSUME NEW x \in PhotoIDs \ disturbed' PROVE Undisturbed(x)'
    <2>1. x \in PhotoIDs \ disturbed /\ Undisturbed(x)
      BY <1>2, <1>3 DEF Inv
    <2>2. CASE x # id
      BY <2>1, <2>2, Frame DEF InHand, Undisturbed, Inv, TypeOK
    <2>3. CASE x = id
      BY <1>3, <2>1, <2>3
         DEF Undisturbed, EntryTrue, AtItsPath, HandTrue, Known, InHand
    <2> QED
      BY <2>2, <2>3
  <1> QED
    BY <1>2, <1>3 DEF Inv

-----------------------------------------------------------------------------
(***************************************************************************)
(* The process.                                                            *)
(***************************************************************************)
LEMMA StopInv == ASSUME Inv, Stop PROVE Inv'
  <1> USE DEF Stop, world
  <1>1. TypeOK' /\ Hand'
    BY DEF Inv, TypeOK, Hand
  <1>2. ASSUME NEW x \in PhotoIDs \ disturbed PROVE Undisturbed(x)'
    <2>1. disk[x] = photos[x]
      BY <1>2 DEF Inv, Undisturbed
    <2> QED
      BY <1>2, <2>1, Frame DEF InHand
  <1> QED
    BY <1>1, <1>2 DEF Inv

\* Going down, the indexer drops what it holds, and requests end where they are.
LEMMA DownInv ==
    ASSUME Inv, Down, UNCHANGED disturbed, disk' \in {disk, photos}
    PROVE  Inv'
  <1> USE DEF Down
  <1>1. TypeOK' /\ Hand'
    BY NilAssumption DEF Inv, TypeOK, Hand, Idle
  <1>2. ASSUME NEW x \in PhotoIDs \ disturbed PROVE Undisturbed(x)'
    <2>1. Undisturbed(x) /\ disk'[x] = photos'[x]
      BY <1>2 DEF Inv, Undisturbed
    <2>2. ~InHand(x)'
      BY NilAssumption DEF InHand, Idle
    <2> QED
      BY <2>1, <2>2 DEF Undisturbed, EntryTrue, AtItsPath, HandTrue, Known, FileOf
  <1> QED
    BY <1>1, <1>2 DEF Inv

\* The initial scan makes entries where it finds files only, and leaves none that
\* has lost its file.
LEMMA BootInv == ASSUME Inv, Boot PROVE Inv'
  <1> USE DEF Boot, world
  <1>1. ASSUME NEW x \in PhotoIDs
        PROVE  /\ photos'[x] \in {Nil, NewEntry, disk[x]}
               /\ photos'[x] # Nil => (photos'[x].trashed \/ lib[x] # Nil)
               /\ (photos'[x] # disk[x] /\ photos'[x] # Nil)
                     => photos'[x] = NewEntry /\ lib[x] # Nil
    BY <1>1 DEF Gone, Upserted
  <1>2. photos' \in [PhotoIDs -> Entry \cup {Nil}]
    BY NewEntryType DEF Gone, Upserted, Inv, TypeOK
  <1>3. TypeOK' /\ Hand'
    BY <1>2 DEF Inv, TypeOK, Hand
  <1>4. ASSUME NEW x \in PhotoIDs \ disturbed' PROVE Undisturbed(x)'
    <2>1. ~InHand(x)'
      BY NilAssumption DEF InHand, Inv, Hand
    <2>2. FileOf(x)' = FileOf(x) /\ disk'[x] = photos'[x]
      BY DEF FileOf
    <2>3. AtItsPath(x)'
      BY <1>1 DEF AtItsPath, Known
    <2>4. EntryTrue(x)'
      <3>1. CASE photos'[x] = Nil
        BY <3>1 DEF EntryTrue, Known
      <3>2. CASE photos'[x] # Nil /\ photos'[x] # disk[x]
        BY <1>1, <3>2 DEF EntryTrue, NewEntry, FileOf
      <3>3. CASE photos'[x] # Nil /\ photos'[x] = disk[x]
        <4>1. x \in PhotoIDs \ disturbed
          BY <1>4, <3>3
        <4>2. disk[x] = photos[x] /\ EntryTrue(x)
          BY <4>1 DEF Inv, Undisturbed
        <4> QED
          BY <2>2, <3>3, <4>2 DEF EntryTrue, Known
      <3> QED
        BY <3>1, <3>2, <3>3
    <2> QED
      BY <2>1, <2>2, <2>3, <2>4 DEF Undisturbed, HandTrue
  <1> QED
    BY <1>3, <1>4 DEF Inv

-----------------------------------------------------------------------------
LEMMA NextInv == Inv /\ [Next]_vars => Inv'
  <1> SUFFICES ASSUME Inv, [Next]_vars PROVE Inv'
    OBVIOUS
  <1>1. CASE IndexerStep
    BY <1>1, IndexerStepInv
  <1>2. ASSUME NEW id \in Handled,
               \/ TrashFile(id) \/ RecordTrash(id)
               \/ Undo(id) \/ RestoreFile(id)
               \/ Register(id) \/ Forget(id)
               \/ \E file \in Edits : Edit(id, file)
        PROVE  Inv'
    <2>1. id \in PhotoIDs
      BY ContentsAssumption
    <2> QED
      BY <1>2, <2>1, TrashFileInv, RecordTrashInv, UndoInv, RestoreFileInv,
         RegisterInv, ForgetInv, EditInv
  <1>3. CASE Stop
    BY <1>3, StopInv
  <1>4. CASE Exit
    BY <1>4, DownInv DEF Exit
  <1>5. CASE Crash
    BY <1>5, DownInv DEF Crash
  <1>6. CASE Boot
    BY <1>6, BootInv
  <1>7. CASE UNCHANGED vars
    BY <1>7 DEF vars, world, Inv, TypeOK, Hand, Undisturbed, EntryTrue, AtItsPath,
                HandTrue, Known, InHand, FileOf
  <1> QED
    BY <1>1, <1>2, <1>3, <1>4, <1>5, <1>6, <1>7 DEF Next

\* In every reachable state entries, files and the indexer's locals are well formed,
\* and an undisturbed photo's entry is true of its file.
THEOREM InvCorrect == Spec => []Inv
  <1>1. Init => Inv
    BY InitInv
  <1>2. Inv /\ [Next]_vars => Inv'
    BY NextInv
  <1> QED
    BY <1>1, <1>2, PTL DEF Spec

\* Entries are whole, and the indexer only ever holds a photo and a file
\* (indexer.go:51-94).
THEOREM TypeCorrect == Spec => []TypeOK
  <1>1. Inv => TypeOK
    BY DEF Inv
  <1> QED
    BY <1>1, InvCorrect, PTL

\* Whatever was trashed, undone, rescanned or restarted meanwhile, an undisturbed
\* photo's hash and capture time are those of its file, and only a broken file is
\* marked as failed (indexer.go:80-94).
THEOREM HashCorrect == Spec => []HashIsOfFile
  <1>1. Inv => HashIsOfFile
    <2> SUFFICES ASSUME Inv, NEW id \in PhotoIDs \ disturbed,
                        Known(id), photos[id].hash # "none", lib[id] # Nil
                 PROVE  [hash |-> photos[id].hash, time |-> photos[id].time]
                            = Result(lib[id])
      BY DEF HashIsOfFile
    <2>1. EntryTrue(id)
      BY DEF Inv, Undisturbed
    <2> QED
      BY <2>1 DEF EntryTrue, FileOf
  <1> QED
    BY <1>1, InvCorrect, PTL
=============================================================================

----------------------------- MODULE ServiceProofs -----------------------------
(***************************************************************************)
(* What store and files agree on while handlers of several tabs interleave *)
(* with crashes and failed saves: for any photos, tabs, routes and bounds. *)
(*                                                                         *)
(* A file in the trash that a store value counts on (a trashed photo's     *)
(* recorded path, or the target of a move that an undo would take back) is *)
(* there, belongs to that photo, and is in no request's hands.  While a    *)
(* request has moved a file and not recorded it yet, or has un-recorded it *)
(* and not moved it back, the file is that request's alone.  What becomes  *)
(* of one photo is followed through the values s of the store, the files L *)
(* of the library and T of the trash, the numbers n of files ever put at   *)
(* the paths, and the requests R.                                          *)
(***************************************************************************)
EXTENDS Service, StepProofs

Own(x) == {x} \X Slots

Entry(s, i) == HasSession(s) /\ i \in DOMAIN s.session.stack

OpOf(s, i, x) == s.session.stack[i].ops[x]

\* Entry i decides x, to the trash or from it.
Trashes(s, i, x) ==
    /\ Entry(s, i)
    /\ Decides(s.session.stack[i], x)
    /\ OpOf(s, i, x).newState = "trashed"

FromTrash(s, i, x) ==
    /\ Entry(s, i)
    /\ Decides(s.session.stack[i], x)
    /\ OpOf(s, i, x).prevState = "trashed"

\* x is trashed, or an undo could make it so.
Remembers(s, x) == IsTrashed(s, x) \/ \E i : FromTrash(s, i, x)

\* The file of x at slot was moved and not recorded yet, or un-recorded and not
\* moved back yet.
Holds(r, x, slot) ==
    \/ r.pc = "record" /\ r.id = x /\ r.slot = slot
    \/ /\ r.pc = "members" /\ r.ops[x] # Nil
       /\ r.ops[x].newState = "trashed" /\ r.ops[x].trashTo = slot
    \/ r.pc = "restore" /\ <<slot, x>> \in r.todo

Returning(R, x) ==
    \E c \in Clients, slot \in TrashPaths :
        R[c].pc = "restore" /\ <<slot, x>> \in R[c].todo

InTrash(x, slot, T, R) ==
    /\ slot \in Own(x) /\ T[slot] # Nil
    /\ \A c \in Clients : ~Holds(R[c], x, slot)

EntrySound(s, i, x, T, n, R) ==
    /\ InTrash(x, OpOf(s, i, x).trashTo, T, R)
    /\ \A j : (Trashes(s, j, x) /\ OpOf(s, j, x).trashTo = OpOf(s, i, x).trashTo)
                => j = i
    /\ \A j : (FromTrash(s, j, x) /\ j <= i) => n[x] > 1

PathSound(s, x, T, n, R) ==
    LET path == s.photos[x].trashedPath
    IN  IF path = Nil THEN n[x] > 1 ELSE InTrash(x, path, T, R)

GoneSound(x, L, n, R) == n[x] > 1 \/ (L[x] = Nil /\ ~Returning(R, x))

Sound(s, L, T, n, R) ==
    \A x \in PhotoIDs :
        /\ \A i : Trashes(s, i, x) => EntrySound(s, i, x, T, n, R)
        /\ Known(s, x) /\ Remembers(s, x) => PathSound(s, x, T, n, R)
        /\ Remembers(s, x) => GoneSound(x, L, n, R)

\* A file in a request's hands is in the trash, and in one request's only.
Held(T, R) ==
    \A c \in Clients, x \in PhotoIDs : \A slot : Holds(R[c], x, slot) =>
        /\ slot \in Own(x) /\ T[slot] # Nil
        /\ \A d \in Clients : Holds(R[d], x, slot) => d = c

\* The files of a photo are numbered and no two are the same.
Numbered(L, T, n) ==
    \A x \in PhotoIDs :
        /\ n[x] \in Nat \ {0}
        /\ L[x] # Nil => L[x] \in 1 .. n[x]
        /\ \A k \in Slots : T[<<x, k>>] # Nil =>
              /\ T[<<x, k>>] \in 1 .. n[x]
              /\ T[<<x, k>>] # L[x]
              /\ \A m \in Slots : T[<<x, m>>] = T[<<x, k>>] => m = k

-----------------------------------------------------------------------------
(***************************************************************************)
(* Soundness of the values the store's methods return.                     *)
(***************************************************************************)
\* u has no photo in the trash, and no entry, that s had not; the photos N it may
\* know anew are not in the trash.
Derived(s, u, N) ==
    \A x \in PhotoIDs :
        /\ Known(u, x) =>
              \/ /\ Known(s, x)
                 /\ u.photos[x].trashedPath = s.photos[x].trashedPath
                 /\ u.photos[x].state = "trashed" => s.photos[x].state = "trashed"
              \/ /\ x \in N
                 /\ u.photos[x].trashedPath = Nil
                 /\ u.photos[x].state # "trashed"
        /\ \A i : (Entry(u, i) /\ Decides(u.session.stack[i], x)) =>
              /\ Entry(s, i) /\ Decides(s.session.stack[i], x)
              /\ OpOf(u, i, x) = OpOf(s, i, x)

LEMMA DerivedSound ==
    ASSUME NEW s, NEW u, NEW N, NEW L, NEW T, NEW n, NEW R,
           Sound(s, L, T, n, R), Derived(s, u, N), \A x \in N : L[x] # Nil
    PROVE  Sound(u, L, T, n, R)
  <1> SUFFICES ASSUME NEW x \in PhotoIDs
               PROVE  /\ \A i : Trashes(u, i, x) => EntrySound(u, i, x, T, n, R)
                      /\ Known(u, x) /\ Remembers(u, x) => PathSound(u, x, T, n, R)
                      /\ Remembers(u, x) => GoneSound(x, L, n, R)
    BY DEF Sound
  <1>1. /\ \A i : Trashes(s, i, x) => EntrySound(s, i, x, T, n, R)
        /\ Known(s, x) /\ Remembers(s, x) => PathSound(s, x, T, n, R)
        /\ Remembers(s, x) => GoneSound(x, L, n, R)
    BY DEF Sound
  <1>2. \A i : Trashes(u, i, x) => /\ Trashes(s, i, x)
                                   /\ OpOf(u, i, x) = OpOf(s, i, x)
    BY DEF Derived, Trashes
  <1>3. \A i : FromTrash(u, i, x) => FromTrash(s, i, x)
    BY DEF Derived, FromTrash
  <1>4. Known(u, x) =>
           \/ /\ Known(s, x)
              /\ u.photos[x].trashedPath = s.photos[x].trashedPath
              /\ IsTrashed(u, x) => IsTrashed(s, x)
           \/ /\ L[x] # Nil
              /\ u.photos[x].trashedPath = Nil
              /\ ~IsTrashed(u, x)
    BY DEF Derived, IsTrashed
  <1>5. Remembers(u, x) => Remembers(s, x)
    BY <1>3, <1>4 DEF Remembers, IsTrashed
  <1>6. ASSUME NEW i, Trashes(u, i, x) PROVE EntrySound(u, i, x, T, n, R)
    <2>1. EntrySound(s, i, x, T, n, R) /\ OpOf(u, i, x) = OpOf(s, i, x)
      BY <1>1, <1>2, <1>6
    <2> QED BY <1>2, <1>3, <2>1 DEF EntrySound
  <1>7. ASSUME Known(u, x), Remembers(u, x) PROVE PathSound(u, x, T, n, R)
    BY <1>1, <1>4, <1>5, <1>7 DEF PathSound, GoneSound
  <1> QED BY <1>1, <1>5, <1>6, <1>7

\* What files and requests may do without harm.
LEMMA FrameSound ==
    ASSUME NEW s, NEW L, NEW T, NEW n, NEW R, Sound(s, L, T, n, R),
           NEW L2, NEW T2, NEW n2, NEW R2,
           \A x \in PhotoIDs, slot \in TrashPaths :
              InTrash(x, slot, T, R) => InTrash(x, slot, T2, R2),
           \A x \in PhotoIDs : n[x] > 1 => n2[x] > 1,
           \A x \in PhotoIDs : GoneSound(x, L, n, R) => GoneSound(x, L2, n2, R2)
    PROVE  Sound(s, L2, T2, n2, R2)
  <1>1. \A x \in PhotoIDs : \A slot : InTrash(x, slot, T, R) => InTrash(x, slot, T2, R2)
    <2>1. \A x \in PhotoIDs : Own(x) \subseteq TrashPaths
      BY SlotsAssumption DEF Own
    <2> QED BY <2>1 DEF InTrash
  <1>2. ASSUME NEW x \in PhotoIDs, NEW i, EntrySound(s, i, x, T, n, R)
        PROVE  EntrySound(s, i, x, T2, n2, R2)
    BY <1>1, <1>2 DEF EntrySound
  <1>3. ASSUME NEW x \in PhotoIDs, PathSound(s, x, T, n, R)
        PROVE  PathSound(s, x, T2, n2, R2)
    BY <1>1, <1>3 DEF PathSound
  <1> QED BY <1>2, <1>3 DEF Sound

\* Two files at a photo's paths are two that were put there.
LEMMA TwoFiles ==
    ASSUME NEW L, NEW T, NEW n, Numbered(L, T, n), NEW x \in PhotoIDs,
           NEW slot \in Own(x), T[slot] # Nil
    PROVE  /\ L[x] # Nil => n[x] > 1
           /\ \A other \in Own(x) : (T[other] # Nil /\ other # slot) => n[x] > 1
  <1>1. PICK k \in Slots : slot = <<x, k>>
    BY DEF Own
  <1>2. n[x] \in Nat /\ T[slot] \in 1 .. n[x] /\ T[slot] # L[x]
    BY <1>1 DEF Numbered
  <1>3. L[x] # Nil => L[x] \in 1 .. n[x]
    BY DEF Numbered
  <1>4. ASSUME NEW other \in Own(x), T[other] # Nil, other # slot PROVE n[x] > 1
    <2>1. PICK m \in Slots : other = <<x, m>>
      BY DEF Own
    <2>2. T[other] \in 1 .. n[x] /\ T[other] # T[slot]
      BY <1>1, <1>4, <2>1 DEF Numbered
    <2> QED BY <1>2, <2>2
  <1>5. L[x] # Nil => n[x] > 1
    BY <1>2, <1>3
  <1> QED BY <1>4, <1>5

\* u is s after the entry d was recorded.
Recorded(s, u, d) ==
    /\ HasSession(s) /\ s.session.stack \in Seq(Decision)
    /\ HasSession(u) => u.session.stack = Append(s.session.stack, d)
    /\ \A x \in PhotoIDs :
          IF Decides(d, x)
          THEN /\ Known(s, x) /\ Known(u, x)
               /\ d.ops[x].prevState = s.photos[x].state
               /\ d.ops[x].newState = u.photos[x].state
               /\ u.photos[x].trashedPath = PathAfter(d.ops[x], s.photos[x])
          ELSE u.photos[x] = s.photos[x]

LEMMA RecordedEntries ==
    ASSUME NEW s, NEW u, NEW d, Recorded(s, u, d), NEW i, Entry(u, i)
    PROVE  \/ /\ Entry(s, i) /\ i \in 1 .. Len(s.session.stack)
              /\ u.session.stack[i] = s.session.stack[i]
           \/ i = Len(s.session.stack) + 1 /\ u.session.stack[i] = d
  <1> DEFINE q == s.session.stack
  <1>1. q \in Seq(Decision) /\ HasSession(s) /\ u.session.stack = Append(q, d)
    BY DEF Recorded, Entry
  <1>2. i \in 1 .. Len(q) + 1
    BY <1>1 DEF Entry
  <1> QED BY <1>1, <1>2 DEF Entry

\* A request records what it holds and ends: its files pass from its hands into
\* the store's keeping.
LEMMA RecordedSound ==
    ASSUME NEW s, NEW u, NEW d, NEW L, NEW T, NEW n, NEW R, NEW R2,
           NEW c \in Clients,
           Sound(s, L, T, n, R), Held(T, R), Numbered(L, T, n), Recorded(s, u, d),
           R2[c] = Idle, \A e \in Clients \ {c} : R2[e] = R[e],
           \A x \in PhotoIDs :
              (Decides(d, x) /\ d.ops[x].newState = "trashed") =>
                 Holds(R[c], x, d.ops[x].trashTo)
    PROVE  Sound(u, L, T, n, R2)
  <1> DEFINE q == s.session.stack
             top == Len(q) + 1
  <1> SUFFICES ASSUME NEW x \in PhotoIDs
               PROVE  /\ \A i : Trashes(u, i, x) => EntrySound(u, i, x, T, n, R2)
                      /\ Known(u, x) /\ Remembers(u, x) => PathSound(u, x, T, n, R2)
                      /\ Remembers(u, x) => GoneSound(x, L, n, R2)
    BY DEF Sound
  <1>1. /\ \A i : Trashes(s, i, x) => EntrySound(s, i, x, T, n, R)
        /\ Known(s, x) /\ Remembers(s, x) => PathSound(s, x, T, n, R)
        /\ Remembers(s, x) => GoneSound(x, L, n, R)
    BY DEF Sound
  <1>2. \A e \in Clients : \A slot : Holds(R2[e], x, slot) => e # c /\ Holds(R[e], x, slot)
    BY DEF Holds, Idle
  <1>3. \A slot : InTrash(x, slot, T, R) => InTrash(x, slot, T, R2)
    BY <1>2 DEF InTrash
  <1>4. Returning(R2, x) => Returning(R, x)
    BY DEF Returning, Idle
  <1>5. Len(q) \in Nat
    BY DEF Recorded
  <1>6. ASSUME NEW i
        PROVE  /\ Trashes(u, i, x) =>
                    \/ /\ Trashes(s, i, x) /\ i \in 1 .. Len(q)
                       /\ OpOf(u, i, x) = OpOf(s, i, x)
                    \/ /\ i = top /\ Decides(d, x) /\ d.ops[x].newState = "trashed"
                       /\ OpOf(u, i, x) = d.ops[x]
               /\ FromTrash(u, i, x) =>
                    \/ FromTrash(s, i, x) /\ i \in 1 .. Len(q)
                    \/ /\ i = top /\ Decides(d, x) /\ d.ops[x].prevState = "trashed"
    BY RecordedEntries DEF Trashes, FromTrash, OpOf
  <1>7. ASSUME ~(Decides(d, x) /\ d.ops[x].newState = "trashed")
        PROVE  /\ \A i : Trashes(u, i, x) => EntrySound(u, i, x, T, n, R2)
               /\ Known(u, x) /\ Remembers(u, x) => PathSound(u, x, T, n, R2)
               /\ Remembers(u, x) => GoneSound(x, L, n, R2)
    <2>1. /\ Known(u, x) => /\ Known(s, x)
                            /\ u.photos[x].trashedPath = s.photos[x].trashedPath
          /\ IsTrashed(u, x) => IsTrashed(s, x)
          /\ (Decides(d, x) /\ d.ops[x].prevState = "trashed") => IsTrashed(s, x)
      BY <1>7 DEF Recorded, PathAfter, IsTrashed, Known
    <2>2. Remembers(u, x) => Remembers(s, x)
      BY <1>6, <2>1 DEF Remembers
    <2>3. ASSUME NEW i, Trashes(u, i, x) PROVE EntrySound(u, i, x, T, n, R2)
      <3>1. /\ EntrySound(s, i, x, T, n, R) /\ i \in 1 .. Len(q)
            /\ OpOf(u, i, x) = OpOf(s, i, x)
        BY <1>1, <1>6, <1>7, <2>3
      <3>2. \A j : (Trashes(u, j, x) /\ OpOf(u, j, x).trashTo = OpOf(u, i, x).trashTo)
                      => j = i
        BY <1>6, <1>7, <3>1 DEF EntrySound
      <3>3. \A j : (FromTrash(u, j, x) /\ j <= i) => n[x] > 1
        BY <1>5, <1>6, <3>1 DEF EntrySound
      <3> QED BY <1>3, <3>1, <3>2, <3>3 DEF EntrySound
    <2>4. ASSUME Known(u, x), Remembers(u, x) PROVE PathSound(u, x, T, n, R2)
      BY <1>1, <1>3, <2>1, <2>2, <2>4 DEF PathSound
    <2> QED BY <1>1, <1>4, <2>2, <2>3, <2>4 DEF GoneSound
  <1>8. ASSUME Decides(d, x), d.ops[x].newState = "trashed"
        PROVE  /\ \A i : Trashes(u, i, x) => EntrySound(u, i, x, T, n, R2)
               /\ Known(u, x) /\ Remembers(u, x) => PathSound(u, x, T, n, R2)
               /\ Remembers(u, x) => GoneSound(x, L, n, R2)
    <2> DEFINE slot == d.ops[x].trashTo
    <2>1. Holds(R[c], x, slot)
      BY <1>8
    <2>2. /\ slot \in Own(x) /\ T[slot] # Nil
          /\ \A e \in Clients : Holds(R[e], x, slot) => e = c
      BY <2>1 DEF Held
    <2> HIDE DEF slot
    <2>3. InTrash(x, slot, T, R2)
      BY <1>2, <2>2 DEF InTrash
    <2>4. \A other : InTrash(x, other, T, R) => other # slot /\ n[x] > 1
      <3> SUFFICES ASSUME NEW other, InTrash(x, other, T, R)
                   PROVE  other # slot /\ n[x] > 1
        OBVIOUS
      <3>1. other \in Own(x) /\ T[other] # Nil /\ other # slot
        BY <2>1 DEF InTrash
      <3> QED BY <2>2, <3>1, TwoFiles
    <2>5. Known(s, x)
      BY <1>8 DEF Recorded
    <2>6. Remembers(s, x) => n[x] > 1
      BY <1>1, <2>4, <2>5 DEF PathSound
    <2>7. d.ops[x].prevState = "trashed" => Remembers(s, x)
      BY <1>8 DEF Recorded, Remembers, IsTrashed
    <2>8. \A j : FromTrash(u, j, x) => n[x] > 1
      BY <1>6, <2>6, <2>7 DEF Remembers
    <2>9. ASSUME NEW i, Trashes(u, i, x) PROVE EntrySound(u, i, x, T, n, R2)
      <3>1. CASE /\ Trashes(s, i, x) /\ i \in 1 .. Len(q)
                 /\ OpOf(u, i, x) = OpOf(s, i, x)
        <4>1. EntrySound(s, i, x, T, n, R)
          BY <1>1, <3>1
        <4>2. OpOf(u, i, x).trashTo # slot
          BY <2>4, <3>1, <4>1 DEF EntrySound
        <4>3. \A j : (Trashes(u, j, x) /\ OpOf(u, j, x).trashTo = OpOf(u, i, x).trashTo)
                        => j = i
          BY <1>6, <3>1, <4>1, <4>2 DEF EntrySound, slot
        <4> QED BY <1>3, <2>8, <3>1, <4>1, <4>3 DEF EntrySound
      <3>2. CASE i = top /\ OpOf(u, i, x) = d.ops[x]
        <4>1. \A j : Trashes(s, j, x) => OpOf(s, j, x).trashTo # slot
          BY <1>1, <2>4 DEF EntrySound
        <4>2. \A j : (Trashes(u, j, x) /\ OpOf(u, j, x).trashTo = OpOf(u, i, x).trashTo)
                        => j = i
          BY <1>6, <3>2, <4>1 DEF slot
        <4> QED BY <2>3, <2>8, <3>2, <4>2 DEF EntrySound, slot
      <3> QED BY <1>6, <2>9, <3>1, <3>2
    <2>10. PathSound(u, x, T, n, R2)
      <3>1. u.photos[x].trashedPath = slot
        BY <1>8 DEF Recorded, PathAfter, slot
      <3>2. slot # Nil
        BY <2>2, BoundsAssumption, SlotsAssumption DEF Own
      <3> QED BY <2>3, <3>1, <3>2 DEF PathSound
    <2>11. GoneSound(x, L, n, R2)
      <3>1. L[x] # Nil => n[x] > 1
        BY <2>2, TwoFiles
      <3>2. ASSUME Returning(R2, x) PROVE n[x] > 1
        <4>1. PICK e \in Clients, other \in TrashPaths :
                 R2[e].pc = "restore" /\ <<other, x>> \in R2[e].todo
          BY <3>2 DEF Returning
        <4>2. e # c /\ Holds(R[e], x, other)
          BY <1>2, <4>1 DEF Holds
        <4>3. other \in Own(x) /\ T[other] # Nil /\ other # slot
          BY <2>2, <4>2 DEF Held
        <4> QED BY <2>2, <4>3, TwoFiles
      <3> QED BY <3>1, <3>2 DEF GoneSound
    <2> QED BY <2>9, <2>10, <2>11
  <1> QED BY <1>7, <1>8

LEMMA UndoneStack ==
    ASSUME NEW s, StoreType(s), CanUndo(s)
    PROVE  LET q == s.session.stack
               u == AfterUndo(s)
           IN  /\ Entry(s, Len(q)) /\ q[Len(q)] = Last(q)
               /\ Len(q) \in Nat \ {0}
               /\ \A i : Entry(u, i) => /\ i \in 1 .. Len(q) - 1
                                        /\ Entry(s, i)
                                        /\ u.session.stack[i] = q[i]
  <1> DEFINE q == s.session.stack
             rest == SubSeq(q, 1, Len(q) - 1)
             u == AfterUndo(s)
  <1>1. q \in Seq(Decision) /\ Len(q) \in Nat \ {0}
    BY PoppedType
  <1>2. u.session.stack = rest
    BY UndoFields
  <1>3. DOMAIN rest = 1 .. Len(q) - 1 /\ \A i \in 1 .. Len(q) - 1 : rest[i] = q[i]
    BY <1>1
  <1>4. HasSession(s) /\ DOMAIN q = 1 .. Len(q)
    BY <1>1 DEF CanUndo
  <1> HIDE DEF rest, u
  <1>5. \A i : Entry(u, i) => /\ i \in 1 .. Len(q) - 1
                              /\ Entry(s, i)
                              /\ u.session.stack[i] = q[i]
    BY <1>1, <1>2, <1>3, <1>4 DEF Entry
  <1>6. Entry(s, Len(q)) /\ q[Len(q)] = Last(q)
    BY <1>1, <1>4 DEF Entry, Last
  <1> QED BY <1>1, <1>5, <1>6 DEF u

\* What the undone entry moved to the trash passes from the store's keeping into
\* the hands of the request; or is given up, when the undo could not be saved.
LEMMA UndoneSound ==
    ASSUME NEW s, StoreType(s), CanUndo(s), ~UndoFails(s),
           NEW L, NEW T, NEW n, NEW R, NEW R2, Sound(s, L, T, n, R),
           \A e \in Clients, x \in PhotoIDs : \A slot :
              Holds(R2[e], x, slot) =>
                 \/ Holds(R[e], x, slot)
                 \/ <<slot, x>> \in Restores(Last(s.session.stack)),
           \A x \in PhotoIDs : Returning(R2, x) =>
              \/ Returning(R, x)
              \/ \E slot : <<slot, x>> \in Restores(Last(s.session.stack))
    PROVE  Sound(AfterUndo(s), L, T, n, R2)
  <1> DEFINE q == s.session.stack
             d == Last(q)
             top == Len(q)
             u == AfterUndo(s)
  <1> SUFFICES ASSUME NEW x \in PhotoIDs
               PROVE  /\ \A i : Trashes(u, i, x) => EntrySound(u, i, x, T, n, R2)
                      /\ Known(u, x) /\ Remembers(u, x) => PathSound(u, x, T, n, R2)
                      /\ Remembers(u, x) => GoneSound(x, L, n, R2)
    BY DEF Sound
  <1>1. /\ \A i : Trashes(s, i, x) => EntrySound(s, i, x, T, n, R)
        /\ Known(s, x) /\ Remembers(s, x) => PathSound(s, x, T, n, R)
        /\ Remembers(s, x) => GoneSound(x, L, n, R)
    BY DEF Sound
  <1>2. /\ Entry(s, top) /\ q[top] = d /\ top \in Nat
        /\ \A i : Entry(u, i) => /\ i \in 1 .. top - 1
                                 /\ Entry(s, i)
                                 /\ u.session.stack[i] = q[i]
    BY UndoneStack
  <1>3. u.photos[x] = IF Decides(d, x) /\ Known(s, x)
                      THEN Reverted(s.photos[x], d.ops[x]) ELSE s.photos[x]
    <2>1. u.photos = PhotosUndone(s, d)
      BY UndoFields
    <2> HIDE DEF u, d
    <2> QED BY <2>1 DEF PhotosUndone, Touched, Decides
  <1>4. \A slot : <<slot, x>> \in Restores(d) <=>
           Decides(d, x) /\ d.ops[x].newState = "trashed" /\ slot = d.ops[x].trashTo
    BY DEF Restores, Touched, Decides
  <1>5. s.photos[x] \in Photo \cup {Nil}
    BY DEF StoreType, PhotoTables
  <1> HIDE DEF u, d, q
  <1>6. /\ \A i : Trashes(u, i, x) => /\ Trashes(s, i, x) /\ i # top
                                      /\ OpOf(u, i, x) = OpOf(s, i, x)
        /\ \A i : FromTrash(u, i, x) => FromTrash(s, i, x) /\ i <= top
    BY <1>2 DEF Trashes, FromTrash, OpOf, q
  <1>7. /\ Trashes(s, top, x) <=> Decides(d, x) /\ d.ops[x].newState = "trashed"
        /\ FromTrash(s, top, x) <=> Decides(d, x) /\ d.ops[x].prevState = "trashed"
        /\ OpOf(s, top, x) = d.ops[x]
    BY <1>2 DEF Trashes, FromTrash, OpOf, q
  <1>8. /\ Known(u, x) => Known(s, x)
        /\ IsTrashed(u, x) => IF Decides(d, x) THEN FromTrash(s, top, x)
                              ELSE IsTrashed(s, x)
        /\ Known(u, x) => u.photos[x].trashedPath =
             IF Trashes(s, top, x) THEN Nil ELSE s.photos[x].trashedPath
    BY <1>3, <1>5, <1>7 DEF Known, IsTrashed, Reverted, Photo
  <1>9. ASSUME Trashes(s, top, x)
        PROVE  /\ \A i : Trashes(u, i, x) => EntrySound(u, i, x, T, n, R2)
               /\ Known(u, x) /\ Remembers(u, x) => PathSound(u, x, T, n, R2)
               /\ Remembers(u, x) => GoneSound(x, L, n, R2)
    <2>1. EntrySound(s, top, x, T, n, R)
      BY <1>1, <1>9
    <2>2. \A j : FromTrash(s, j, x) /\ j <= top => n[x] > 1
      BY <2>1 DEF EntrySound
    <2>3. Remembers(u, x) => n[x] > 1
      BY <1>2, <1>6, <1>7, <1>8, <1>9, <2>2 DEF Remembers
    <2>4. \A slot : (InTrash(x, slot, T, R) /\ slot # d.ops[x].trashTo)
                       => InTrash(x, slot, T, R2)
      BY <1>4 DEF InTrash, d, q
    <2>5. ASSUME NEW i, Trashes(u, i, x) PROVE EntrySound(u, i, x, T, n, R2)
      <3>1. EntrySound(s, i, x, T, n, R) /\ i # top /\ OpOf(u, i, x) = OpOf(s, i, x)
        BY <1>1, <1>6, <2>5
      <3>2. OpOf(s, i, x).trashTo # d.ops[x].trashTo
        BY <1>7, <1>9, <3>1 DEF EntrySound
      <3>3. \A j : (Trashes(u, j, x) /\ OpOf(u, j, x).trashTo = OpOf(u, i, x).trashTo)
                      => j = i
        BY <1>6, <3>1 DEF EntrySound
      <3>4. \A j : FromTrash(u, j, x) => n[x] > 1
        BY <2>3 DEF Remembers
      <3> QED BY <2>4, <3>1, <3>2, <3>3, <3>4 DEF EntrySound
    <2> QED BY <1>8, <1>9, <2>3, <2>5 DEF PathSound, GoneSound
  <1>10. ASSUME ~Trashes(s, top, x)
         PROVE  /\ \A i : Trashes(u, i, x) => EntrySound(u, i, x, T, n, R2)
                /\ Known(u, x) /\ Remembers(u, x) => PathSound(u, x, T, n, R2)
                /\ Remembers(u, x) => GoneSound(x, L, n, R2)
    <2>1. \A slot : <<slot, x>> \notin Restores(d)
      BY <1>4, <1>7, <1>10
    <2>2. \A slot : InTrash(x, slot, T, R) => InTrash(x, slot, T, R2)
      BY <2>1 DEF InTrash, d, q
    <2>3. Returning(R2, x) => Returning(R, x)
      BY <2>1 DEF d, q
    <2>4. Remembers(u, x) => Remembers(s, x)
      BY <1>6, <1>8 DEF Remembers
    <2>5. ASSUME NEW i, Trashes(u, i, x) PROVE EntrySound(u, i, x, T, n, R2)
      <3>1. EntrySound(s, i, x, T, n, R) /\ OpOf(u, i, x) = OpOf(s, i, x)
        BY <1>1, <1>6, <2>5
      <3> QED BY <1>6, <2>2, <3>1 DEF EntrySound
    <2>6. ASSUME Known(u, x), Remembers(u, x) PROVE PathSound(u, x, T, n, R2)
      BY <1>1, <1>8, <1>10, <2>2, <2>4, <2>6 DEF PathSound
    <2> QED BY <1>1, <2>3, <2>4, <2>5, <2>6 DEF GoneSound
  <1> QED BY <1>9, <1>10

\* When the photo of the undone entry is gone, only the entry goes.
LEMMA UndoFailedDerived ==
    ASSUME NEW s, StoreType(s), CanUndo(s), UndoFails(s)
    PROVE  Derived(s, AfterUndo(s), {})
  <1>1. AfterUndo(s).photos = s.photos
    BY UndoFields
  <1>2. \A i : Entry(AfterUndo(s), i) =>
           /\ Entry(s, i) /\ AfterUndo(s).session.stack[i] = s.session.stack[i]
    BY UndoneStack
  <1> QED BY <1>1, <1>2 DEF Derived, OpOf, Known

-----------------------------------------------------------------------------
(***************************************************************************)
(* The methods, one by one.                                                *)
(***************************************************************************)
KeepsKnown(s, u) == \A x \in PhotoIDs : Known(s, x) => Known(u, x)

LEMMA SamePhotos ==
    ASSUME NEW s, NEW u, u.photos = s.photos,
           HasSession(u) => \/ u.session.stack = <<>>
                            \/ HasSession(s) /\ u.session.stack = s.session.stack
    PROVE  Derived(s, u, {}) /\ KeepsKnown(s, u)
  <1>1. ASSUME NEW i, Entry(u, i)
        PROVE  Entry(s, i) /\ u.session.stack[i] = s.session.stack[i]
    <2>1. DOMAIN <<>> = {}
      OBVIOUS
    <2> QED BY <1>1, <2>1 DEF Entry
  <1> QED BY <1>1 DEF Derived, KeepsKnown, Known, OpOf

LEMMA UpsertDerived ==
    ASSUME NEW s, StoreType(s), NEW id \in PhotoIDs
    PROVE  LET u == AfterUpsertPhoto(s, id)
           IN  StoreType(u) /\ Derived(s, u, {id}) /\ KeepsKnown(s, u)
  <1> DEFINE u == AfterUpsertPhoto(s, id)
  <1>1. StoreType(u)
    BY UpsertPhotoType
  <1>2. /\ u.session = s.session
        /\ \A x \in PhotoIDs :
              u.photos[x] = IF x = id /\ ~Known(s, id) THEN NewPhoto ELSE s.photos[x]
    BY DEF AfterUpsertPhoto, StoreType, PhotoTables
  <1>3. /\ NewPhoto # Nil /\ NewPhoto.trashedPath = Nil
        /\ NewPhoto.state # "trashed"
    BY NilAssumption DEF NewPhoto, Photo, States
  <1> HIDE DEF u
  <1>4. \A i : Entry(u, i) => Entry(s, i) /\ u.session.stack[i] = s.session.stack[i]
    BY <1>2 DEF Entry, HasSession
  <1>5. Derived(s, u, {id})
    BY <1>2, <1>3, <1>4 DEF Derived, OpOf, Known
  <1>6. KeepsKnown(s, u)
    BY <1>2, <1>3 DEF KeepsKnown, Known
  <1> QED BY <1>1, <1>5, <1>6 DEF u

LEMMA ForgetDerived ==
    ASSUME NEW s, StoreType(s), NEW seen
    PROVE  LET u == AfterForgetMissing(s, seen)
           IN  /\ StoreType(u) /\ Derived(s, u, {})
               /\ \A x \in PhotoIDs \ Missing(s, seen) : Known(s, x) => Known(u, x)
  <1> DEFINE u == AfterForgetMissing(s, seen)
  <1>1. StoreType(u)
    BY ForgetMissingType
  <1>2. /\ u.session = s.session
        /\ \A x \in PhotoIDs :
              u.photos[x] = IF x \in Missing(s, seen) THEN Nil ELSE s.photos[x]
    BY DEF AfterForgetMissing, StoreType
  <1> HIDE DEF u
  <1>3. \A i : Entry(u, i) => Entry(s, i) /\ u.session.stack[i] = s.session.stack[i]
    BY <1>2 DEF Entry, HasSession
  <1>4. Derived(s, u, {})
    BY <1>2, <1>3 DEF Derived, OpOf, Known
  <1> QED BY <1>1, <1>2, <1>4 DEF Known, u

LEMMA StartDerived ==
    ASSUME NEW s, StoreType(s), NEW target \in Nat, NEW mix \in Mixes,
           NEW t \in Nat
    PROVE  LET u == AfterStartSession(s, target, mix, t)
           IN  StoreType(u) /\ Derived(s, u, {}) /\ KeepsKnown(s, u)
  BY FreshSession, SamePhotos

LEMMA EndDerived ==
    ASSUME NEW s, StoreType(s)
    PROVE  LET u == AfterEndSession(s)
           IN  StoreType(u) /\ Derived(s, u, {}) /\ KeepsKnown(s, u)
  <1> DEFINE u == AfterEndSession(s)
  <1>1. u.photos = s.photos /\ ~HasSession(u)
    BY DEF AfterEndSession, StoreType, HasSession
  <1> QED BY <1>1, EndSessionType, SamePhotos

LEMMA ExtendDerived ==
    ASSUME NEW s, StoreType(s), HasSession(s), NEW delta \in Batches
    PROVE  LET u == AfterSessionExtend(s, delta)
           IN  StoreType(u) /\ Derived(s, u, {}) /\ KeepsKnown(s, u)
  <1>1. delta \in Int
    BY ConstantsAssumption
  <1> QED BY <1>1, SessionExtendType, SamePhotos

LEMMA SettingsDerived ==
    ASSUME NEW s, StoreType(s), NEW ns \in SettingsChoices
    PROVE  LET u == AfterUpdateSettings(s, ns)
           IN  StoreType(u) /\ Derived(s, u, {}) /\ KeepsKnown(s, u)
  <1> DEFINE u == AfterUpdateSettings(s, ns)
  <1>1. u.photos = s.photos /\ u.session = s.session
    BY DEF AfterUpdateSettings, StoreType
  <1> HIDE DEF u
  <1>2. Derived(s, u, {}) /\ KeepsKnown(s, u)
    BY <1>1, SamePhotos DEF HasSession
  <1> QED BY <1>2, UpdateSettingsType DEF u

LEMMA LoadedDerived ==
    ASSUME NEW f, StoreType(f)
    PROVE  Derived(f, Loaded(f), {}) /\ KeepsKnown(f, Loaded(f))
  <1> DEFINE u == Loaded(f)
  <1>1. \A x \in PhotoIDs :
           u.photos[x] = IF Known(f, x) /\ f.photos[x].state = "unsure"
                         THEN [f.photos[x] EXCEPT !.state = "unsorted"]
                         ELSE f.photos[x]
    <2>1. u.photos = [x \in PhotoIDs |->
                        IF Known(f, x) /\ f.photos[x].state = "unsure"
                        THEN [f.photos[x] EXCEPT !.state = "unsorted"]
                        ELSE f.photos[x]]
      BY LoadedFields
    <2> HIDE DEF u
    <2> QED BY <2>1
  <1>2. \A x \in PhotoIDs : f.photos[x] \in Photo \cup {Nil}
    BY DEF StoreType, PhotoTables
  <1>3. \A i : Entry(u, i) =>
           /\ Entry(f, i)
           /\ u.session.stack[i].ops = f.session.stack[i].ops
           /\ \A x : Decides(u.session.stack[i], x) <=> Decides(f.session.stack[i], x)
    <2>1. HasSession(u) => f.session # Nil
      BY LoadedFields DEF HasSession
    <2> QED BY <2>1, LoadedStack DEF Entry, HasSession
  <1> HIDE DEF u
  <1>4. ASSUME NEW x \in PhotoIDs, Known(f, x)
        PROVE  /\ Known(u, x)
               /\ u.photos[x].trashedPath = f.photos[x].trashedPath
               /\ u.photos[x].state = "trashed" => f.photos[x].state = "trashed"
    <2>1. f.photos[x] \in Photo
      BY <1>2, <1>4 DEF Known
    <2>2. u.photos[x] \in Photo
      BY <1>1, <2>1 DEF Photo, States
    <2>3. u.photos[x] # Nil
      BY <2>2, NilAssumption
    <2> QED BY <1>1, <2>1, <2>3 DEF Known, Photo
  <1>5. \A x \in PhotoIDs : ~Known(f, x) => ~Known(u, x)
    BY <1>1 DEF Known
  <1>6. Derived(f, u, {})
    BY <1>3, <1>4, <1>5 DEF Derived, OpOf
  <1> QED BY <1>4, <1>6 DEF KeepsKnown, u

LEMMA OpenedDerived ==
    ASSUME NEW f, StoreType(f), NEW t
    PROVE  LET u == Opened(f, t)
           IN  StoreType(u) /\ Derived(f, u, {}) /\ KeepsKnown(f, u)
  <1> DEFINE v == Loaded(f)
  <1>1. Derived(f, v, {}) /\ KeepsKnown(f, v) /\ StoreType(v)
    BY LoadedDerived, LoadedFields
  <1>2. StoreType(Opened(f, t))
    BY OpenedType
  <1> HIDE DEF v
  <1>3. CASE ~DropsSession(f, t)
    BY <1>1, <1>2, <1>3 DEF Opened, v
  <1>4. CASE DropsSession(f, t)
    <2> DEFINE u == [v EXCEPT !.session = Nil]
    <2>1. Opened(f, t) = u
      BY <1>4 DEF Opened, v
    <2>2. u.photos = v.photos /\ ~HasSession(u)
      BY <1>1 DEF StoreType, HasSession
    <2> HIDE DEF u
    <2>3. Derived(f, u, {}) /\ KeepsKnown(f, u)
      BY <1>1, <2>2 DEF Derived, KeepsKnown, Known, Entry
    <2> QED BY <1>2, <2>1, <2>3
  <1> QED BY <1>3, <1>4

LEMMA ScannedDerived ==
    ASSUME NEW s, StoreType(s)
    PROVE  LET u == Scanned(s)
           IN  /\ StoreType(u) /\ Derived(s, u, InLibrary)
               /\ \A x \in PhotoIDs \ Missing(s, InLibrary) : Known(s, x) => Known(u, x)
  <1> DEFINE photos == [x \in PhotoIDs |->
                          IF x \in InLibrary THEN AfterUpsertPhoto(s, x).photos[x]
                          ELSE s.photos[x]]
             v == [s EXCEPT !.photos = photos]
             u == AfterForgetMissing(v, InLibrary)
  <1>1. Scanned(s) = u
    BY DEF Scanned
  <1>2. /\ NewPhoto \in Photo /\ NewPhoto # Nil /\ NewPhoto.trashedPath = Nil
        /\ NewPhoto.state # "trashed"
    BY NilAssumption DEF NewPhoto, Photo, States
  <1>3. \A x \in PhotoIDs :
           AfterUpsertPhoto(s, x).photos[x] = IF Known(s, x) THEN s.photos[x]
                                              ELSE NewPhoto
    BY DEF AfterUpsertPhoto, StoreType, PhotoTables
  <1>4. /\ \A x \in PhotoIDs :
              photos[x] = IF x \in InLibrary /\ ~Known(s, x) THEN NewPhoto
                          ELSE s.photos[x]
        /\ photos \in PhotoTables
    <2>1. \A x \in PhotoIDs :
              photos[x] = IF x \in InLibrary /\ ~Known(s, x) THEN NewPhoto
                          ELSE s.photos[x]
      BY <1>3
    <2>2. \A x \in PhotoIDs : photos[x] \in Photo \cup {Nil}
      BY <1>2, <2>1 DEF StoreType, PhotoTables
    <2>3. photos = [x \in PhotoIDs |-> photos[x]]
      OBVIOUS
    <2> HIDE DEF photos
    <2> QED BY <2>1, <2>2, <2>3 DEF PhotoTables
  <1> HIDE DEF photos
  <1>5. StoreType(v) /\ v.session = s.session /\ v.photos = photos
    BY <1>4, PhotosReplaced
  <1> HIDE DEF v
  <1>6. /\ StoreType(u) /\ Derived(v, u, {})
        /\ \A x \in PhotoIDs \ Missing(v, InLibrary) : Known(v, x) => Known(u, x)
    BY <1>5, ForgetDerived
  <1> HIDE DEF u
  <1>7. \A i : Entry(v, i) => Entry(s, i) /\ v.session.stack[i] = s.session.stack[i]
    BY <1>5 DEF Entry, HasSession
  <1>8. Derived(s, u, InLibrary)
    BY <1>2, <1>4, <1>5, <1>6, <1>7 DEF Derived, OpOf, Known
  <1>9. ASSUME NEW x \in PhotoIDs \ Missing(s, InLibrary), Known(s, x)
        PROVE  Known(u, x)
    <2>1. Known(v, x) /\ x \notin Missing(v, InLibrary)
      BY <1>4, <1>5, <1>9 DEF Known, Missing
    <2> QED BY <1>6, <2>1
  <1> QED BY <1>1, <1>6, <1>8, <1>9

LEMMA PushesRecorded ==
    ASSUME NEW s, StoreType(s), HasSession(s), NEW u, NEW d, Pushes(s, u, d)
    PROVE  StoreType(u) /\ Recorded(s, u, d) /\ KeepsKnown(s, u)
  <1>1. PICK s2 : Prepared(s, s2, d) /\ u = Pushed(s2, d, RolledBack(d))
    BY DEF Pushes
  <1>2. Live(s2) /\ d \in Decision /\ EntryOK(d) /\ RolledBack(d) \in Nat
    BY <1>1, RolledBackType DEF Prepared
  <1>3. /\ Live(u)
        /\ u.session.stack = Append(s2.session.stack, d)
        /\ u.photos = s2.photos
    BY <1>1, <1>2, PushedType
  <1>4. s2.session.stack = s.session.stack /\ DecidesFrom(s, s2, d)
    BY <1>1 DEF Prepared
  <1>5. s.session.stack \in Seq(Decision)
    BY LiveType DEF Live, Session
  <1>6. \A x \in PhotoIDs :
          IF Decides(d, x)
          THEN /\ Known(s, x) /\ Known(u, x)
               /\ d.ops[x].prevState = s.photos[x].state
               /\ d.ops[x].newState = u.photos[x].state
               /\ u.photos[x].trashedPath = PathAfter(d.ops[x], s.photos[x])
          ELSE u.photos[x] = s.photos[x]
    BY <1>3, <1>4 DEF DecidesFrom, Saved, Left, Known
  <1>7. KeepsKnown(s, u)
    BY <1>6 DEF KeepsKnown, Known
  <1> QED BY <1>3, <1>4, <1>5, <1>6, <1>7, TypeOfLive DEF Recorded

LEMMA UndoKeepsKnown ==
    ASSUME NEW s, StoreType(s), CanUndo(s)
    PROVE  StoreType(AfterUndo(s)) /\ KeepsKnown(s, AfterUndo(s))
  <1> DEFINE u == AfterUndo(s)
             d == Last(s.session.stack)
  <1>1. d \in Decision /\ EntryOK(d)
    BY PoppedType
  <1>2. StoreType(u) /\ u.photos \in {s.photos, PhotosUndone(s, d)}
    BY UndoFields
  <1> HIDE DEF u, d
  <1>3. ASSUME NEW x \in PhotoIDs, Known(s, x) PROVE PhotosUndone(s, d)[x] # Nil
    <2>1. CASE ~IsSkip(d) /\ x \in Touched(d)
      <3>1. s.photos[x] \in Photo
        BY <1>3, PhotoType
      <3>2. d.ops[x] \in MemberOp /\ d.ops[x].prevState \in States
        BY <1>1, <2>1 DEF Decision, Touched, EntryOK
      <3>3. Reverted(s.photos[x], d.ops[x]) \in Photo
        BY <3>1, <3>2, RevertedType
      <3> QED BY <1>3, <2>1, <3>3, NilAssumption DEF PhotosUndone
    <2>2. CASE ~(~IsSkip(d) /\ x \in Touched(d))
      BY <1>3, <2>2 DEF PhotosUndone, Known
    <2> QED BY <2>1, <2>2
  <1>4. KeepsKnown(s, u)
    BY <1>2, <1>3 DEF KeepsKnown, Known
  <1> QED BY <1>2, <1>4 DEF u

\* Every move to the trash that the stack remembers has a path.
Pathed(s) ==
    \A x \in PhotoIDs : \A i : Trashes(s, i, x) => OpOf(s, i, x).trashTo \in TrashPaths

LEMMA DerivedPathed ==
    ASSUME NEW s, NEW u, NEW N, Pathed(s), Derived(s, u, N)
    PROVE  Pathed(u)
  BY DEF Pathed, Derived, Trashes

LEMMA RecordedPathed ==
    ASSUME NEW s, NEW u, NEW d, Pathed(s), Recorded(s, u, d),
           \A x \in PhotoIDs :
              (Decides(d, x) /\ d.ops[x].newState = "trashed") =>
                 d.ops[x].trashTo \in TrashPaths
    PROVE  Pathed(u)
  <1> SUFFICES ASSUME NEW x \in PhotoIDs, NEW i, Trashes(u, i, x)
               PROVE  OpOf(u, i, x).trashTo \in TrashPaths
    BY DEF Pathed
  <1>1. \/ Entry(s, i) /\ u.session.stack[i] = s.session.stack[i]
        \/ u.session.stack[i] = d
    BY RecordedEntries DEF Trashes
  <1> QED BY <1>1 DEF Pathed, Trashes, OpOf

LEMMA UndonePathed ==
    ASSUME NEW s, StoreType(s), CanUndo(s), Pathed(s)
    PROVE  Pathed(AfterUndo(s))
  <1>1. \A i : Entry(AfterUndo(s), i) =>
           /\ Entry(s, i) /\ AfterUndo(s).session.stack[i] = s.session.stack[i]
    BY UndoneStack
  <1> QED BY <1>1 DEF Pathed, Trashes, OpOf

\* The two ways of TrashMember.
MovesMember(c, id) ==
    /\ lib[id] # Nil /\ MoveToTrash(id)
    /\ Waits(c, [req[c] EXCEPT
            !.todo = @ \ {id},
            !.ops[id] = [newState |-> "trashed", trashTo |-> UniqueDest(id)]])

LeavesMember(c, id) ==
    Waits(c, [req[c] EXCEPT !.todo = @ \ {id}]) /\ UNCHANGED files

-----------------------------------------------------------------------------
(***************************************************************************)
(* Type correctness.                                                       *)
(***************************************************************************)
\* The parts of a state, as they are to be typed.
FilesTyped(L, T, n) ==
    /\ L \in [PhotoIDs -> 1 .. MaxImports \cup {Nil}]
    /\ T \in [PhotoIDs \X Slots -> 1 .. MaxImports \cup {Nil}]
    /\ n \in [PhotoIDs -> 1 .. MaxImports]

TabsTyped(p, R) == p \in [Clients -> Page] /\ R \in [Clients -> Request]

HashedKnown(h, s) == h \subseteq {id \in PhotoIDs : Known(s, id)}

Typed ==
    /\ StoreType(mem) /\ StoreType(disk)
    /\ Pathed(mem) /\ Pathed(disk)
    /\ now \in 1 .. MaxNow
    /\ FilesTyped(lib, trash, imported)
    /\ TabsTyped(page, req)
    /\ HashedKnown(hashed, mem)

LEMMA RequestFields ==
    ASSUME NEW r \in Request
    PROVE  /\ r.pc = "start" => r.target \in Nat /\ r.mix \in Mixes
           /\ r.pc = "record" => r.id \in PhotoIDs /\ r.slot \in TrashPaths
           /\ r.pc = "members" =>
                 r \in [pc: {"members"}, id: PhotoIDs, todo: SUBSET PhotoIDs,
                        ops: ClusterRequests]
           /\ r.pc = "skip" => r.id \in PhotoIDs /\ r.members \subseteq PhotoIDs
           /\ r.pc = "restore" =>
                 r \in [pc: {"restore"}, todo: SUBSET (TrashPaths \X PhotoIDs),
                        byID: BOOLEAN, id: PhotoIDs]
           /\ r.pc = "walk" =>
                 r \in [pc: {"walk"}, todo: SUBSET PhotoIDs, seen: SUBSET PhotoIDs]
  BY DEF Request, Idle

LEMMA LeastIn ==
    ASSUME NEW S \in SUBSET Nat, S # {}
    PROVE  Least(S) \in S
  <1>1. \E x \in S : \A y \in S : x <= y
    BY NatMinimum
  <1> QED BY <1>1 DEF Least

LEMMA UniqueDestIn ==
    ASSUME NEW id \in PhotoIDs, FreeSlots(id) # {}
    PROVE  /\ UniqueDest(id) \in Own(id) /\ UniqueDest(id) \in TrashPaths
           /\ trash[UniqueDest(id)] = Nil
  <1>1. FreeSlots(id) \in SUBSET Nat
    BY BoundsAssumption DEF FreeSlots, Slots
  <1>2. Least(FreeSlots(id)) \in FreeSlots(id)
    BY <1>1, LeastIn
  <1> QED BY <1>2, SlotsAssumption DEF UniqueDest, FreeSlots, Own

LEMMA ClusterIn ==
    ASSUME hashed \subseteq PhotoIDs, NEW s
    PROVE  /\ Cluster(s) \subseteq PhotoIDs
           /\ Cluster(s) # {} => Least(Cluster(s)) \in PhotoIDs
           /\ Undecided(s, Cluster(s)) \subseteq PhotoIDs
  <1>1. Cluster(s) \subseteq PhotoIDs
    BY DEF Cluster
  <1>2. Cluster(s) # {} => Least(Cluster(s)) \in Cluster(s)
    BY <1>1, LeastIn, SlotsAssumption
  <1> QED BY <1>1, <1>2 DEF Undecided

LEMMA PagesTyped ==
    ASSUME hashed \subseteq PhotoIDs, NEW s
    PROVE  /\ NextPages(s) \subseteq Page
           /\ \A id \in PhotoIDs : \A byID : UndonePages(s, byID, id) \subseteq Page
  <1>1. Cluster(s) # {} => ClusterPage(s) \in Page
    BY ClusterIn DEF ClusterPage, Page
  <1>2. \A id \in PhotoIDs : PageFor(s, id) \in Page
    BY <1>1 DEF PageFor, Page
  <1>3. NoPage \in Page
    BY DEF NoPage, Page
  <1>4. PhotoPool(s) \subseteq PhotoIDs
    BY DEF PhotoPool, Pool
  <1>5. NextPages(s) \subseteq Page
    BY <1>2, <1>3, <1>4 DEF NextPages
  <1> QED BY <1>1, <1>2, <1>5 DEF UndonePages

\* The answers and waits of a tab keep tabs typed.
LEMMA WaitsTyped ==
    ASSUME Typed, NEW c \in Clients, NEW r \in Request, Waits(c, r),
           \/ page' = page
           \/ \E s : Shows(c, NextPages(s))
           \/ \E s, byID : \E id \in PhotoIDs : Shows(c, UndonePages(s, byID, id))
    PROVE  TabsTyped(page', req')
  <1>1. hashed \subseteq PhotoIDs
    BY DEF Typed, HashedKnown
  <1>2. page \in [Clients -> Page] /\ req \in [Clients -> Request]
    BY DEF Typed, TabsTyped
  <1>3. req' \in [Clients -> Request]
    BY <1>2 DEF Waits
  <1>4. \A P : P \subseteq Page /\ Shows(c, P) => page' \in [Clients -> Page]
    BY <1>2 DEF Shows
  <1> QED BY <1>1, <1>2, <1>3, <1>4, PagesTyped DEF TabsTyped

LEMMA AnswersTyped ==
    ASSUME Typed, NEW c \in Clients, Answers(c)
    PROVE  TabsTyped(page', req')
  <1>1. Idle \in Request
    BY DEF Request
  <1>2. Waits(c, Idle)
    BY DEF Answers
  <1>3. page' = page \/ \E s : Shows(c, NextPages(s))
    BY DEF Answers
  <1> QED BY <1>1, <1>2, <1>3, WaitsTyped

\* A step that keeps the parts typed.
StoreStep ==
    /\ StoreType(mem') /\ StoreType(disk') /\ now' = now
    /\ Pathed(mem') /\ Pathed(disk')
    /\ HashedKnown(hashed', mem')

LEMMA StoresTyped ==
    ASSUME Typed, NEW u, Stores(u), StoreType(u), Pathed(u), KeepsKnown(mem, u)
    PROVE  StoreStep /\ FilesTyped(lib', trash', imported')
  <1>1. mem' = u /\ disk' \in {u, disk}
    BY DEF Stores, StoreCall, Commit
  <1>2. HashedKnown(hashed, mem')
    BY <1>1 DEF Typed, HashedKnown, KeepsKnown
  <1> QED BY <1>1, <1>2 DEF Typed, Stores, StoreCall, StoreStep, files

LEMMA KeptTyped ==
    ASSUME Typed, StoreKept
    PROVE  StoreStep
  BY DEF Typed, StoreKept, StoreStep, vars

LEMMA MoveTyped ==
    ASSUME Typed, NEW id \in PhotoIDs, lib[id] # Nil, MoveToTrash(id)
    PROVE  FilesTyped(lib', trash', imported)
  <1>1. UniqueDest(id) \in PhotoIDs \X Slots
    BY UniqueDestIn, SlotsAssumption DEF MoveToTrash
  <1>2. /\ lib' = [lib EXCEPT ![id] = Nil]
        /\ trash' = [trash EXCEPT ![UniqueDest(id)] = lib[id]]
    BY DEF MoveToTrash
  <1> QED BY <1>1, <1>2 DEF Typed, FilesTyped

LEMMA BackTyped ==
    ASSUME Typed, NEW id \in PhotoIDs, NEW slot \in PhotoIDs \X Slots,
           RestoreFromTrash(slot, id)
    PROVE  FilesTyped(lib', trash', imported)
  <1>1. CASE lib' = lib /\ trash' = trash
    BY <1>1 DEF Typed
  <1>2. CASE /\ trash[slot] # Nil
             /\ lib' = [lib EXCEPT ![id] = trash[slot]]
             /\ trash' = [trash EXCEPT ![slot] = Nil]
    <2>1. trash[slot] \in 1 .. MaxImports
      BY <1>2 DEF Typed, FilesTyped
    <2> QED BY <1>2, <2>1 DEF Typed, FilesTyped
  <1> QED BY <1>1, <1>2 DEF RestoreFromTrash, files

LEMMA ServiceInitTyped == ServiceInit => Typed
  <1> SUFFICES ASSUME ServiceInit PROVE Typed
    OBVIOUS
  <1>1. PICK f \in StateFiles : mem = Scanned(Opened(f, now)) /\ disk = mem
    BY DEF ServiceInit
  <1>2. StoreType(f)
    BY StateFilesAssumption DEF FileOK
  <1>3. StoreType(Opened(f, now))
    BY <1>2, OpenedDerived
  <1>4. StoreType(mem) /\ StoreType(disk)
    BY <1>1, <1>3, ScannedDerived
  <1>p. Pathed(mem) /\ Pathed(disk)
    <2>1. Pathed(f)
      BY FirstFileAssumption DEF Pathed, Trashes, Entry, OpOf
    <2>2. Pathed(Opened(f, now))
      BY <1>2, <2>1, OpenedDerived, DerivedPathed
    <2> QED BY <1>1, <1>3, <2>2, ScannedDerived, DerivedPathed
  <1>5. 1 \in 1 .. MaxImports /\ 1 \in 1 .. MaxNow
    BY BoundsAssumption, ConstantsAssumption
  <1>6. FilesTyped(lib, trash, imported)
    BY <1>5 DEF ServiceInit, FilesTyped
  <1>7. Idle \in Request /\ NoPage \in Page
    BY DEF Request, NoPage, Page
  <1> QED BY <1>4, <1>p, <1>5, <1>6, <1>7 DEF ServiceInit, Typed, TabsTyped, HashedKnown

\* The calls of the store that handlers make at their last step.
LEMMA CallsTyped ==
    ASSUME Typed, NEW c \in Clients, NEW u, StoreType(u), Pathed(u),
           KeepsKnown(mem, u), Stores(u),
           \/ Answers(c)
           \/ UNCHANGED <<req, page>>
           \/ Waits(c, Idle) /\ Shows(c, NextPages(mem'))
    PROVE  Typed'
  <1>1. StoreStep /\ FilesTyped(lib', trash', imported')
    BY StoresTyped
  <1>2. Idle \in Request
    BY DEF Request
  <1>3. TabsTyped(page', req')
    <2>1. CASE Answers(c)
      BY <2>1, AnswersTyped
    <2>2. CASE UNCHANGED <<req, page>>
      BY <2>2 DEF Typed
    <2>3. CASE Waits(c, Idle) /\ Shows(c, NextPages(mem'))
      BY <1>2, <2>3, WaitsTyped
    <2> QED BY <2>1, <2>2, <2>3
  <1> QED BY <1>1, <1>3 DEF Typed, StoreStep

\* Steps that leave the store alone.
LEMMA WaitingTyped ==
    ASSUME Typed, NEW c \in Clients, NEW r \in Request, Waits(c, r), StoreKept,
           FilesTyped(lib', trash', imported),
           \/ page' = page
           \/ \E s : Shows(c, NextPages(s))
           \/ \E s, byID : \E id \in PhotoIDs : Shows(c, UndonePages(s, byID, id))
    PROVE  Typed'
  <1>1. StoreStep
    BY KeptTyped
  <1>2. imported' = imported
    BY DEF StoreKept
  <1>3. TabsTyped(page', req')
    BY WaitsTyped
  <1> QED BY <1>1, <1>2, <1>3 DEF Typed, StoreStep

LEMMA PushesTyped ==
    ASSUME Typed, HasSession(mem), NEW u, NEW d, Pushes(mem, u, d),
           \A x \in PhotoIDs :
              (Decides(d, x) /\ d.ops[x].newState = "trashed") =>
                 d.ops[x].trashTo \in TrashPaths
    PROVE  StoreType(u) /\ Pathed(u) /\ KeepsKnown(mem, u)
  BY PushesRecorded, RecordedPathed DEF Typed

\* What a page, a card or a request names is a photo.
LEMMA Cards ==
    ASSUME Typed, NEW c \in Clients
    PROVE  /\ page[c] \in Page
           /\ req[c] \in Request
           /\ now \in 0 .. MaxNow /\ now \in Nat
           /\ StoreType(mem) /\ StoreType(disk)
           /\ FilesTyped(lib, trash, imported)
           /\ hashed \subseteq PhotoIDs
  BY ConstantsAssumption DEF Typed, TabsTyped, HashedKnown

LEMMA MemberRequests ==
    /\ [newState |-> "kept", trashTo |-> Nil] \in MemberRequest
    /\ \A slot \in TrashPaths :
          [newState |-> "trashed", trashTo |-> slot] \in MemberRequest
  BY DEF MemberRequest

LEMMA KeepEntry ==
    ASSUME Typed, NEW id \in PhotoIDs, CanDecide(mem, id)
    PROVE  \E d :
              /\ Pushes(mem, AfterRecordDecision(mem, id, "kept", Nil, now), d)
              /\ \A x \in PhotoIDs : Decides(d, x) => d.ops[x].newState = "kept"
  <1> DEFINE r == [newState |-> "kept", trashTo |-> Nil]
  <1>1. r \in MemberRequest /\ r.newState = "kept" /\ r.trashTo = Nil
    BY MemberRequests
  <1>2. StoreType(mem) /\ now \in 0 .. MaxNow
    BY ConstantsAssumption DEF Typed
  <1> HIDE DEF r
  <1>3. \E d :
           /\ Pushes(mem, AfterRecordDecision(mem, id, r.newState, r.trashTo, now), d)
           /\ \A x \in PhotoIDs : Decides(d, x) => d.ops[x].newState = r.newState
    BY <1>1, <1>2, RecordDecisionEntry
  <1> QED BY <1>1, <1>3

LEMMA TrashEntry ==
    ASSUME Typed, NEW id \in PhotoIDs, CanDecide(mem, id), NEW slot \in TrashPaths
    PROVE  \E d :
              /\ Pushes(mem, AfterRecordDecision(mem, id, "trashed", slot, now), d)
              /\ \A x \in PhotoIDs : Decides(d, x) =>
                    x = id /\ d.ops[x].trashTo = slot
  <1> DEFINE r == [newState |-> "trashed", trashTo |-> slot]
  <1>1. r \in MemberRequest /\ r.newState = "trashed" /\ r.trashTo = slot
    BY MemberRequests
  <1>2. StoreType(mem) /\ now \in 0 .. MaxNow
    BY ConstantsAssumption DEF Typed
  <1> HIDE DEF r
  <1>3. \E d :
           /\ Pushes(mem, AfterRecordDecision(mem, id, r.newState, r.trashTo, now), d)
           /\ \A x \in PhotoIDs : Decides(d, x) =>
                 x = id /\ d.ops[x].trashTo = r.trashTo
    BY <1>1, <1>2, RecordDecisionEntry
  <1> QED BY <1>1, <1>3

\* handleHome, StartSession, handleNext, handleDecision without a file.
LEMMA CardsTyped ==
    ASSUME Typed, NEW c \in Clients,
           \/ HomeStart(c) \/ StartSession(c) \/ ShowNext(c)
           \/ \E id \in PhotoIDs : Keep(c, id) \/ SkipPhoto(c, id)
    PROVE  Typed'
  <1>0. /\ req[c] \in Request /\ StoreType(mem) /\ now \in 0 .. MaxNow
        /\ now \in Nat /\ FilesTyped(lib, trash, imported)
    BY Cards
  <1>1. CASE HomeStart(c)
    <2>1. [pc |-> "start", target |-> AutoTarget(mem), mix |-> AutoMix(mem)]
            \in Request
      BY <1>0, AutoSession DEF Request
    <2> QED BY <1>0, <1>1, <2>1, WaitingTyped DEF HomeStart, files
  <1>2. CASE StartSession(c)
    <2>1. req[c].target \in Nat /\ req[c].mix \in Mixes
      BY <1>0, <1>2, RequestFields DEF StartSession
    <2> DEFINE u == AfterStartSession(mem, req[c].target, req[c].mix, now)
    <2>2. StoreType(u) /\ Pathed(u) /\ KeepsKnown(mem, u)
      BY <1>0, <2>1, StartDerived, DerivedPathed DEF Typed
    <2>3. Stores(u) /\ Answers(c)
      BY <1>2 DEF StartSession
    <2> HIDE DEF u
    <2> QED BY <2>2, <2>3, CallsTyped
  <1>3. CASE ShowNext(c)
    <2>1. Idle \in Request
      BY DEF Request
    <2> QED BY <1>0, <1>3, <2>1, WaitingTyped DEF ShowNext, files
  <1>4. ASSUME NEW id \in PhotoIDs, Keep(c, id) PROVE Typed'
    <2>1. CanDecide(mem, id) /\ HasSession(mem)
      BY <1>4 DEF Keep, CanDecide
    <2>2. \E d : /\ Pushes(mem, AfterRecordDecision(mem, id, "kept", Nil, now), d)
                 /\ \A x \in PhotoIDs : Decides(d, x) => d.ops[x].newState = "kept"
      BY <2>1, KeepEntry
    <2> QED BY <1>4, <2>1, <2>2, PushesTyped, CallsTyped DEF Keep
  <1>5. ASSUME NEW id \in PhotoIDs, SkipPhoto(c, id) PROVE Typed'
    <2>1. CanDecide(mem, id) /\ HasSession(mem)
      BY <1>5 DEF SkipPhoto, CanDecide
    <2>2. \E d : /\ Pushes(mem, AfterRecordSkip(mem, id, now), d)
                 /\ \A x : ~Decides(d, x)
      BY <1>0, <2>1, RecordSkipEntry
    <2> QED BY <1>5, <2>1, <2>2, PushesTyped, CallsTyped DEF SkipPhoto
  <1> QED BY <1>1, <1>2, <1>3, <1>4, <1>5

\* The two steps of trashing a card.
LEMMA TrashTyped ==
    ASSUME Typed, NEW c \in Clients,
           RecordTrash(c) \/ \E id \in PhotoIDs : TrashFile(c, id)
    PROVE  Typed'
  <1>0. /\ req[c] \in Request /\ StoreType(mem) /\ now \in 0 .. MaxNow
        /\ FilesTyped(lib, trash, imported)
    BY Cards
  <1>1. ASSUME NEW id \in PhotoIDs, TrashFile(c, id) PROVE Typed'
    <2>1. lib[id] # Nil /\ MoveToTrash(id) /\ FreeSlots(id) # {}
      BY <1>1 DEF TrashFile, MoveToTrash
    <2>2. [pc |-> "record", id |-> id, slot |-> UniqueDest(id)] \in Request
      BY <2>1, UniqueDestIn DEF Request
    <2>3. FilesTyped(lib', trash', imported)
      BY <2>1, MoveTyped
    <2> QED BY <1>1, <2>2, <2>3, WaitingTyped DEF TrashFile
  <1>2. CASE RecordTrash(c)
    <2>1. req[c].id \in PhotoIDs /\ req[c].slot \in TrashPaths
      BY <1>0, <1>2, RequestFields DEF RecordTrash
    <2>2. CASE CanDecide(mem, req[c].id)
      <3> DEFINE u == AfterRecordDecision(mem, req[c].id, "trashed", req[c].slot, now)
      <3>1. \E d : /\ Pushes(mem, u, d)
                   /\ \A x \in PhotoIDs : Decides(d, x) => d.ops[x].trashTo \in TrashPaths
        BY <2>1, <2>2, TrashEntry
      <3>2. Stores(u) /\ Answers(c)
        BY <1>2, <2>2 DEF RecordTrash
      <3> HIDE DEF u
      <3> QED BY <2>2, <3>1, <3>2, PushesTyped, CallsTyped DEF CanDecide
    <2>3. CASE ~CanDecide(mem, req[c].id)
      <3>1. StoreKept /\ Waits(c, Idle) /\ page' = page /\ lib' = lib /\ trash' = trash
        BY <1>2, <2>3 DEF RecordTrash, Errs, files
      <3>2. Idle \in Request
        BY DEF Request
      <3> QED BY <1>0, <3>1, <3>2, WaitingTyped
    <2> QED BY <2>2, <2>3
  <1> QED BY <1>1, <1>2

\* handleClusterResolve and handleClusterSkip.
LEMMA ClusterTyped ==
    ASSUME Typed, NEW c \in Clients,
           \/ \E keep : ResolveCluster(c, keep)
           \/ ClusterVanished(c)
           \/ \E id \in PhotoIDs : TrashMember(c, id)
           \/ RecordCluster(c) \/ SkipMembers(c) \/ RecordClusterSkip(c)
    PROVE  Typed'
  <1>0. /\ req[c] \in Request /\ page[c] \in Page /\ StoreType(mem)
        /\ now \in 0 .. MaxNow /\ FilesTyped(lib, trash, imported)
        /\ hashed \subseteq PhotoIDs
    BY Cards
  <1>i. Idle \in Request
    BY DEF Request
  <1>1. ASSUME NEW keep, ResolveCluster(c, keep) PROVE Typed'
    <2> DEFINE members == Undecided(mem, Cluster(mem))
               ops == [x \in PhotoIDs |->
                         IF x \in members \cap keep
                         THEN [newState |-> "kept", trashTo |-> Nil] ELSE Nil]
               r == [pc |-> "members", id |-> page[c].cluster,
                     todo |-> members \ keep, ops |-> ops]
    <2>1. members \subseteq PhotoIDs
      BY <1>0, ClusterIn
    <2>2. page[c].cluster \in PhotoIDs
      BY <1>0, <1>1 DEF Page, ResolveCluster
    <2>3. ops \in ClusterRequests
      BY MemberRequests DEF ClusterRequests
    <2>4. Waits(c, r) /\ StoreKept /\ UNCHANGED <<files, page>>
      BY <1>1 DEF ResolveCluster
    <2> HIDE DEF members, ops
    <2>5. r \in Request
      BY <2>1, <2>2, <2>3 DEF Request
    <2> HIDE DEF r
    <2> QED BY <1>0, <2>4, <2>5, WaitingTyped DEF files
  <1>2. CASE ClusterVanished(c)
    BY <1>0, <1>2, <1>i, WaitingTyped DEF ClusterVanished, files
  <1>3. ASSUME NEW id \in PhotoIDs, TrashMember(c, id) PROVE Typed'
    <2>1. req[c] \in [pc: {"members"}, id: PhotoIDs, todo: SUBSET PhotoIDs,
                      ops: ClusterRequests]
      BY <1>0, <1>3, RequestFields DEF TrashMember
    <2>2. CASE MovesMember(c, id)
      <3> DEFINE op == [newState |-> "trashed", trashTo |-> UniqueDest(id)]
                 r == [req[c] EXCEPT !.todo = @ \ {id}, !.ops[id] = op]
      <3>1. MoveToTrash(id) /\ Waits(c, r) /\ StoreKept /\ page' = page
        BY <1>3, <2>2 DEF TrashMember, MovesMember
      <3>2. op \in MemberRequest
        BY <3>1, UniqueDestIn, MemberRequests DEF MoveToTrash
      <3>3. FilesTyped(lib', trash', imported)
        BY <2>2, <3>1, MoveTyped DEF MovesMember
      <3> HIDE DEF op
      <3>4. r \in Request
        BY <2>1, <3>2 DEF ClusterRequests, Request
      <3> HIDE DEF r
      <3> QED BY <3>1, <3>3, <3>4, WaitingTyped
    <2>3. CASE LeavesMember(c, id)
      <3> DEFINE r == [req[c] EXCEPT !.todo = @ \ {id}]
      <3>1. Waits(c, r) /\ StoreKept /\ page' = page /\ lib' = lib /\ trash' = trash
        BY <1>3, <2>3 DEF TrashMember, LeavesMember, files
      <3>2. r \in Request
        BY <2>1 DEF Request
      <3> HIDE DEF r
      <3> QED BY <1>0, <3>1, <3>2, WaitingTyped
    <2> QED BY <1>3, <2>2, <2>3 DEF TrashMember, MovesMember, LeavesMember
  <1>4. CASE RecordCluster(c)
    <2> DEFINE ops == req[c].ops
               u == AfterRecordClusterDecision(mem, req[c].id, ops, now)
    <2>1. req[c].id \in PhotoIDs /\ ops \in ClusterRequests
      BY <1>0, <1>4, RequestFields DEF RecordCluster
    <2>2. CASE Requested(ops) # {} /\ CanDecideCluster(mem, ops)
      <3>1. \E d : /\ Pushes(mem, u, d)
                   /\ \A x \in PhotoIDs :
                         (Decides(d, x) /\ d.ops[x].newState = "trashed") =>
                            d.ops[x].trashTo \in TrashPaths
        <4>1. PICK d : /\ Pushes(mem, u, d)
                       /\ \A x \in PhotoIDs : Decides(d, x) =>
                             /\ ops[x] # Nil
                             /\ d.ops[x].newState = ops[x].newState
                             /\ d.ops[x].trashTo = ops[x].trashTo
          BY <1>0, <2>1, <2>2, RecordClusterDecisionEntry
        <4>2. \A x \in PhotoIDs : (ops[x] # Nil /\ ops[x].newState = "trashed") =>
                 ops[x].trashTo \in TrashPaths
          BY <2>1 DEF ClusterRequests, MemberRequest
        <4> HIDE DEF u, ops
        <4> QED BY <4>1, <4>2
      <3>2. Stores(u) /\ Waits(c, Idle) /\ Shows(c, NextPages(mem'))
        BY <1>4, <2>2 DEF RecordCluster
      <3> HIDE DEF u
      <3> QED BY <2>2, <3>1, <3>2, PushesTyped, CallsTyped DEF CanDecideCluster
    <2>3. CASE ~(Requested(ops) # {} /\ CanDecideCluster(mem, ops))
      <3>1. /\ StoreKept /\ lib' = lib /\ trash' = trash
            /\ Waits(c, Idle) /\ Shows(c, NextPages(mem'))
        BY <1>4, <2>3 DEF RecordCluster, files
      <3> QED BY <1>0, <1>i, <3>1, WaitingTyped
    <2> QED BY <2>2, <2>3
  <1>5. CASE SkipMembers(c)
    <2> DEFINE r == [pc |-> "skip", id |-> page[c].cluster,
                     members |-> Undecided(mem, Cluster(mem))]
    <2>1. page[c].cluster \in PhotoIDs
      BY <1>0, <1>5 DEF Page, SkipMembers
    <2>2. r \in Request
      BY <1>0, <2>1, ClusterIn DEF Request
    <2>3. Waits(c, r) /\ StoreKept /\ UNCHANGED <<files, page>>
      BY <1>5 DEF SkipMembers
    <2> HIDE DEF r
    <2> QED BY <1>0, <2>2, <2>3, WaitingTyped DEF files
  <1>6. CASE RecordClusterSkip(c)
    <2>1. req[c].id \in PhotoIDs
      BY <1>0, <1>6, RequestFields DEF RecordClusterSkip
    <2>2. Waits(c, Idle) /\ Shows(c, NextPages(mem'))
      BY <1>6 DEF RecordClusterSkip
    <2>3. CASE HasSession(mem)
      <3>1. PICK ids \in MemberLists :
               Stores(AfterSkipCluster(mem, req[c].id, ids, now))
        BY <1>6, <2>3 DEF RecordClusterSkip
      <3>2. ids \in Seq(PhotoIDs)
        BY DEF MemberLists
      <3>3. \E d : /\ Pushes(mem, AfterSkipCluster(mem, req[c].id, ids, now), d)
                   /\ \A x : ~Decides(d, x)
        BY <1>0, <2>1, <2>3, <3>2, SkipClusterEntry
      <3> QED BY <2>2, <2>3, <3>1, <3>3, PushesTyped, CallsTyped
    <2>4. CASE ~HasSession(mem)
      <3>1. StoreKept /\ lib' = lib /\ trash' = trash
        BY <1>6, <2>4 DEF RecordClusterSkip, files
      <3> QED BY <1>0, <1>i, <2>2, <3>1, WaitingTyped
    <2> QED BY <2>3, <2>4
  <1> QED BY <1>1, <1>2, <1>3, <1>4, <1>5, <1>6

\* handleUndo.
LEMMA UndoTyped ==
    ASSUME Typed, NEW c \in Clients, UndoEntry(c) \/ RestoreFile(c) \/ UndoDone(c)
    PROVE  Typed'
  <1>0. /\ req[c] \in Request /\ StoreType(mem) /\ StoreType(disk)
        /\ FilesTyped(lib, trash, imported)
    BY Cards
  <1>i. Idle \in Request
    BY DEF Request
  <1>1. CASE UndoEntry(c)
    <2> DEFINE d == Last(mem.session.stack)
               byID == d.kind \in {"cluster", "clusterSkip"}
               r == [pc |-> "restore", todo |-> Restores(d), byID |-> byID,
                     id |-> d.photo]
    <2>1. CanUndo(mem) /\ mem' = AfterUndo(mem)
      BY <1>1 DEF UndoEntry
    <2>2. StoreType(mem') /\ Pathed(mem') /\ KeepsKnown(mem, mem')
      BY <1>0, <2>1, UndoKeepsKnown, UndonePathed DEF Typed
    <2>3. StoreType(disk') /\ Pathed(disk') /\ (Waits(c, r) \/ Waits(c, Idle))
      BY <1>0, <1>1, <2>2 DEF UndoEntry, Typed
    <2>4. r \in Request
      <3>1. d \in Decision
        BY <1>0, <2>1, PoppedType
      <3> HIDE DEF d
      <3>2. Restores(d) \subseteq TrashPaths \X PhotoIDs
        <4> SUFFICES ASSUME NEW x \in Touched(d), d.ops[x].newState = "trashed",
                            Decides(d, x)
                     PROVE  d.ops[x].trashTo \in TrashPaths
          BY DEF Restores, Touched
        <4>1. /\ Entry(mem, Len(mem.session.stack))
              /\ mem.session.stack[Len(mem.session.stack)] = d
          BY <1>0, <2>1, UndoneStack DEF d
        <4>2. Trashes(mem, Len(mem.session.stack), x)
          BY <4>1 DEF Trashes, OpOf
        <4> QED BY <4>1, <4>2 DEF Typed, Pathed, OpOf, Touched
      <3> QED BY <3>1, <3>2 DEF Request, Decision
    <2> HIDE DEF r
    <2>5. TabsTyped(page', req')
      BY <1>1, <1>i, <2>3, <2>4, WaitsTyped DEF UndoEntry
    <2> QED BY <1>1, <2>2, <2>3, <2>5
            DEF UndoEntry, Typed, HashedKnown, KeepsKnown, files
  <1>2. CASE RestoreFile(c)
    <2>1. PICK move \in req[c].todo :
             /\ RestoreFromTrash(move[1], move[2])
             /\ Waits(c, [req[c] EXCEPT !.todo = @ \ {move}])
      BY <1>2 DEF RestoreFile
    <2>2. req[c] \in [pc: {"restore"}, todo: SUBSET (TrashPaths \X PhotoIDs),
                      byID: BOOLEAN, id: PhotoIDs]
      BY <1>0, <1>2, RequestFields DEF RestoreFile
    <2>3. move[1] \in PhotoIDs \X Slots /\ move[2] \in PhotoIDs
      BY <2>2, SlotsAssumption
    <2>4. FilesTyped(lib', trash', imported)
      BY <2>1, <2>3, BackTyped
    <2>5. [req[c] EXCEPT !.todo = @ \ {move}] \in Request
      BY <2>2 DEF Request
    <2> QED BY <1>2, <2>1, <2>4, <2>5, WaitingTyped DEF RestoreFile
  <1>3. CASE UndoDone(c)
    <2>1. req[c].id \in PhotoIDs
      BY <1>0, <1>3, RequestFields DEF UndoDone
    <2> QED BY <1>0, <1>3, <1>i, <2>1, WaitingTyped DEF UndoDone, files
  <1> QED BY <1>1, <1>2, <1>3

\* handleSessionEnd, handleSessionExtend and the settings form.
LEMMA SessionTyped ==
    ASSUME Typed, NEW c \in Clients,
           \/ End(c)
           \/ \E delta \in Batches : Extend(c, delta)
           \/ \E ns \in SettingsChoices : SaveSettings(c, ns)
    PROVE  Typed'
  <1>0. StoreType(mem) /\ Pathed(mem)
    BY DEF Typed
  <1>1. CASE End(c)
    <2> DEFINE u == AfterEndSession(mem)
    <2>1. StoreType(u) /\ Pathed(u) /\ KeepsKnown(mem, u)
      BY <1>0, EndDerived, DerivedPathed
    <2>2. Stores(u) /\ UNCHANGED <<req, page>>
      BY <1>1 DEF End
    <2> HIDE DEF u
    <2> QED BY <2>1, <2>2, CallsTyped
  <1>2. ASSUME NEW delta \in Batches, Extend(c, delta) PROVE Typed'
    <2> DEFINE u == AfterSessionExtend(mem, delta)
    <2>1. StoreType(u) /\ Pathed(u) /\ KeepsKnown(mem, u)
      BY <1>0, <1>2, ExtendDerived, DerivedPathed DEF Extend
    <2>2. Stores(u) /\ Answers(c)
      BY <1>2 DEF Extend
    <2> HIDE DEF u
    <2> QED BY <2>1, <2>2, CallsTyped
  <1>3. ASSUME NEW ns \in SettingsChoices, SaveSettings(c, ns) PROVE Typed'
    <2> DEFINE u == AfterUpdateSettings(mem, ns)
    <2>1. StoreType(u) /\ Pathed(u) /\ KeepsKnown(mem, u)
      BY <1>0, SettingsDerived, DerivedPathed
    <2>2. Stores(u) /\ UNCHANGED <<req, page>>
      BY <1>3 DEF SaveSettings
    <2> HIDE DEF u
    <2> QED BY <2>1, <2>2, CallsTyped
  <1> QED BY <1>1, <1>2, <1>3

\* Scan.
LEMMA ScanTyped ==
    ASSUME Typed, NEW c \in Clients,
           \/ Rescan(c) \/ Prune(c)
           \/ \E id \in PhotoIDs : Visit(c, id)
    PROVE  Typed'
  <1>0. /\ req[c] \in Request /\ StoreType(mem) /\ Pathed(mem)
        /\ FilesTyped(lib, trash, imported)
    BY Cards DEF Typed
  <1>i. Idle \in Request
    BY DEF Request
  <1>1. CASE Rescan(c)
    <2>1. [pc |-> "walk", todo |-> InLibrary, seen |-> {}] \in Request
      BY DEF Request, InLibrary
    <2> QED BY <1>0, <1>1, <2>1, WaitingTyped DEF Rescan, files
  <1>2. CASE Prune(c)
    <2> DEFINE seen == req[c].seen
    <2>1. TabsTyped(page', req')
      BY <1>2, <1>i, WaitsTyped DEF Prune
    <2>2. CASE Missing(mem, seen) # {}
      <3> DEFINE u == AfterForgetMissing(mem, seen)
      <3>1. /\ StoreType(u) /\ Pathed(u)
            /\ \A x \in PhotoIDs \ Missing(mem, seen) : Known(mem, x) => Known(u, x)
        BY <1>0, ForgetDerived, DerivedPathed
      <3>2. Commit(u) /\ hashed' = hashed \ Missing(mem, seen)
        BY <1>2, <2>2 DEF Prune
      <3> HIDE DEF u
      <3>3. mem' = u /\ disk' \in {u, disk}
        BY <3>2 DEF Commit
      <3>4. HashedKnown(hashed', mem')
        BY <3>1, <3>2, <3>3 DEF Typed, HashedKnown
      <3> QED BY <1>2, <2>1, <3>1, <3>3, <3>4 DEF Prune, Typed, files
    <2>3. CASE Missing(mem, seen) = {}
      BY <1>2, <2>1, <2>3 DEF Prune, Typed, files
    <2> QED BY <2>2, <2>3
  <1>3. ASSUME NEW id \in PhotoIDs, Visit(c, id) PROVE Typed'
    <2>1. req[c] \in [pc: {"walk"}, todo: SUBSET PhotoIDs, seen: SUBSET PhotoIDs]
      BY <1>0, <1>3, RequestFields DEF Visit
    <2>2. [req[c] EXCEPT !.todo = @ \ {id}, !.seen = @ \cup {id}] \in Request
      BY <2>1 DEF Request
    <2>3. TabsTyped(page', req')
      <3>1. \/ Waits(c, [req[c] EXCEPT !.todo = @ \ {id}, !.seen = @ \cup {id}])
            \/ Waits(c, Idle)
        BY <1>3 DEF Visit
      <3>2. page' = page
        BY <1>3 DEF Visit
      <3> QED BY <1>i, <2>2, <3>1, <3>2, WaitsTyped
    <2>4. CASE lib[id] # Nil
      <3> DEFINE u == AfterUpsertPhoto(mem, id)
      <3>1. StoreType(u) /\ Pathed(u) /\ KeepsKnown(mem, u)
        BY <1>0, UpsertDerived, DerivedPathed
      <3>2. mem' = u /\ disk' \in {mem', disk} /\ now' = now
            /\ UNCHANGED <<lib, trash, imported, hashed>>
        BY <1>3, <2>4 DEF Visit, UpsertPhoto, files
      <3> HIDE DEF u
      <3>3. HashedKnown(hashed', mem')
        BY <3>1, <3>2 DEF Typed, HashedKnown, KeepsKnown
      <3> QED BY <2>3, <3>1, <3>2, <3>3 DEF Typed
    <2>5. CASE lib[id] = Nil
      <3>1. StoreKept /\ lib' = lib /\ trash' = trash
        BY <1>3, <2>5 DEF Visit, files
      <3>2. StoreStep
        BY <3>1, KeptTyped
      <3> QED BY <1>0, <2>3, <3>1, <3>2 DEF Typed, StoreStep, StoreKept
    <2> QED BY <2>4, <2>5
  <1> QED BY <1>1, <1>2, <1>3

\* The process, the indexer and the user's own file moves.
LEMMA OutsideTyped ==
    ASSUME Typed,
           \/ Restart
           \/ \E id \in PhotoIDs : Index(id) \/ Import(id)
           \/ \E id \in PhotoIDs, k \in Slots : PutBack(id, k)
    PROVE  Typed'
  <1>0. FilesTyped(lib, trash, imported) /\ TabsTyped(page, req)
    BY DEF Typed
  <1>1. CASE Restart
    <2> DEFINE s == Opened(disk, now)
               u == Scanned(s)
    <2>1. StoreType(s) /\ Pathed(s)
      BY OpenedDerived, DerivedPathed DEF Typed
    <2>2. mem' = u /\ disk' \in {u, disk}
      BY <1>1 DEF Restart
    <2>3. hashed' = {x \in hashed \ Missing(s, InLibrary) : Known(s, x)}
      BY <1>1 DEF Restart
    <2> HIDE DEF s
    <2>4. /\ StoreType(u) /\ Pathed(u)
          /\ \A x \in PhotoIDs \ Missing(s, InLibrary) : Known(s, x) => Known(u, x)
      BY <2>1, ScannedDerived, DerivedPathed
    <2> HIDE DEF u
    <2>5. HashedKnown(hashed', mem')
      BY <2>2, <2>3, <2>4 DEF Typed, HashedKnown
    <2>6. Idle \in Request
      BY DEF Request
    <2>7. TabsTyped(page', req')
      BY <1>0, <1>1, <2>6 DEF Restart, TabsTyped
    <2> QED BY <1>1, <2>2, <2>4, <2>5, <2>7 DEF Restart, Typed, files
  <1>2. ASSUME NEW id \in PhotoIDs, Index(id) PROVE Typed'
    BY <1>2 DEF Index, Typed, HashedKnown, vars, files
  <1>3. ASSUME NEW id \in PhotoIDs, Import(id) PROVE Typed'
    <2>1. imported[id] + 1 \in 1 .. MaxImports
      BY <1>0, <1>3, BoundsAssumption DEF Import, FilesTyped
    <2>2. FilesTyped(lib', trash', imported')
      BY <1>0, <1>3, <2>1 DEF Import, FilesTyped
    <2> QED BY <1>3, <2>2 DEF Import, Typed, vars
  <1>4. ASSUME NEW id \in PhotoIDs, NEW k \in Slots, PutBack(id, k) PROVE Typed'
    <2>1. trash[<<id, k>>] \in 1 .. MaxImports
      BY <1>0, <1>4 DEF PutBack, FilesTyped
    <2>2. FilesTyped(lib', trash', imported')
      BY <1>0, <1>4, <2>1 DEF PutBack, FilesTyped
    <2> QED BY <1>4, <2>2 DEF PutBack, Typed, vars
  <1> QED BY <1>1, <1>2, <1>3, <1>4

LEMMA ServiceNextTyped == Typed /\ [ServiceNext]_serviceVars => Typed'
  <1> SUFFICES ASSUME Typed, [ServiceNext]_serviceVars PROVE Typed'
    OBVIOUS
  <1>1. ASSUME NEW c \in Clients, Handle(c) PROVE Typed'
    BY <1>1, CardsTyped, TrashTyped, ClusterTyped, UndoTyped, SessionTyped,
       ScanTyped DEF Handle
  <1>2. CASE UNCHANGED serviceVars
    BY <1>2 DEF serviceVars, vars, files, Typed
  <1> QED BY <1>1, <1>2, OutsideTyped DEF ServiceNext

\* Only a restore adds to the files whose restore failed.
LEMMA StrandedSteps ==
    ASSUME [ServiceNext]_serviceVars
    PROVE  \/ stranded' \subseteq stranded
           \/ \E c \in Clients : RestoreFile(c)
  <1>1. ASSUME NEW c \in Clients, Handle(c)
        PROVE  stranded' = stranded \/ RestoreFile(c)
    <2>1. ASSUME \/ HomeStart(c) \/ StartSession(c) \/ ShowNext(c)
                 \/ \E id \in PhotoIDs : Keep(c, id) \/ SkipPhoto(c, id)
          PROVE  stranded' = stranded
      BY <2>1 DEF HomeStart, StartSession, ShowNext, Keep, SkipPhoto, Stores, files
    <2>2. ASSUME \/ \E id \in PhotoIDs : TrashFile(c, id) \/ TrashMember(c, id)
                 \/ RecordTrash(c)
          PROVE  stranded' = stranded
      BY <2>2 DEF TrashFile, TrashMember, MoveToTrash, RecordTrash, Stores, files
    <2>3. ASSUME \/ \E keep \in SUBSET page[c].photos : ResolveCluster(c, keep)
                 \/ ClusterVanished(c) \/ SkipMembers(c) \/ Rescan(c)
                 \/ UndoEntry(c) \/ UndoDone(c) \/ Prune(c)
                 \/ \E id \in PhotoIDs : Visit(c, id)
          PROVE  stranded' = stranded
      BY <2>3 DEF ResolveCluster, ClusterVanished, SkipMembers, Rescan, UndoEntry,
                  UndoDone, Prune, Visit, files
    <2>4. ASSUME RecordCluster(c) \/ RecordClusterSkip(c) PROVE stranded' = stranded
      BY <2>4 DEF RecordCluster, RecordClusterSkip, Stores, files
    <2>5. ASSUME \/ End(c)
                 \/ \E delta \in Batches : Extend(c, delta)
                 \/ \E ns \in SettingsChoices : SaveSettings(c, ns)
          PROVE  stranded' = stranded
      BY <2>5 DEF End, Extend, SaveSettings, Stores, files
    <2> QED BY <1>1, <2>1, <2>2, <2>3, <2>4, <2>5 DEF Handle
  <1>2. ASSUME \/ Restart
               \/ \E id \in PhotoIDs : Index(id) \/ Import(id)
               \/ \E id \in PhotoIDs, k \in Slots : PutBack(id, k)
               \/ UNCHANGED serviceVars
        PROVE  stranded' \subseteq stranded
    BY <1>2 DEF Restart, Index, Import, PutBack, serviceVars, files
  <1> QED BY <1>1, <1>2 DEF ServiceNext

LEMMA StrandedNext ==
    ASSUME Typed, stranded \subseteq TrashPaths, [ServiceNext]_serviceVars
    PROVE  stranded' \subseteq TrashPaths
  <1>1. ASSUME NEW c \in Clients, RestoreFile(c) PROVE stranded' \subseteq TrashPaths
    <2>1. PICK move \in req[c].todo : RestoreFromTrash(move[1], move[2])
      BY <1>1 DEF RestoreFile
    <2>2. move \in TrashPaths \X PhotoIDs
      BY <1>1, Cards, RequestFields DEF RestoreFile
    <2> QED BY <2>1, <2>2 DEF RestoreFromTrash, files
  <1> QED BY <1>1, StrandedSteps

LEMMA TypedIsOK == Typed /\ stranded \subseteq TrashPaths => ServiceTypeOK
  BY DEF Typed, ServiceTypeOK, FilesTyped, TabsTyped, HashedKnown

\* Whatever the tabs ask for, in whatever order and interrupted by whatever crash,
\* the store's values stay well formed, only photos the store knows count as
\* hashed, every page names photos, and every request knows at each step what that
\* step uses (ServiceTypeOK); the user may even move files by hand.
THEOREM ServiceTypeCorrect == ServiceSpec => []ServiceTypeOK
  <1>1. ServiceInit => Typed /\ stranded \subseteq TrashPaths
    BY ServiceInitTyped DEF ServiceInit
  <1>2. (Typed /\ stranded \subseteq TrashPaths) /\ [ServiceNext]_serviceVars
           => (Typed /\ stranded \subseteq TrashPaths)'
    BY ServiceNextTyped, StrandedNext
  <1> QED BY <1>1, <1>2, TypedIsOK, PTL DEF ServiceSpec

-----------------------------------------------------------------------------
(***************************************************************************)
(* The files the store counts on, as long as nobody moves files by hand.   *)
(***************************************************************************)
Safe ==
    /\ Sound(mem, lib, trash, imported, req)
    /\ Sound(disk, lib, trash, imported, req)
    /\ Held(trash, req)
    /\ Numbered(lib, trash, imported)

\* The other tabs' requests stay as they are.
OnlyTab(c, R, R2) == \A e \in Clients \ {c} : R2[e] = R[e]

HoldsNothing(r) == \A x \in PhotoIDs : \A slot : ~Holds(r, x, slot)

LEMMA WaitsOnly ==
    ASSUME Typed, NEW c \in Clients, NEW r, Waits(c, r)
    PROVE  OnlyTab(c, req, req') /\ req'[c] = r
  BY DEF Typed, TabsTyped, Waits, OnlyTab

LEMMA HoldersSame ==
    ASSUME NEW T, NEW R, NEW R2, NEW c \in Clients, OnlyTab(c, R, R2),
           HoldsNothing(R2[c])
    PROVE  /\ Held(T, R) => Held(T, R2)
           /\ \A x \in PhotoIDs : \A slot :
                 InTrash(x, slot, T, R) => InTrash(x, slot, T, R2)
           /\ \A x \in PhotoIDs : Returning(R2, x) => Returning(R, x)
  <1>1. \A e \in Clients, x \in PhotoIDs : \A slot :
           Holds(R2[e], x, slot) => e # c /\ Holds(R[e], x, slot)
    BY DEF OnlyTab, HoldsNothing
  <1>2. \A x \in PhotoIDs : Returning(R2, x) => Returning(R, x)
    <2> SUFFICES ASSUME NEW x \in PhotoIDs, NEW e \in Clients, NEW slot \in TrashPaths,
                        R2[e].pc = "restore", <<slot, x>> \in R2[e].todo
                 PROVE  Returning(R, x)
      BY DEF Returning
    <2>1. Holds(R2[e], x, slot)
      BY DEF Holds
    <2>2. R2[e] = R[e]
      BY <1>1, <2>1 DEF OnlyTab
    <2> QED BY <2>2 DEF Returning
  <1>3. Held(T, R) => Held(T, R2)
    BY <1>1 DEF Held
  <1> QED BY <1>1, <1>2, <1>3 DEF InTrash

LEMMA QuietSound ==
    ASSUME NEW s, NEW L, NEW T, NEW n, NEW R, Sound(s, L, T, n, R), NEW R2,
           NEW c \in Clients, OnlyTab(c, R, R2), HoldsNothing(R2[c])
    PROVE  Sound(s, L, T, n, R2)
  <1>1. \A x \in PhotoIDs, slot \in TrashPaths :
           InTrash(x, slot, T, R) => InTrash(x, slot, T, R2)
    BY HoldersSame
  <1>2. \A x \in PhotoIDs : GoneSound(x, L, n, R) => GoneSound(x, L, n, R2)
    BY HoldersSame DEF GoneSound
  <1> QED BY <1>1, <1>2, FrameSound

FilesStay == lib' = lib /\ trash' = trash /\ imported' = imported

\* A request holds nothing after the step, and the store learns of no trash.
LEMMA QuietSafe ==
    ASSUME Safe, NEW c \in Clients, OnlyTab(c, req, req'), HoldsNothing(req'[c]),
           FilesStay, disk' \in {mem', disk},
           NEW N, Derived(mem, mem', N), \A x \in N : lib[x] # Nil
    PROVE  Safe'
  <1>1. /\ Sound(mem, lib, trash, imported, req')
        /\ Sound(disk, lib, trash, imported, req')
    BY QuietSound DEF Safe
  <1>2. Sound(mem', lib, trash, imported, req')
    BY <1>1, DerivedSound
  <1>3. Held(trash, req')
    BY HoldersSame DEF Safe
  <1> QED BY <1>1, <1>2, <1>3 DEF Safe, FilesStay

LEMMA StillDerived == \A s : Derived(s, s, {})
  BY DEF Derived

LEMMA KeptSafe ==
    ASSUME Typed, Safe, NEW c \in Clients, NEW r, Waits(c, r), HoldsNothing(r),
           StoreKept, lib' = lib, trash' = trash
    PROVE  Safe'
  <1>1. mem' = mem /\ disk' = disk /\ FilesStay
    BY DEF StoreKept, vars, FilesStay
  <1>2. OnlyTab(c, req, req') /\ HoldsNothing(req'[c])
    BY WaitsOnly
  <1>3. Derived(mem, mem', {})
    BY <1>1, StillDerived
  <1> QED BY <1>1, <1>2, <1>3, QuietSafe

LEMMA IdleHoldsNothing == HoldsNothing(Idle)
  BY DEF HoldsNothing, Holds, Idle

\* A store call that ends a request, or that was all of it.
LEMMA CallSafe ==
    ASSUME Typed, Safe, NEW c \in Clients, NEW u, Stores(u), Derived(mem, u, {}),
           \/ Waits(c, Idle)
           \/ req' = req /\ req[c] = Idle
    PROVE  Safe'
  <1>1. mem' = u /\ disk' \in {u, disk} /\ FilesStay
    BY DEF Stores, StoreCall, Commit, files, FilesStay
  <1>2. OnlyTab(c, req, req') /\ HoldsNothing(req'[c])
    BY WaitsOnly, IdleHoldsNothing DEF OnlyTab
  <1> QED BY <1>1, <1>2, QuietSafe

\* A request that records what it holds.
LEMMA RecordSafe ==
    ASSUME Typed, Safe, NEW c \in Clients, HasSession(mem), NEW u, Stores(u), NEW d,
           Pushes(mem, u, d), Waits(c, Idle),
           \A x \in PhotoIDs :
              (Decides(d, x) /\ d.ops[x].newState = "trashed") =>
                 Holds(req[c], x, d.ops[x].trashTo)
    PROVE  Safe'
  <1>1. mem' = u /\ disk' \in {u, disk} /\ FilesStay
    BY DEF Stores, StoreCall, Commit, files, FilesStay
  <1>2. OnlyTab(c, req, req') /\ req'[c] = Idle
    BY WaitsOnly
  <1>3. Recorded(mem, u, d)
    BY PushesRecorded DEF Typed
  <1>4. Sound(u, lib, trash, imported, req')
    BY <1>2, <1>3, RecordedSound DEF Safe, OnlyTab
  <1>5. Sound(disk, lib, trash, imported, req')
    BY <1>2, IdleHoldsNothing, QuietSound DEF Safe
  <1>6. Held(trash, req')
    BY <1>2, IdleHoldsNothing, HoldersSame DEF Safe
  <1> QED BY <1>1, <1>4, <1>5, <1>6 DEF Safe, FilesStay

LEMMA SlotIsPath ==
    /\ \A x \in PhotoIDs : Own(x) \subseteq PhotoIDs \X Slots
    /\ \A x \in PhotoIDs, k \in Slots : <<x, k>> \in Own(x)
    /\ \A x, y : \A slot \in Own(x) : slot \in Own(y) => x = y
  BY DEF Own

\* A file goes to the trash, and into the hands of the request.
LEMMA MoveSafe ==
    ASSUME Typed, Safe, NEW c \in Clients, NEW id \in PhotoIDs, lib[id] # Nil,
           MoveToTrash(id), mem' = mem, disk' = disk, imported' = imported,
           OnlyTab(c, req, req'), req'[c].pc # "restore",
           \A x \in PhotoIDs : \A slot : Holds(req'[c], x, slot) =>
              Holds(req[c], x, slot) \/ (x = id /\ slot = UniqueDest(id))
    PROVE  Safe'
  <1> DEFINE dest == UniqueDest(id)
  <1>1. dest \in Own(id) /\ dest \in PhotoIDs \X Slots /\ trash[dest] = Nil
    BY UniqueDestIn, SlotIsPath DEF MoveToTrash
  <1>2. /\ lib' = [lib EXCEPT ![id] = Nil]
        /\ trash' = [trash EXCEPT ![dest] = lib[id]]
    BY DEF MoveToTrash
  <1> HIDE DEF dest
  <1>3. /\ \A x \in PhotoIDs : lib'[x] = IF x = id THEN Nil ELSE lib[x]
        /\ \A slot \in PhotoIDs \X Slots :
              trash'[slot] = IF slot = dest THEN lib[id] ELSE trash[slot]
    BY <1>1, <1>2 DEF Typed, FilesTyped
  <1>4. \A e \in Clients, x \in PhotoIDs : \A slot : Holds(req'[e], x, slot) =>
           Holds(req[e], x, slot) \/ (e = c /\ x = id /\ slot = dest)
    BY DEF OnlyTab, dest
  <1>5. \A x \in PhotoIDs : \A slot :
           InTrash(x, slot, trash, req) => InTrash(x, slot, trash', req')
    BY <1>1, <1>3, <1>4, SlotIsPath DEF InTrash
  <1>6. \A x \in PhotoIDs : Returning(req', x) => Returning(req, x)
    BY DEF Returning, OnlyTab
  <1>7. \A x \in PhotoIDs : GoneSound(x, lib, imported, req)
                               => GoneSound(x, lib', imported', req')
    BY <1>3, <1>6 DEF GoneSound
  <1>8. /\ Sound(mem, lib', trash', imported', req')
        /\ Sound(disk, lib', trash', imported', req')
    BY <1>5, <1>7, FrameSound DEF Safe
  <1>9. ASSUME NEW e \in Clients, NEW x \in PhotoIDs, NEW slot, Holds(req'[e], x, slot)
        PROVE  /\ slot \in Own(x) /\ trash'[slot] # Nil
               /\ \A d \in Clients : Holds(req'[d], x, slot) => d = e
    <2>1. CASE Holds(req[e], x, slot)
      <3>1. /\ slot \in Own(x) /\ trash[slot] # Nil
            /\ \A d \in Clients : Holds(req[d], x, slot) => d = e
        BY <2>1 DEF Safe, Held
      <3>2. slot # dest /\ slot \in PhotoIDs \X Slots
        BY <1>1, <3>1, SlotIsPath
      <3> QED BY <1>3, <1>4, <3>1, <3>2
    <2>2. CASE e = c /\ x = id /\ slot = dest
      <3>1. \A d \in Clients : ~Holds(req[d], id, dest)
        BY <1>1 DEF Safe, Held
      <3> QED BY <1>1, <1>3, <1>4, <2>2, <3>1
    <2> QED BY <1>4, <1>9, <2>1, <2>2
  <1>10. Numbered(lib', trash', imported')
    <2> SUFFICES ASSUME NEW x \in PhotoIDs
                 PROVE  /\ imported[x] \in Nat \ {0}
                        /\ lib'[x] # Nil => lib'[x] \in 1 .. imported[x]
                        /\ \A k \in Slots : trash'[<<x, k>>] # Nil =>
                              /\ trash'[<<x, k>>] \in 1 .. imported[x]
                              /\ trash'[<<x, k>>] # lib'[x]
                              /\ \A m \in Slots :
                                    trash'[<<x, m>>] = trash'[<<x, k>>] => m = k
      BY DEF Numbered
    <2>1. /\ imported[x] \in Nat \ {0}
          /\ lib[x] # Nil => lib[x] \in 1 .. imported[x]
          /\ \A k \in Slots : trash[<<x, k>>] # Nil =>
                /\ trash[<<x, k>>] \in 1 .. imported[x]
                /\ trash[<<x, k>>] # lib[x]
                /\ \A m \in Slots : trash[<<x, m>>] = trash[<<x, k>>] => m = k
      BY DEF Safe, Numbered
    <2>2. \A k \in Slots : trash'[<<x, k>>] =
             IF <<x, k>> = dest THEN lib[id] ELSE trash[<<x, k>>]
      BY <1>3
    <2>3. CASE x = id
      BY <1>3, <2>1, <2>2, <2>3
    <2>4. CASE x # id
      <3>1. \A k \in Slots : <<x, k>> # dest
        BY <1>1, <2>4, SlotIsPath
      <3> QED BY <1>3, <2>1, <2>2, <2>4, <3>1
    <2> QED BY <2>3, <2>4
  <1>11. Held(trash', req')
    BY <1>9 DEF Held
  <1> QED BY <1>8, <1>10, <1>11 DEF Safe

\* A file goes back to its path, out of the hands of the request.
LEMMA RestoreSafe ==
    ASSUME Typed, Safe, NEW c \in Clients, RestoreFile(c)
    PROVE  Safe'
  <1>1. /\ req[c].pc = "restore" /\ mem' = mem /\ disk' = disk
        /\ imported' = imported
    BY DEF RestoreFile, StoreKept, vars
  <1>2. PICK move \in req[c].todo :
           /\ RestoreFromTrash(move[1], move[2])
           /\ Waits(c, [req[c] EXCEPT !.todo = @ \ {move}])
    BY DEF RestoreFile
  <1>3. req[c] \in [pc: {"restore"}, todo: SUBSET (TrashPaths \X PhotoIDs),
                    byID: BOOLEAN, id: PhotoIDs]
    BY <1>1, Cards, RequestFields
  <1> DEFINE dest == move[1]
             id == move[2]
  <1>4. move = <<dest, id>> /\ id \in PhotoIDs /\ dest \in TrashPaths
    BY <1>2, <1>3
  <1>5. Holds(req[c], id, dest)
    BY <1>1, <1>2, <1>4 DEF Holds
  <1>6. /\ dest \in Own(id) /\ dest \in PhotoIDs \X Slots /\ trash[dest] # Nil
        /\ \A e \in Clients : Holds(req[e], id, dest) => e = c
    BY <1>4, <1>5, SlotIsPath DEF Safe, Held
  <1>7. \/ /\ lib' = [lib EXCEPT ![id] = trash[dest]]
           /\ trash' = [trash EXCEPT ![dest] = Nil]
        \/ lib' = lib /\ trash' = trash
    BY <1>2, <1>6 DEF RestoreFromTrash
  <1>8. OnlyTab(c, req, req') /\ req'[c] = [req[c] EXCEPT !.todo = @ \ {move}]
    BY <1>2, WaitsOnly
  <1>9. req'[c].pc = "restore" /\ req'[c].todo = req[c].todo \ {<<dest, id>>}
    BY <1>3, <1>4, <1>8
  <1> HIDE DEF dest, id
  <1>10. \/ /\ \A x \in PhotoIDs : lib'[x] = IF x = id THEN trash[dest] ELSE lib[x]
            /\ \A slot \in PhotoIDs \X Slots :
                  trash'[slot] = IF slot = dest THEN Nil ELSE trash[slot]
         \/ lib' = lib /\ trash' = trash
    BY <1>4, <1>6, <1>7 DEF Typed, FilesTyped
  <1>11. \A e \in Clients, x \in PhotoIDs : \A slot : Holds(req'[e], x, slot) =>
            Holds(req[e], x, slot) /\ (slot = dest => x # id)
    <2> SUFFICES ASSUME NEW e \in Clients, NEW x \in PhotoIDs, NEW slot,
                        Holds(req'[e], x, slot)
                 PROVE  Holds(req[e], x, slot) /\ (slot = dest => x # id)
      OBVIOUS
    <2>1. CASE e = c
      <3>1. <<slot, x>> \in req[c].todo \ {<<dest, id>>}
        BY <1>9, <2>1 DEF Holds
      <3> QED BY <1>1, <2>1, <3>1 DEF Holds
    <2>2. CASE e # c
      <3>1. req'[e] = req[e]
        BY <1>8, <2>2 DEF OnlyTab
      <3> QED BY <1>6, <2>2, <3>1
    <2> QED BY <2>1, <2>2
  <1>12. \A x \in PhotoIDs : \A slot :
            InTrash(x, slot, trash, req) => InTrash(x, slot, trash', req')
    <2> SUFFICES ASSUME NEW x \in PhotoIDs, NEW slot, InTrash(x, slot, trash, req)
                 PROVE  InTrash(x, slot, trash', req')
      OBVIOUS
    <2>1. slot # dest
      BY <1>5, <1>6, SlotIsPath DEF InTrash
    <2> QED BY <1>10, <1>11, <2>1, SlotIsPath DEF InTrash
  <1>13. \A x \in PhotoIDs : Returning(req', x) => Returning(req, x)
    BY <1>1, <1>8, <1>9 DEF Returning, OnlyTab
  <1>14. Returning(req, id)
    BY <1>1, <1>2, <1>4 DEF Returning
  <1>15. \A x \in PhotoIDs : GoneSound(x, lib, imported, req)
                                => GoneSound(x, lib', imported', req')
    BY <1>1, <1>10, <1>13, <1>14 DEF GoneSound
  <1>16. /\ Sound(mem, lib', trash', imported', req')
         /\ Sound(disk, lib', trash', imported', req')
    BY <1>1, <1>12, <1>15, FrameSound DEF Safe
  <1>17. Held(trash', req')
    <2> SUFFICES ASSUME NEW e \in Clients, NEW x \in PhotoIDs, NEW slot,
                        Holds(req'[e], x, slot)
                 PROVE  /\ slot \in Own(x) /\ trash'[slot] # Nil
                        /\ \A d \in Clients : Holds(req'[d], x, slot) => d = e
      BY DEF Held
    <2>1. /\ slot \in Own(x) /\ trash[slot] # Nil
          /\ \A d \in Clients : Holds(req[d], x, slot) => d = e
      BY <1>11 DEF Safe, Held
    <2>2. slot # dest
      BY <1>6, <1>11, <2>1, SlotIsPath
    <2> QED BY <1>10, <1>11, <2>1, <2>2, SlotIsPath
  <1>18. Numbered(lib', trash', imported')
    <2> SUFFICES ASSUME NEW x \in PhotoIDs
                 PROVE  /\ imported[x] \in Nat \ {0}
                        /\ lib'[x] # Nil => lib'[x] \in 1 .. imported[x]
                        /\ \A k \in Slots : trash'[<<x, k>>] # Nil =>
                              /\ trash'[<<x, k>>] \in 1 .. imported[x]
                              /\ trash'[<<x, k>>] # lib'[x]
                              /\ \A m \in Slots :
                                    trash'[<<x, m>>] = trash'[<<x, k>>] => m = k
      BY <1>1 DEF Numbered
    <2>1. /\ imported[x] \in Nat \ {0}
          /\ lib[x] # Nil => lib[x] \in 1 .. imported[x]
          /\ \A k \in Slots : trash[<<x, k>>] # Nil =>
                /\ trash[<<x, k>>] \in 1 .. imported[x]
                /\ trash[<<x, k>>] # lib[x]
                /\ \A m \in Slots : trash[<<x, m>>] = trash[<<x, k>>] => m = k
      BY DEF Safe, Numbered
    <2>2. CASE lib' = lib /\ trash' = trash
      BY <2>1, <2>2
    <2>3. CASE /\ \A y \in PhotoIDs : lib'[y] = IF y = id THEN trash[dest] ELSE lib[y]
               /\ \A slot \in PhotoIDs \X Slots :
                     trash'[slot] = IF slot = dest THEN Nil ELSE trash[slot]
      <3>1. \A k \in Slots : trash'[<<x, k>>] =
               IF <<x, k>> = dest THEN Nil ELSE trash[<<x, k>>]
        BY <2>3
      <3>2. CASE x = id
        <4>1. PICK m \in Slots : dest = <<x, m>>
          BY <1>6, <3>2 DEF Own
        <4> QED BY <1>6, <2>1, <2>3, <3>1, <3>2, <4>1
      <3>3. CASE x # id
        <4>1. \A k \in Slots : <<x, k>> # dest
          BY <1>6, <3>3, SlotIsPath
        <4> QED BY <2>1, <2>3, <3>1, <3>3, <4>1
      <3> QED BY <3>2, <3>3
    <2> QED BY <1>10, <2>2, <2>3
  <1> QED BY <1>1, <1>16, <1>17, <1>18 DEF Safe

LEMMA ImportSafe ==
    ASSUME Typed, Safe, NEW id \in PhotoIDs, Import(id)
    PROVE  Safe'
  <1>1. /\ mem' = mem /\ disk' = disk /\ trash' = trash /\ req' = req
        /\ lib[id] = Nil
    BY DEF Import, vars
  <1>2. \A x \in PhotoIDs :
           /\ lib'[x] = IF x = id THEN imported[id] + 1 ELSE lib[x]
           /\ imported'[x] = IF x = id THEN imported[id] + 1 ELSE imported[x]
           /\ imported[x] \in Nat \ {0}
    BY DEF Import, Typed, FilesTyped, Safe, Numbered
  <1>3. \A x \in PhotoIDs : imported[x] > 1 => imported'[x] > 1
    BY <1>2
  <1>4. \A x \in PhotoIDs : GoneSound(x, lib, imported, req)
                               => GoneSound(x, lib', imported', req')
    BY <1>1, <1>2 DEF GoneSound
  <1>5. /\ Sound(mem, lib', trash', imported', req')
        /\ Sound(disk, lib', trash', imported', req')
    BY <1>1, <1>3, <1>4, FrameSound DEF Safe
  <1>6. Numbered(lib', trash', imported')
    <2>1. \A x \in PhotoIDs, k \in Slots : trash[<<x, k>>] # Nil =>
             /\ trash[<<x, k>>] \in 1 .. imported[x]
             /\ trash[<<x, k>>] # lib[x]
             /\ \A m \in Slots : trash[<<x, m>>] = trash[<<x, k>>] => m = k
      BY DEF Safe, Numbered
    <2>2. \A x \in PhotoIDs : lib[x] # Nil => lib[x] \in 1 .. imported[x]
      BY DEF Safe, Numbered
    <2> QED BY <1>1, <1>2, <2>1, <2>2 DEF Numbered
  <1> QED BY <1>1, <1>5, <1>6 DEF Safe

\* Undo: what the entry moved goes from the store's keeping to the request, if
\* the store could be saved without the entry.
LEMMA UndoSafe ==
    ASSUME Typed, Safe, NEW c \in Clients, UndoEntry(c)
    PROVE  Safe'
  <1> DEFINE u == AfterUndo(mem)
             d == Last(mem.session.stack)
  <1>1. /\ req[c] = Idle /\ CanUndo(mem) /\ mem' = u /\ FilesStay
        /\ StoreType(mem)
    BY DEF UndoEntry, Asks, files, FilesStay, Typed
  <1>2. CASE Waits(c, Idle) /\ disk' = disk
    <2>1. OnlyTab(c, req, req') /\ req'[c] = Idle
      BY <1>2, WaitsOnly
    <2>2. HoldsNothing(req'[c])
      BY <2>1, IdleHoldsNothing
    <2>3. CASE UndoFails(mem)
      <3>1. Derived(mem, mem', {})
        BY <1>1, <2>3, UndoFailedDerived
      <3> QED BY <1>1, <1>2, <2>1, <2>2, <3>1, QuietSafe
    <2>4. CASE ~UndoFails(mem)
      <3>1. /\ \A e \in Clients, x \in PhotoIDs : \A slot :
                  Holds(req'[e], x, slot) => Holds(req[e], x, slot)
            /\ \A x \in PhotoIDs : Returning(req', x) => Returning(req, x)
        <4>1. \A e \in Clients, x \in PhotoIDs : \A slot :
                 Holds(req'[e], x, slot) => Holds(req[e], x, slot)
          BY <2>1, <2>2 DEF OnlyTab, HoldsNothing
        <4> QED BY <2>1, <2>2, <4>1, HoldersSame
      <3>2. Sound(u, lib, trash, imported, req')
        BY <1>1, <2>4, <3>1, UndoneSound DEF Safe
      <3>3. Sound(disk, lib, trash, imported, req') /\ Held(trash, req')
        BY <2>1, <2>2, QuietSound, HoldersSame DEF Safe
      <3> HIDE DEF u
      <3> QED BY <1>1, <1>2, <3>2, <3>3 DEF Safe, FilesStay
    <2> QED BY <2>3, <2>4
  <1>3. ASSUME ~UndoFails(mem), disk' = mem',
               NEW byID, NEW id, Waits(c, [pc |-> "restore", todo |-> Restores(d),
                                           byID |-> byID, id |-> id])
        PROVE  Safe'
    <2>1. /\ OnlyTab(c, req, req') /\ req'[c].pc = "restore"
          /\ req'[c].todo = Restores(d)
      BY <1>3, WaitsOnly
    <2> HIDE DEF d
    <2>2. \A e \in Clients, x \in PhotoIDs : \A slot : Holds(req'[e], x, slot) =>
             \/ e # c /\ Holds(req[e], x, slot)
             \/ e = c /\ <<slot, x>> \in Restores(d)
      BY <2>1 DEF OnlyTab, Holds
    <2>3. \A x \in PhotoIDs : Returning(req', x) =>
             Returning(req, x) \/ \E slot : <<slot, x>> \in Restores(d)
      BY <2>1 DEF OnlyTab, Returning
    <2>4. Sound(u, lib, trash, imported, req')
      BY <1>1, <1>3, <2>2, <2>3, UndoneSound DEF Safe, d
    <2>5. \A x \in PhotoIDs : \A slot : <<slot, x>> \in Restores(d) =>
             InTrash(x, slot, trash, req)
      <3> DEFINE top == Len(mem.session.stack)
      <3> SUFFICES ASSUME NEW x \in PhotoIDs, NEW slot, <<slot, x>> \in Restores(d)
                   PROVE  InTrash(x, slot, trash, req)
        OBVIOUS
      <3>1. Entry(mem, top) /\ mem.session.stack[top] = d
        BY <1>1, UndoneStack DEF d
      <3>2. Decides(d, x) /\ d.ops[x].newState = "trashed" /\ slot = d.ops[x].trashTo
        BY DEF Restores, Touched, Decides
      <3>3. Trashes(mem, top, x) /\ OpOf(mem, top, x) = d.ops[x]
        BY <3>1, <3>2 DEF Trashes, OpOf
      <3>4. EntrySound(mem, top, x, trash, imported, req)
        BY <3>3 DEF Safe, Sound
      <3> QED BY <3>2, <3>3, <3>4 DEF EntrySound
    <2>6. Held(trash, req')
      <3> SUFFICES ASSUME NEW e \in Clients, NEW x \in PhotoIDs, NEW slot,
                          Holds(req'[e], x, slot)
                   PROVE  /\ slot \in Own(x) /\ trash[slot] # Nil
                          /\ \A f \in Clients : Holds(req'[f], x, slot) => f = e
        BY DEF Held
      <3>1. CASE e = c
        <4>1. InTrash(x, slot, trash, req)
          BY <2>2, <2>5, <3>1
        <4> QED BY <2>2, <3>1, <4>1 DEF InTrash
      <3>2. CASE e # c
        <4>1. Holds(req[e], x, slot)
          BY <2>2, <3>2
        <4>2. /\ slot \in Own(x) /\ trash[slot] # Nil
              /\ \A f \in Clients : Holds(req[f], x, slot) => f = e
          BY <4>1 DEF Safe, Held
        <4>3. <<slot, x>> \notin Restores(d)
          BY <2>5, <4>1 DEF InTrash
        <4> QED BY <2>2, <4>2, <4>3
      <3> QED BY <3>1, <3>2
    <2> HIDE DEF u
    <2> QED BY <1>1, <1>3, <2>4, <2>6 DEF Safe, FilesStay
  <1> QED BY <1>2, <1>3 DEF UndoEntry

\* The process starts again: every request is gone, and with it what it held.
LEMMA RestartSafe ==
    ASSUME Typed, Safe, Restart
    PROVE  Safe'
  <1> DEFINE s == Opened(disk, now)
             u == Scanned(s)
  <1>1. /\ mem' = u /\ disk' \in {u, disk} /\ FilesStay
        /\ req' = [c \in Clients |-> Idle]
    BY DEF Restart, files, FilesStay
  <1>2. \A c \in Clients : req'[c] = Idle
    BY <1>1
  <1>3. /\ \A c \in Clients, x \in PhotoIDs : \A slot : ~Holds(req'[c], x, slot)
        /\ \A x \in PhotoIDs : ~Returning(req', x)
    <2>1. \A c \in Clients, x \in PhotoIDs : \A slot : ~Holds(req'[c], x, slot)
      BY <1>2, IdleHoldsNothing DEF HoldsNothing
    <2>2. \A c \in Clients : req'[c].pc # "restore"
      BY <1>2 DEF Idle
    <2>3. \A x \in PhotoIDs : ~Returning(req', x)
      BY <2>2 DEF Returning
    <2> QED BY <2>1, <2>3
  <1>4. Sound(disk, lib, trash, imported, req')
    <2>1. \A x \in PhotoIDs, slot \in TrashPaths :
             InTrash(x, slot, trash, req) => InTrash(x, slot, trash, req')
      BY <1>3 DEF InTrash
    <2>2. \A x \in PhotoIDs : GoneSound(x, lib, imported, req)
                                 => GoneSound(x, lib, imported, req')
      BY <1>3 DEF GoneSound
    <2> QED BY <2>1, <2>2, FrameSound DEF Safe
  <1>5. StoreType(disk) /\ StoreType(s) /\ Derived(disk, s, {})
    BY OpenedDerived DEF Typed
  <1>6. Sound(s, lib, trash, imported, req')
    BY <1>4, <1>5, DerivedSound
  <1> HIDE DEF s
  <1>7. Derived(s, u, InLibrary)
    BY <1>5, ScannedDerived
  <1>8. Sound(u, lib, trash, imported, req')
    <2>1. \A x \in InLibrary : lib[x] # Nil
      BY DEF InLibrary
    <2> HIDE DEF u
    <2> QED BY <1>6, <1>7, <2>1, DerivedSound
  <1>9. Held(trash, req')
    BY <1>3 DEF Held
  <1> HIDE DEF u
  <1> QED BY <1>1, <1>4, <1>8, <1>9 DEF Safe, FilesStay

\* A handler's first step, and the reads between two of them: the request it
\* leaves holds no file.
LEMMA AskSafe ==
    ASSUME Typed, Safe, NEW c \in Clients,
           \/ HomeStart(c) \/ ShowNext(c) \/ ClusterVanished(c)
           \/ \E keep : ResolveCluster(c, keep)
           \/ SkipMembers(c) \/ UndoDone(c) \/ Rescan(c)
    PROVE  Safe'
  <1> DEFINE pcs == {"idle", "start", "skip", "walk"}
  <1>1. \A r : r.pc \in pcs => HoldsNothing(r)
    BY DEF HoldsNothing, Holds
  <1> HIDE DEF pcs
  <1>2. Idle.pc \in pcs
    BY DEF Idle, pcs
  <1>3. CASE HomeStart(c)
    <2> DEFINE r == [pc |-> "start", target |-> AutoTarget(mem), mix |-> AutoMix(mem)]
    <2>1. r.pc \in pcs
      BY DEF pcs
    <2>2. Waits(c, r) /\ StoreKept /\ lib' = lib /\ trash' = trash
      BY <1>3 DEF HomeStart, files
    <2> HIDE DEF r
    <2> QED BY <1>1, <2>1, <2>2, KeptSafe
  <1>4. CASE ShowNext(c) \/ ClusterVanished(c) \/ UndoDone(c)
    <2>1. Waits(c, Idle) /\ StoreKept /\ lib' = lib /\ trash' = trash
      BY <1>4 DEF ShowNext, ClusterVanished, UndoDone, files
    <2> QED BY <2>1, IdleHoldsNothing, KeptSafe
  <1>5. ASSUME NEW keep, ResolveCluster(c, keep) PROVE Safe'
    <2> DEFINE members == Undecided(mem, Cluster(mem))
               kept == [newState |-> "kept", trashTo |-> Nil]
               ops == [x \in PhotoIDs |-> IF x \in members \cap keep THEN kept ELSE Nil]
               r == [pc |-> "members", id |-> page[c].cluster,
                     todo |-> members \ keep, ops |-> ops]
    <2>1. Waits(c, r) /\ StoreKept /\ lib' = lib /\ trash' = trash
      BY <1>5 DEF ResolveCluster, files
    <2>2. \A x \in PhotoIDs : ops[x] = Nil \/ ops[x].newState # "trashed"
      OBVIOUS
    <2> HIDE DEF ops, members
    <2>3. r.pc = "members" /\ r.ops = ops
      OBVIOUS
    <2> HIDE DEF r
    <2>4. HoldsNothing(r)
      BY <2>2, <2>3 DEF HoldsNothing, Holds
    <2> QED BY <2>1, <2>4, KeptSafe
  <1>6. CASE SkipMembers(c)
    <2> DEFINE r == [pc |-> "skip", id |-> page[c].cluster,
                     members |-> Undecided(mem, Cluster(mem))]
    <2>1. r.pc \in pcs
      BY DEF pcs
    <2>2. Waits(c, r) /\ StoreKept /\ lib' = lib /\ trash' = trash
      BY <1>6 DEF SkipMembers, files
    <2> HIDE DEF r
    <2> QED BY <1>1, <2>1, <2>2, KeptSafe
  <1>7. CASE Rescan(c)
    <2> DEFINE r == [pc |-> "walk", todo |-> InLibrary, seen |-> {}]
    <2>1. r.pc \in pcs
      BY DEF pcs
    <2>2. Waits(c, r) /\ StoreKept /\ lib' = lib /\ trash' = trash
      BY <1>7 DEF Rescan, files
    <2> HIDE DEF r
    <2> QED BY <1>1, <2>1, <2>2, KeptSafe
  <1> QED BY <1>3, <1>4, <1>5, <1>6, <1>7

\* The calls that change no photo.
LEMMA SessionSafe ==
    ASSUME Typed, Safe, NEW c \in Clients,
           \/ StartSession(c) \/ End(c)
           \/ \E delta \in Batches : Extend(c, delta)
           \/ \E ns \in SettingsChoices : SaveSettings(c, ns)
    PROVE  Safe'
  <1>0. req[c] \in Request /\ StoreType(mem) /\ now \in Nat
    BY Cards
  <1>1. CASE StartSession(c)
    <2> DEFINE u == AfterStartSession(mem, req[c].target, req[c].mix, now)
    <2>1. req[c].target \in Nat /\ req[c].mix \in Mixes
      BY <1>0, <1>1, RequestFields DEF StartSession
    <2>2. Derived(mem, u, {})
      BY <1>0, <2>1, StartDerived
    <2>3. Stores(u) /\ Waits(c, Idle)
      BY <1>1 DEF StartSession, Answers
    <2> HIDE DEF u
    <2> QED BY <2>2, <2>3, CallSafe
  <1>2. CASE End(c)
    <2> DEFINE u == AfterEndSession(mem)
    <2>1. Derived(mem, u, {})
      BY <1>0, EndDerived
    <2>2. Stores(u) /\ req' = req /\ req[c] = Idle
      BY <1>2 DEF End, Asks
    <2> HIDE DEF u
    <2> QED BY <2>1, <2>2, CallSafe
  <1>3. ASSUME NEW delta \in Batches, Extend(c, delta) PROVE Safe'
    <2> DEFINE u == AfterSessionExtend(mem, delta)
    <2>1. Derived(mem, u, {})
      BY <1>0, <1>3, ExtendDerived DEF Extend
    <2>2. Stores(u) /\ Waits(c, Idle)
      BY <1>3 DEF Extend, Answers
    <2> HIDE DEF u
    <2> QED BY <2>1, <2>2, CallSafe
  <1>4. ASSUME NEW ns \in SettingsChoices, SaveSettings(c, ns) PROVE Safe'
    <2> DEFINE u == AfterUpdateSettings(mem, ns)
    <2>1. Derived(mem, u, {})
      BY <1>0, SettingsDerived
    <2>2. Stores(u) /\ req' = req /\ req[c] = Idle
      BY <1>4 DEF SaveSettings, Asks
    <2> HIDE DEF u
    <2> QED BY <2>1, <2>2, CallSafe
  <1> QED BY <1>1, <1>2, <1>3, <1>4

\* The calls that record a decision or a skip.
LEMMA DecisionSafe ==
    ASSUME Typed, Safe, NEW c \in Clients,
           \/ \E id \in PhotoIDs : Keep(c, id) \/ SkipPhoto(c, id)
           \/ RecordTrash(c) \/ RecordCluster(c) \/ RecordClusterSkip(c)
    PROVE  Safe'
  <1>0. req[c] \in Request /\ StoreType(mem) /\ now \in 0 .. MaxNow
    BY Cards
  <1>1. ASSUME NEW id \in PhotoIDs, Keep(c, id) PROVE Safe'
    <2> DEFINE u == AfterRecordDecision(mem, id, "kept", Nil, now)
    <2>1. CanDecide(mem, id) /\ HasSession(mem) /\ Stores(u) /\ Waits(c, Idle)
      BY <1>1 DEF Keep, CanDecide, Answers
    <2>2. PICK d : /\ Pushes(mem, u, d)
                   /\ \A x \in PhotoIDs : Decides(d, x) => d.ops[x].newState = "kept"
      BY <2>1, KeepEntry
    <2> HIDE DEF u
    <2> QED BY <2>1, <2>2, RecordSafe
  <1>2. ASSUME NEW id \in PhotoIDs, SkipPhoto(c, id) PROVE Safe'
    <2> DEFINE u == AfterRecordSkip(mem, id, now)
    <2>1. CanDecide(mem, id) /\ HasSession(mem) /\ Stores(u) /\ Waits(c, Idle)
      BY <1>2 DEF SkipPhoto, CanDecide, Answers
    <2>2. PICK d : Pushes(mem, u, d) /\ \A x : ~Decides(d, x)
      BY <1>0, <2>1, RecordSkipEntry
    <2> HIDE DEF u
    <2> QED BY <2>1, <2>2, RecordSafe
  <1>3. CASE RecordTrash(c)
    <2> DEFINE id == req[c].id
               slot == req[c].slot
               u == AfterRecordDecision(mem, id, "trashed", slot, now)
    <2>1. id \in PhotoIDs /\ slot \in TrashPaths /\ req[c].pc = "record"
      BY <1>0, <1>3, RequestFields DEF RecordTrash
    <2>2. CASE CanDecide(mem, id)
      <3>1. HasSession(mem) /\ Stores(u) /\ Waits(c, Idle)
        BY <1>3, <2>2 DEF RecordTrash, CanDecide, Answers
      <3>2. PICK d : /\ Pushes(mem, u, d)
                     /\ \A x \in PhotoIDs : Decides(d, x) =>
                           x = id /\ d.ops[x].trashTo = slot
        BY <2>1, <2>2, TrashEntry
      <3>3. Holds(req[c], id, slot)
        BY <2>1 DEF Holds
      <3> HIDE DEF u, id, slot
      <3> QED BY <3>1, <3>2, <3>3, RecordSafe
    <2>3. CASE ~CanDecide(mem, id)
      <3>1. StoreKept /\ Waits(c, Idle) /\ lib' = lib /\ trash' = trash
        BY <1>3, <2>3 DEF RecordTrash, Errs, files
      <3> QED BY <3>1, IdleHoldsNothing, KeptSafe
    <2> QED BY <2>2, <2>3
  <1>4. CASE RecordCluster(c)
    <2> DEFINE ops == req[c].ops
               u == AfterRecordClusterDecision(mem, req[c].id, ops, now)
    <2>1. req[c].pc = "members" /\ req[c].id \in PhotoIDs /\ ops \in ClusterRequests
      BY <1>0, <1>4, RequestFields DEF RecordCluster
    <2>2. CASE Requested(ops) # {} /\ CanDecideCluster(mem, ops)
      <3>1. HasSession(mem) /\ Stores(u) /\ Waits(c, Idle)
        BY <1>4, <2>2 DEF RecordCluster, CanDecideCluster
      <3>2. PICK d : /\ Pushes(mem, u, d)
                     /\ \A x \in PhotoIDs : Decides(d, x) =>
                           /\ ops[x] # Nil
                           /\ d.ops[x].newState = ops[x].newState
                           /\ d.ops[x].trashTo = ops[x].trashTo
        BY <1>0, <2>1, <2>2, RecordClusterDecisionEntry
      <3>3. \A x \in PhotoIDs : (Decides(d, x) /\ d.ops[x].newState = "trashed") =>
               Holds(req[c], x, d.ops[x].trashTo)
        BY <2>1, <3>2 DEF Holds
      <3> HIDE DEF u, ops
      <3> QED BY <3>1, <3>2, <3>3, RecordSafe
    <2>3. CASE ~(Requested(ops) # {} /\ CanDecideCluster(mem, ops))
      <3>1. StoreKept /\ Waits(c, Idle) /\ lib' = lib /\ trash' = trash
        BY <1>4, <2>3 DEF RecordCluster, files
      <3> QED BY <3>1, IdleHoldsNothing, KeptSafe
    <2> QED BY <2>2, <2>3
  <1>5. CASE RecordClusterSkip(c)
    <2>1. req[c].id \in PhotoIDs /\ Waits(c, Idle)
      BY <1>0, <1>5, RequestFields DEF RecordClusterSkip
    <2>2. CASE HasSession(mem)
      <3>1. PICK ids \in MemberLists :
               Stores(AfterSkipCluster(mem, req[c].id, ids, now))
        BY <1>5, <2>2 DEF RecordClusterSkip
      <3>2. PICK d : /\ Pushes(mem, AfterSkipCluster(mem, req[c].id, ids, now), d)
                     /\ \A x : ~Decides(d, x)
        <4>1. ids \in Seq(PhotoIDs)
          BY DEF MemberLists
        <4> QED BY <1>0, <2>1, <2>2, <4>1, SkipClusterEntry
      <3> QED BY <2>1, <2>2, <3>1, <3>2, RecordSafe
    <2>3. CASE ~HasSession(mem)
      <3>1. StoreKept /\ lib' = lib /\ trash' = trash
        BY <1>5, <2>3 DEF RecordClusterSkip, files
      <3> QED BY <2>1, <3>1, IdleHoldsNothing, KeptSafe
    <2> QED BY <2>2, <2>3
  <1> QED BY <1>1, <1>2, <1>3, <1>4, <1>5

\* The steps of the handlers that move a file to the trash.
LEMMA TrashSafe ==
    ASSUME Typed, Safe, NEW c \in Clients, NEW id \in PhotoIDs,
           TrashFile(c, id) \/ TrashMember(c, id)
    PROVE  Safe'
  <1>1. mem' = mem /\ disk' = disk /\ imported' = imported
    BY DEF TrashFile, TrashMember, StoreKept, vars
  <1>2. CASE TrashFile(c, id)
    <2> DEFINE r == [pc |-> "record", id |-> id, slot |-> UniqueDest(id)]
    <2>1. lib[id] # Nil /\ MoveToTrash(id) /\ Waits(c, r)
      BY <1>2 DEF TrashFile
    <2>2. OnlyTab(c, req, req') /\ req'[c] = r
      BY <2>1, WaitsOnly
    <2>3. \A x : \A slot : Holds(r, x, slot) => x = id /\ slot = UniqueDest(id)
      BY DEF Holds
    <2>4. r.pc # "restore"
      OBVIOUS
    <2> HIDE DEF r
    <2> QED BY <1>1, <2>1, <2>2, <2>3, <2>4, MoveSafe
  <1>3. CASE TrashMember(c, id)
    <2>1. req[c] \in [pc: {"members"}, id: PhotoIDs, todo: SUBSET PhotoIDs,
                      ops: ClusterRequests]
      BY <1>3, Cards, RequestFields DEF TrashMember
    <2>2. CASE MovesMember(c, id)
      <3> DEFINE op == [newState |-> "trashed", trashTo |-> UniqueDest(id)]
                 r == [req[c] EXCEPT !.todo = @ \ {id}, !.ops[id] = op]
      <3>1. lib[id] # Nil /\ MoveToTrash(id) /\ Waits(c, r)
        BY <2>2 DEF MovesMember
      <3>2. OnlyTab(c, req, req') /\ req'[c] = r
        BY <3>1, WaitsOnly
      <3>3. op.trashTo = UniqueDest(id)
        OBVIOUS
      <3> HIDE DEF op
      <3>4. /\ r.pc = "members" /\ req[c].pc = "members"
            /\ \A x \in PhotoIDs : r.ops[x] = IF x = id THEN op ELSE req[c].ops[x]
        BY <2>1 DEF ClusterRequests
      <3> HIDE DEF r
      <3>5. \A x \in PhotoIDs : \A slot : Holds(r, x, slot) =>
               Holds(req[c], x, slot) \/ (x = id /\ slot = UniqueDest(id))
        BY <3>3, <3>4 DEF Holds
      <3>6. r.pc # "restore"
        BY <3>4
      <3> QED BY <1>1, <3>1, <3>2, <3>5, <3>6, MoveSafe
    <2>3. CASE LeavesMember(c, id)
      <3> DEFINE r == [req[c] EXCEPT !.todo = @ \ {id}]
      <3>1. Waits(c, r) /\ lib' = lib /\ trash' = trash
        BY <2>3 DEF LeavesMember, files
      <3>2. OnlyTab(c, req, req') /\ req'[c] = r
        BY <3>1, WaitsOnly
      <3>3. r.pc = "members" /\ req[c].pc = "members" /\ r.ops = req[c].ops
        BY <2>1
      <3> HIDE DEF r
      <3>4. \A e \in Clients, x \in PhotoIDs : \A slot :
               Holds(req'[e], x, slot) <=> Holds(req[e], x, slot)
        <4>1. \A x : \A slot : Holds(r, x, slot) <=> Holds(req[c], x, slot)
          BY <3>3 DEF Holds
        <4> QED BY <3>2, <4>1 DEF OnlyTab
      <3>5. \A x \in PhotoIDs : Returning(req', x) => Returning(req, x)
        BY <3>2, <3>3 DEF Returning, OnlyTab
      <3>6. /\ Sound(mem, lib, trash, imported, req')
            /\ Sound(disk, lib, trash, imported, req')
        <4>1. \A x \in PhotoIDs, slot \in TrashPaths :
                 InTrash(x, slot, trash, req) => InTrash(x, slot, trash, req')
          BY <3>4 DEF InTrash
        <4>2. \A x \in PhotoIDs : GoneSound(x, lib, imported, req)
                                     => GoneSound(x, lib, imported, req')
          BY <3>5 DEF GoneSound
        <4> QED BY <4>1, <4>2, FrameSound DEF Safe
      <3>7. Held(trash, req')
        BY <3>4 DEF Safe, Held
      <3> QED BY <1>1, <3>1, <3>6, <3>7 DEF Safe
    <2> QED BY <1>3, <2>2, <2>3 DEF TrashMember, MovesMember, LeavesMember
  <1> QED BY <1>2, <1>3

\* The steps of a scan.
LEMMA ScanSafe ==
    ASSUME Typed, Safe, NEW c \in Clients,
           Prune(c) \/ \E id \in PhotoIDs : Visit(c, id)
    PROVE  Safe'
  <1>0. StoreType(mem)
    BY DEF Typed
  <1>1. CASE Prune(c)
    <2> DEFINE u == AfterForgetMissing(mem, req[c].seen)
    <2>1. Derived(mem, u, {}) /\ Derived(mem, mem, {})
      BY <1>0, ForgetDerived, StillDerived
    <2>2. /\ Waits(c, Idle) /\ FilesStay
          /\ \/ mem' = u /\ disk' \in {u, disk}
             \/ mem' = mem /\ disk' = disk
      BY <1>1 DEF Prune, Commit, files, FilesStay
    <2>3. OnlyTab(c, req, req') /\ HoldsNothing(req'[c])
      BY <2>2, WaitsOnly, IdleHoldsNothing
    <2> HIDE DEF u
    <2>4. Derived(mem, mem', {}) /\ disk' \in {mem', disk}
      BY <2>1, <2>2
    <2> QED BY <2>2, <2>3, <2>4, QuietSafe
  <1>2. ASSUME NEW id \in PhotoIDs, Visit(c, id) PROVE Safe'
    <2>1. req[c] \in [pc: {"walk"}, todo: SUBSET PhotoIDs, seen: SUBSET PhotoIDs]
      BY <1>2, Cards, RequestFields DEF Visit
    <2> DEFINE r == [req[c] EXCEPT !.todo = @ \ {id}, !.seen = @ \cup {id}]
    <2>2. Waits(c, r) \/ Waits(c, Idle)
      BY <1>2 DEF Visit
    <2>3. r.pc = "walk"
      BY <2>1
    <2> HIDE DEF r
    <2>4. HoldsNothing(r)
      BY <2>3 DEF HoldsNothing, Holds
    <2>5. OnlyTab(c, req, req') /\ HoldsNothing(req'[c])
      BY <2>2, <2>4, WaitsOnly, IdleHoldsNothing
    <2>6. CASE lib[id] # Nil
      <3> DEFINE u == AfterUpsertPhoto(mem, id)
      <3>1. Derived(mem, u, {id})
        BY <1>0, UpsertDerived
      <3>2. mem' = u /\ disk' \in {mem', disk} /\ FilesStay
        BY <1>2, <2>6 DEF Visit, UpsertPhoto, files, FilesStay
      <3> HIDE DEF u
      <3>3. \A x \in {id} : lib[x] # Nil
        BY <2>6
      <3> QED BY <2>5, <3>1, <3>2, <3>3, QuietSafe
    <2>7. CASE lib[id] = Nil
      <3>1. mem' = mem /\ disk' = disk /\ FilesStay
        BY <1>2, <2>7 DEF Visit, StoreKept, vars, files, FilesStay
      <3>2. Derived(mem, mem', {})
        BY <3>1, StillDerived
      <3> QED BY <2>5, <3>1, <3>2, QuietSafe
    <2> QED BY <2>6, <2>7
  <1> QED BY <1>1, <1>2

LEMMA ServiceInitSafe == ServiceInit => Safe
  <1> SUFFICES ASSUME ServiceInit PROVE Safe
    OBVIOUS
  <1>1. PICK f \in StateFiles : mem = Scanned(Opened(f, now)) /\ disk = mem
    BY DEF ServiceInit
  <1>2. /\ \A id \in PhotoIDs : lib[id] = 1 /\ imported[id] = 1
        /\ \A slot \in PhotoIDs \X Slots : trash[slot] = Nil
        /\ \A c \in Clients : req[c] = Idle
    BY DEF ServiceInit
  <1> DEFINE s == Opened(f, now)
  <1>3. Sound(f, lib, trash, imported, req)
    <2>1. \A x \in PhotoIDs : ~Remembers(f, x) /\ \A i : ~Trashes(f, i, x)
      BY FirstFileAssumption DEF Remembers, Trashes, FromTrash, Entry, OpOf
    <2> QED BY <2>1 DEF Sound
  <1>4. StoreType(f)
    BY StateFilesAssumption DEF FileOK
  <1>5. StoreType(s) /\ Derived(f, s, {})
    BY <1>4, OpenedDerived
  <1>6. Sound(s, lib, trash, imported, req)
    BY <1>3, <1>5, DerivedSound
  <1> HIDE DEF s
  <1>7. Derived(s, Scanned(s), InLibrary)
    BY <1>5, ScannedDerived
  <1>8. \A x \in InLibrary : lib[x] # Nil
    BY DEF InLibrary
  <1>9. Sound(Scanned(s), lib, trash, imported, req)
    BY <1>6, <1>7, <1>8, DerivedSound
  <1>10. Held(trash, req)
    BY <1>2, IdleHoldsNothing DEF Held, HoldsNothing
  <1>11. Numbered(lib, trash, imported)
    BY <1>2 DEF Numbered
  <1> QED BY <1>1, <1>9, <1>10, <1>11 DEF Safe, s

LEMMA ServiceNextSafe ==
    ASSUME ~PutsBack, Typed, Safe, [ServiceNext]_serviceVars
    PROVE  Safe'
  <1>1. ASSUME NEW c \in Clients, Handle(c) PROVE Safe'
    BY <1>1, AskSafe, SessionSafe, DecisionSafe, TrashSafe, ScanSafe, UndoSafe,
       RestoreSafe DEF Handle
  <1>2. ASSUME NEW id \in PhotoIDs, Index(id) PROVE Safe'
    BY <1>2 DEF Index, Safe, vars, files
  <1>3. CASE UNCHANGED serviceVars
    BY <1>3 DEF serviceVars, vars, files, Safe
  <1>4. \A id \in PhotoIDs, k \in Slots : ~PutBack(id, k)
    BY DEF PutBack
  <1> QED BY <1>1, <1>2, <1>3, <1>4, ImportSafe, RestartSafe DEF ServiceNext

LEMMA SafeFiles ==
    ASSUME Typed, Safe
    PROVE  TrashedHasFile /\ UndoCanRestore
  <1>1. \A s \in {mem, disk} : Sound(s, lib, trash, imported, req)
    BY DEF Safe
  <1>2. TrashedHasFile
    <2> SUFFICES ASSUME NEW s \in {mem, disk}, NEW id \in PhotoIDs, IsTrashed(s, id)
                 PROVE  LET path == s.photos[id].trashedPath
                        IN  IF path = Nil THEN imported[id] > 1 ELSE trash[path] # Nil
      BY DEF TrashedHasFile
    <2>1. Known(s, id) /\ Remembers(s, id)
      BY DEF IsTrashed, Remembers
    <2>2. PathSound(s, id, trash, imported, req)
      BY <1>1, <2>1 DEF Sound
    <2> QED BY <2>2 DEF PathSound, InTrash
  <1>3. UndoCanRestore
    <2> SUFFICES ASSUME NEW s \in {mem, disk}, HasSession(s),
                        NEW i \in DOMAIN s.session.stack,
                        NEW move \in Restores(s.session.stack[i])
                 PROVE  trash[move[1]] # Nil
      BY DEF UndoCanRestore
    <2> DEFINE d == s.session.stack[i]
    <2>1. PICK x \in Touched(d) :
             /\ Decides(d, x) /\ d.ops[x].newState = "trashed"
             /\ move = <<d.ops[x].trashTo, x>>
      BY DEF Restores
    <2>2. x \in PhotoIDs
      BY DEF Touched
    <2>3. Trashes(s, i, x) /\ OpOf(s, i, x) = d.ops[x]
      BY <2>1 DEF Trashes, Entry, OpOf
    <2> HIDE DEF d
    <2>4. EntrySound(s, i, x, trash, imported, req)
      BY <1>1, <2>2, <2>3 DEF Sound
    <2>5. move[1] = d.ops[x].trashTo
      BY <2>1
    <2> QED BY <2>3, <2>4, <2>5 DEF EntrySound, InTrash
  <1> QED BY <1>2, <1>3

LEMMA AlwaysSafe ==
    ASSUME ~PutsBack
    PROVE  ServiceSpec => [](Typed /\ Safe)
  <1>1. ServiceInit => Typed /\ Safe
    BY ServiceInitTyped, ServiceInitSafe
  <1>2. (Typed /\ Safe) /\ [ServiceNext]_serviceVars => (Typed /\ Safe)'
    BY ServiceNextTyped, ServiceNextSafe
  <1> QED BY <1>1, <1>2, PTL DEF ServiceSpec

\* The trash file that memory or the state file records for a trashed photo is
\* there (TrashedHasFile), in every interleaving of any number of tabs, after
\* every crash and failed save: handlers move a file before they record it, and
\* bring it back after they have un-recorded it and saved (handlers.go:421-501).
\* Only the user's own hands in the trash directory are excluded.
THEOREM TrashedKeepsFile ==
    ASSUME ~PutsBack
    PROVE  ServiceSpec => []TrashedHasFile
  BY AlwaysSafe, SafeFiles, PTL

\* Every file move that an undo on the stack of memory or of the state file will
\* take back can be taken back (UndoCanRestore): no other tab's undo, restore or
\* decision, and no restart, takes that file or that name away first.
THEOREM UndoFindsFile ==
    ASSUME ~PutsBack
    PROVE  ServiceSpec => []UndoCanRestore
  BY AlwaysSafe, SafeFiles, PTL
-----------------------------------------------------------------------------
(***************************************************************************)
(* No file in the trash is forgotten, as long as one tab is alone with a   *)
(* process that neither dies nor fails to save, and keeps its batch: then  *)
(* a photo is trashed exactly while an entry of the stack can bring it     *)
(* back, and no later entry touches it.                                    *)
(***************************************************************************)
Alone ==
    /\ \A c, d \in Clients : c = d
    /\ ~Crashes /\ ~SavesMayFail
    /\ "end" \notin Routes

\* The entry d leaves x alone, and its undo would not show x.
Spares(d, x) == ~Decides(d, x) /\ (d.kind = "skip" => d.photo # x)

\* What is trashed was trashed by an entry that is there, the last about it.
Stands(s) ==
    \A x \in PhotoIDs :
        /\ \A i : ~FromTrash(s, i, x)
        /\ \A i : Trashes(s, i, x) =>
              /\ IsTrashed(s, x)
              /\ \A j : (Entry(s, j) /\ j > i) => Spares(s.session.stack[j], x)
        /\ IsTrashed(s, x) => \E i : Trashes(s, i, x)

InPlay(s, x) == HasSession(s) /\ Known(s, x) /\ ~IsTrashed(s, x)

\* A page is shown in a session, and a card's photo is not in the trash.
PageLive(p, s) ==
    /\ p.cluster # Nil => HasSession(s)
    /\ p.cluster = Nil => \A x \in p.photos : HasSession(s) /\ ~IsTrashed(s, x)

\* What a request is about to do can be done.
RequestLive(r, s) ==
    /\ r.pc = "start" => ~HasSession(s)
    /\ r.pc = "record" => InPlay(s, r.id)
    /\ r.pc = "members" =>
          /\ HasSession(s)
          /\ \A x \in PhotoIDs : (x \in r.todo \/ r.ops[x] # Nil) => InPlay(s, x)
          /\ \A x \in r.todo : r.ops[x] = Nil
    /\ r.pc = "restore" => HasSession(s) /\ (~r.byID => ~IsTrashed(s, r.id))

\* The entry i of s can bring the file of x at slot back.
Brings(s, i, x, slot) == Trashes(s, i, x) /\ OpOf(s, i, x).trashTo = slot

\* lost are the files whose restore failed.
Tracked(s, T, R, lost) ==
    \A x \in PhotoIDs : \A k \in Slots : T[<<x, k>>] # Nil =>
        \/ \E i : Brings(s, i, x, <<x, k>>)
        \/ \E c \in Clients : Holds(R[c], x, <<x, k>>)
        \/ <<x, k>> \in lost

Minded ==
    /\ Typed /\ FifoOK(mem) /\ Stands(mem)
    /\ \A c \in Clients : PageLive(page[c], mem) /\ RequestLive(req[c], mem)
    /\ Tracked(mem, trash, req, stranded)

\* Calls that leave the stack alone, and which photos are trashed.
SameTrash(s, u) ==
    /\ HasSession(u) <=> HasSession(s)
    /\ HasSession(s) => u.session.stack = s.session.stack
    /\ \A x \in PhotoIDs : IsTrashed(u, x) <=> IsTrashed(s, x)

LEMMA SameStands ==
    ASSUME NEW s, NEW u, SameTrash(s, u), Stands(s)
    PROVE  /\ Stands(u)
           /\ \A x \in PhotoIDs : \A i, slot : Brings(s, i, x, slot) => Brings(u, i, x, slot)
  <1>1. \A i : Entry(u, i) <=> Entry(s, i)
    BY DEF SameTrash, Entry
  <1>2. \A i : Entry(s, i) => u.session.stack[i] = s.session.stack[i]
    BY DEF SameTrash, Entry
  <1>3. \A x \in PhotoIDs : \A i :
           /\ Trashes(u, i, x) <=> Trashes(s, i, x)
           /\ FromTrash(u, i, x) <=> FromTrash(s, i, x)
           /\ Entry(s, i) => OpOf(u, i, x) = OpOf(s, i, x)
    BY <1>1, <1>2 DEF Trashes, FromTrash, OpOf
  <1>4. \A x \in PhotoIDs : IsTrashed(u, x) <=> IsTrashed(s, x)
    BY DEF SameTrash
  <1>5. Stands(u)
    BY <1>1, <1>2, <1>3, <1>4 DEF Stands
  <1> QED BY <1>3, <1>5 DEF Brings, Trashes

\* A batch begins where none was, and nothing is in the trash.
LEMMA StartStands ==
    ASSUME NEW s, NEW u, ~HasSession(s), Stands(s), u.photos = s.photos,
           u.session.stack = <<>>
    PROVE  Stands(u) /\ \A x \in PhotoIDs : ~IsTrashed(u, x)
  <1>1. \A x \in PhotoIDs : ~IsTrashed(s, x)
    BY DEF Stands, Trashes, Entry
  <1>2. \A x \in PhotoIDs : ~IsTrashed(u, x)
    BY <1>1 DEF IsTrashed, Known
  <1>3. \A i : ~Entry(u, i)
    <2>1. DOMAIN <<>> = {}
      OBVIOUS
    <2> QED BY <2>1 DEF Entry
  <1> QED BY <1>2, <1>3 DEF Stands, Trashes, FromTrash

\* An entry about photos that are not trashed is recorded.
LEMMA PushStands ==
    ASSUME NEW s, NEW u, NEW d, Recorded(s, u, d), HasSession(u), Stands(s),
           \A x \in PhotoIDs : IsTrashed(s, x) => Spares(d, x)
    PROVE  /\ Stands(u)
           /\ \A x \in PhotoIDs : \A i, slot :
                 Brings(s, i, x, slot) => Brings(u, i, x, slot)
           /\ \A x \in PhotoIDs :
                 (Decides(d, x) /\ d.ops[x].newState = "trashed") =>
                    \E i : Brings(u, i, x, d.ops[x].trashTo)
           /\ \A x \in PhotoIDs : IsTrashed(u, x) =>
                 \/ IsTrashed(s, x)
                 \/ Decides(d, x) /\ d.ops[x].newState = "trashed"
  <1> DEFINE q == s.session.stack
             top == Len(q) + 1
  <1>1. q \in Seq(Decision) /\ HasSession(s) /\ u.session.stack = Append(q, d)
    BY DEF Recorded
  <1>2. /\ Len(q) \in Nat
        /\ \A i : Entry(s, i) <=> i \in 1 .. Len(q)
        /\ \A i : Entry(u, i) <=> i \in 1 .. top
        /\ \A i \in 1 .. Len(q) : u.session.stack[i] = q[i]
        /\ u.session.stack[top] = d
    BY <1>1 DEF Entry
  <1> HIDE DEF q, top
  <1>3. ASSUME NEW x \in PhotoIDs
        PROVE  /\ \A i \in 1 .. Len(q) :
                     /\ Trashes(u, i, x) <=> Trashes(s, i, x)
                     /\ FromTrash(u, i, x) <=> FromTrash(s, i, x)
                     /\ OpOf(u, i, x) = OpOf(s, i, x)
               /\ Trashes(u, top, x) <=> Decides(d, x) /\ d.ops[x].newState = "trashed"
               /\ FromTrash(u, top, x) <=> Decides(d, x) /\ d.ops[x].prevState = "trashed"
               /\ OpOf(u, top, x) = d.ops[x]
    <2>1. \A i \in 1 .. Len(q) :
             /\ Entry(s, i) /\ Entry(u, i)
             /\ u.session.stack[i] = s.session.stack[i]
      BY <1>2 DEF q, top
    <2>2. Entry(u, top) /\ u.session.stack[top] = d
      BY <1>2 DEF top
    <2> HIDE DEF top
    <2> QED BY <2>1, <2>2 DEF Trashes, FromTrash, OpOf
  <1>4. ASSUME NEW x \in PhotoIDs
        PROVE  IF Decides(d, x)
               THEN /\ Known(s, x) /\ Known(u, x)
                    /\ d.ops[x].prevState = s.photos[x].state
                    /\ d.ops[x].newState = u.photos[x].state
               ELSE u.photos[x] = s.photos[x]
    BY DEF Recorded
  <1>5. \A x \in PhotoIDs : \A i, slot : Brings(s, i, x, slot) => Brings(u, i, x, slot)
    BY <1>2, <1>3 DEF Brings, Trashes
  <1>6. \A x \in PhotoIDs :
           (Decides(d, x) /\ d.ops[x].newState = "trashed") =>
              \E i : Brings(u, i, x, d.ops[x].trashTo)
    BY <1>3 DEF Brings
  <1>7. \A x \in PhotoIDs : IsTrashed(u, x) =>
           \/ IsTrashed(s, x)
           \/ Decides(d, x) /\ d.ops[x].newState = "trashed"
    BY <1>4 DEF IsTrashed, Known
  <1>8. Stands(u)
    <2> SUFFICES ASSUME NEW x \in PhotoIDs
                 PROVE  /\ \A i : ~FromTrash(u, i, x)
                        /\ \A i : Trashes(u, i, x) =>
                              /\ IsTrashed(u, x)
                              /\ \A j : (Entry(u, j) /\ j > i) =>
                                    Spares(u.session.stack[j], x)
                        /\ IsTrashed(u, x) => \E i : Trashes(u, i, x)
      BY DEF Stands
    <2>1. /\ \A i : ~FromTrash(s, i, x)
          /\ \A i : Trashes(s, i, x) =>
                /\ IsTrashed(s, x)
                /\ \A j : (Entry(s, j) /\ j > i) => Spares(q[j], x)
          /\ IsTrashed(s, x) => \E i : Trashes(s, i, x)
      BY DEF Stands, q
    <2>2. \A i : Entry(u, i) <=> i \in 1 .. Len(q) \/ i = top
      BY <1>2 DEF top
    <2>3. ASSUME NEW i, FromTrash(u, i, x) PROVE FALSE
      <3>1. i = top
        BY <1>3, <2>1, <2>2, <2>3 DEF FromTrash
      <3>2. Decides(d, x) /\ IsTrashed(s, x)
        BY <1>3, <1>4, <2>3, <3>1 DEF IsTrashed
      <3> QED BY <3>2 DEF Spares
    <2>4. ASSUME NEW i, Trashes(u, i, x)
          PROVE  /\ IsTrashed(u, x)
                 /\ \A j : (Entry(u, j) /\ j > i) => Spares(u.session.stack[j], x)
      <3>1. CASE i = top
        <4>1. IsTrashed(u, x)
          BY <1>3, <1>4, <2>4, <3>1 DEF IsTrashed
        <4> QED BY <1>2, <3>1, <4>1 DEF top
      <3>2. CASE i \in 1 .. Len(q)
        <4>1. Trashes(s, i, x)
          BY <1>3, <2>4, <3>2
        <4>2. IsTrashed(s, x) /\ Spares(d, x)
          BY <2>1, <4>1
        <4>3. IsTrashed(u, x)
          BY <1>4, <4>2 DEF IsTrashed, Known, Spares
        <4>4. \A j : (Entry(s, j) /\ j > i) => Spares(q[j], x)
          BY <2>1, <4>1
        <4> QED BY <1>2, <2>2, <4>2, <4>3, <4>4
      <3> QED BY <2>2, <2>4, <3>1, <3>2 DEF Trashes
    <2>5. ASSUME IsTrashed(u, x) PROVE \E i : Trashes(u, i, x)
      <3>1. CASE Decides(d, x) /\ d.ops[x].newState = "trashed"
        BY <1>3, <3>1
      <3>2. CASE IsTrashed(s, x)
        <4>1. PICK i : Trashes(s, i, x)
          BY <2>1, <3>2
        <4>2. i \in 1 .. Len(q)
          BY <1>2, <4>1 DEF Trashes
        <4> QED BY <1>3, <4>1, <4>2
      <3> QED BY <1>7, <2>5, <3>1, <3>2
    <2> QED BY <2>3, <2>4, <2>5
  <1> QED BY <1>5, <1>6, <1>7, <1>8

\* The last entry is undone; what it trashed is not trashed before it.
LEMMA UndoStands ==
    ASSUME NEW s, StoreType(s), FifoOK(s), CanUndo(s), Stands(s)
    PROVE  LET u == AfterUndo(s)
               d == Last(s.session.stack)
           IN  /\ HasSession(u) /\ Stands(u)
               /\ \A x \in PhotoIDs : \A i, slot : Brings(s, i, x, slot) =>
                     \/ Brings(u, i, x, slot)
                     \/ ~UndoFails(s) /\ <<slot, x>> \in Restores(d)
               /\ \A x \in PhotoIDs :
                     IsTrashed(u, x) => IsTrashed(s, x) /\ Spares(d, x)
  <1> DEFINE q == s.session.stack
             d == Last(q)
             top == Len(q)
             u == AfterUndo(s)
  <1>1. /\ Entry(s, top) /\ q[top] = d /\ top \in Nat \ {0}
        /\ \A i : Entry(u, i) => /\ i \in 1 .. top - 1
                                 /\ Entry(s, i)
                                 /\ u.session.stack[i] = q[i]
    BY UndoneStack
  <1>2. HasSession(u)
    BY FifoUndone
  <1>3. \A i \in 1 .. top - 1 : Entry(u, i)
    <2>1. q \in Seq(Decision) /\ u.session.stack = SubSeq(q, 1, top - 1)
      BY PoppedType, UndoFields
    <2> HIDE DEF u
    <2> QED BY <1>1, <1>2, <2>1 DEF Entry
  <1>4. \A i : Entry(s, i) <=> i \in 1 .. top
    <2>1. q \in Seq(Decision)
      BY PoppedType
    <2> QED BY <1>1, <2>1 DEF Entry
  <1>5. \A x \in PhotoIDs :
           /\ UndoFails(s) => u.photos[x] = s.photos[x]
           /\ ~UndoFails(s) =>
                 u.photos[x] = IF Decides(d, x) /\ Known(s, x)
                               THEN Reverted(s.photos[x], d.ops[x])
                               ELSE s.photos[x]
    <2>1. /\ UndoFails(s) => u.photos = s.photos
          /\ ~UndoFails(s) => u.photos = PhotosUndone(s, d)
      BY UndoFields
    <2> HIDE DEF u, d
    <2> QED BY <2>1 DEF PhotosUndone, Touched, Decides
  <1>6. d.kind = "decision" => \A x \in PhotoIDs : Decides(d, x) => x = d.photo
    <2>1. EntryOK(d)
      BY PoppedType
    <2> HIDE DEF d
    <2> QED BY <2>1 DEF EntryOK, Decides, Touched
  <1>7. UndoFails(s) <=> d.kind = "decision" /\ ~Known(s, d.photo)
    BY DEF UndoFails
  <1>8. \A x \in PhotoIDs : s.photos[x] \in Photo \cup {Nil}
    BY DEF StoreType, PhotoTables
  <1> HIDE DEF u, d, top, q
  <1> SUFFICES ASSUME NEW x \in PhotoIDs
               PROVE  /\ \A i : ~FromTrash(u, i, x)
                      /\ \A i : Trashes(u, i, x) =>
                            /\ IsTrashed(u, x)
                            /\ \A j : (Entry(u, j) /\ j > i) =>
                                  Spares(u.session.stack[j], x)
                      /\ IsTrashed(u, x) => \E i : Trashes(u, i, x)
                      /\ \A i, slot : Brings(s, i, x, slot) =>
                            \/ Brings(u, i, x, slot)
                            \/ ~UndoFails(s) /\ <<slot, x>> \in Restores(d)
                      /\ IsTrashed(u, x) => IsTrashed(s, x) /\ Spares(d, x)
    BY <1>2 DEF Stands, u, d, q
  <1>9. /\ \A i : ~FromTrash(s, i, x)
        /\ \A i : Trashes(s, i, x) =>
              /\ IsTrashed(s, x)
              /\ \A j : (Entry(s, j) /\ j > i) => Spares(q[j], x)
        /\ IsTrashed(s, x) => \E i : Trashes(s, i, x)
    BY DEF Stands, q
  <1>10. \A i \in 1 .. top - 1 :
            /\ Trashes(u, i, x) <=> Trashes(s, i, x)
            /\ FromTrash(u, i, x) <=> FromTrash(s, i, x)
            /\ OpOf(u, i, x) = OpOf(s, i, x)
    BY <1>1, <1>3 DEF Trashes, FromTrash, OpOf, q
  <1>11. \A i : (Trashes(u, i, x) \/ FromTrash(u, i, x)) => i \in 1 .. top - 1
    BY <1>1 DEF Trashes, FromTrash
  <1>12. \A i : Trashes(s, i, x) => i \in 1 .. top - 1 \/ i = top
    BY <1>1, <1>4 DEF Trashes
  <1>13. /\ Trashes(s, top, x) <=> Decides(d, x) /\ d.ops[x].newState = "trashed"
         /\ FromTrash(s, top, x) <=> Decides(d, x) /\ d.ops[x].prevState = "trashed"
         /\ OpOf(s, top, x) = d.ops[x]
    BY <1>1 DEF Trashes, FromTrash, OpOf, q
  <1>14. Trashes(s, top, x) => ~UndoFails(s)
    BY <1>6, <1>7, <1>9, <1>13 DEF IsTrashed
  <1>15. IsTrashed(s, x) /\ ~Trashes(s, top, x) =>
            /\ Spares(d, x)
            /\ \E i \in 1 .. top - 1 : Trashes(s, i, x)
    <2> SUFFICES ASSUME IsTrashed(s, x), ~Trashes(s, top, x)
                 PROVE  /\ Spares(d, x)
                        /\ \E i \in 1 .. top - 1 : Trashes(s, i, x)
      OBVIOUS
    <2>1. PICK i : Trashes(s, i, x)
      BY <1>9
    <2>2. i \in 1 .. top - 1
      BY <1>12, <2>1
    <2>3. Spares(q[top], x)
      BY <1>1, <1>9, <2>1, <2>2
    <2> QED BY <1>1, <2>1, <2>2, <2>3
  <1>16. IsTrashed(u, x) => IsTrashed(s, x) /\ ~Trashes(s, top, x)
    <2> SUFFICES ASSUME IsTrashed(u, x)
                 PROVE  IsTrashed(s, x) /\ ~Trashes(s, top, x)
      OBVIOUS
    <2>1. CASE UndoFails(s)
      BY <1>5, <1>14, <2>1 DEF IsTrashed, Known
    <2>2. CASE ~UndoFails(s) /\ ~(Decides(d, x) /\ Known(s, x))
      <3>1. u.photos[x] = s.photos[x]
        BY <1>5, <2>2
      <3> QED BY <1>13, <2>2, <3>1 DEF IsTrashed, Known
    <2>3. CASE ~UndoFails(s) /\ Decides(d, x) /\ Known(s, x)
      <3>1. u.photos[x] = Reverted(s.photos[x], d.ops[x])
        BY <1>5, <2>3
      <3>2. u.photos[x].state = d.ops[x].prevState
        BY <1>8, <2>3, <3>1 DEF Reverted, Photo, Known
      <3>3. d.ops[x].prevState = "trashed"
        BY <3>2 DEF IsTrashed
      <3> QED BY <1>9, <1>13, <2>3, <3>3
    <2> QED BY <2>1, <2>2, <2>3
  <1>17. Spares(d, x) => (IsTrashed(s, x) => IsTrashed(u, x))
    BY <1>5 DEF Spares, IsTrashed, Known
  <1>18. ASSUME NEW i, Trashes(u, i, x)
         PROVE  /\ IsTrashed(u, x)
                /\ \A j : (Entry(u, j) /\ j > i) => Spares(u.session.stack[j], x)
    <2>1. i \in 1 .. top - 1 /\ Trashes(s, i, x)
      BY <1>10, <1>11, <1>18
    <2>2. IsTrashed(s, x) /\ Spares(q[top], x)
      BY <1>1, <1>9, <2>1
    <2>3. IsTrashed(u, x)
      BY <1>1, <1>17, <2>2
    <2>4. \A j : (Entry(s, j) /\ j > i) => Spares(q[j], x)
      BY <1>9, <2>1
    <2> QED BY <1>1, <2>3, <2>4
  <1>19. ASSUME NEW i, NEW slot, Brings(s, i, x, slot)
         PROVE  \/ Brings(u, i, x, slot)
                \/ ~UndoFails(s) /\ <<slot, x>> \in Restores(d)
    <2>1. Trashes(s, i, x) /\ OpOf(s, i, x).trashTo = slot
      BY <1>19 DEF Brings
    <2>2. CASE i \in 1 .. top - 1
      BY <1>10, <2>1, <2>2 DEF Brings
    <2>3. CASE i = top
      <3>1. Decides(d, x) /\ d.ops[x].newState = "trashed" /\ d.ops[x].trashTo = slot
        BY <1>13, <2>1, <2>3
      <3>2. <<slot, x>> \in Restores(d)
        BY <3>1 DEF Restores, Touched, Decides
      <3> QED BY <1>14, <2>1, <2>3, <3>2
    <2> QED BY <1>12, <2>1, <2>2, <2>3
  <1>20. IsTrashed(u, x) => \E i : Trashes(u, i, x)
    BY <1>10, <1>15, <1>16
  <1> QED BY <1>9, <1>10, <1>11, <1>15, <1>16, <1>18, <1>19, <1>20

\* The session outlives the calls of its tab.
LEMMA PushLives ==
    ASSUME NEW s, StoreType(s), FifoOK(s), HasSession(s), NEW u, NEW d, Pushes(s, u, d)
    PROVE  HasSession(u) /\ FifoOK(u)
  <1>1. PICK s2 : Prepared(s, s2, d) /\ u = Pushed(s2, d, RolledBack(d))
    BY DEF Pushes
  <1>2. /\ Live(s2) /\ d \in Decision /\ EntryOK(d) /\ RolledBack(d) \in Nat
        /\ FifoFits(s2.session)
    BY <1>1, RolledBackType DEF Prepared
  <1>3. /\ Live(u) /\ u.session.recentlySkipped = s2.session.recentlySkipped
        /\ u.session.target = s2.session.target
    BY <1>1, <1>2, PushedType
  <1>4. s2.session.target \in Nat
    BY <1>2 DEF Live, Session
  <1>5. FifoFits(u.session)
    BY <1>2, <1>3 DEF FifoFits, FifoCap
  <1>6. HasSession(u)
    BY <1>3, <1>5, LiveHasSession DEF FifoFits
  <1> QED BY <1>3, <1>4, <1>5, <1>6, FifoWithin

LEMMA StartLives ==
    ASSUME NEW s, StoreType(s), NEW target \in Nat, NEW mix \in Mixes, NEW t \in Nat
    PROVE  LET u == AfterStartSession(s, target, mix, t)
           IN  HasSession(u) /\ FifoOK(u)
  <1> DEFINE sess == [target |-> target, done |-> 0, mix |-> mix,
                      startedAt |-> t, stack |-> <<>>, recentlySkipped |-> <<>>]
             u == AfterStartSession(s, target, mix, t)
  <1>1. u.session = sess
    BY DEF AfterStartSession, StoreType
  <1>2. sess \in [target: Nat, done: Nat, mix: Mixes, startedAt: Nat,
                  stack: Seq(Decision), recentlySkipped: Seq(PhotoIDs)]
    OBVIOUS
  <1>3. HasSession(u)
    BY <1>1, <1>2, NilAssumption DEF HasSession
  <1>4. u.session.target \in Nat /\ u.session.recentlySkipped = <<>>
    BY <1>1
  <1> QED BY <1>3, <1>4, FifoEmpty

LEMMA ExtendLives ==
    ASSUME NEW s, StoreType(s), HasSession(s), NEW delta \in Int
    PROVE  LET u == AfterSessionExtend(s, delta)
           IN  HasSession(u) /\ FifoOK(u) /\ SameTrash(s, u)
  <1> DEFINE u == AfterSessionExtend(s, delta)
  <1>1. /\ Live(u) /\ u.session.stack = s.session.stack
        /\ u.session.recentlySkipped = <<>> /\ u.photos = s.photos
    BY SessionExtendType
  <1> HIDE DEF u
  <1>2. <<>> \in Seq(PhotoIDs)
    OBVIOUS
  <1>3. HasSession(u)
    BY <1>1, <1>2, LiveHasSession
  <1>4. u.session.target \in Nat
    BY <1>1 DEF Live, Session
  <1>5. FifoOK(u)
    BY <1>1, <1>4, FifoEmpty
  <1>6. SameTrash(s, u)
    BY <1>1, <1>3 DEF SameTrash, IsTrashed, Known
  <1> QED BY <1>3, <1>5, <1>6 DEF u

\* Calls that leave the session alone and trash or restore no photo.
LEMMA SessionStays ==
    ASSUME NEW s, NEW u, u.session = s.session,
           \A x \in PhotoIDs : IsTrashed(u, x) <=> IsTrashed(s, x)
    PROVE  SameTrash(s, u) /\ (FifoOK(s) => FifoOK(u))
  BY DEF SameTrash, FifoOK, HasSession

LEMMA ForgetSame ==
    ASSUME NEW s, StoreType(s), NEW seen
    PROVE  LET u == AfterForgetMissing(s, seen)
           IN  SameTrash(s, u) /\ (FifoOK(s) => FifoOK(u))
  <1> DEFINE u == AfterForgetMissing(s, seen)
  <1>1. /\ u.session = s.session
        /\ \A x \in PhotoIDs :
              u.photos[x] = IF x \in Missing(s, seen) THEN Nil ELSE s.photos[x]
    BY DEF AfterForgetMissing, StoreType
  <1> HIDE DEF u
  <1>2. \A x \in PhotoIDs : IsTrashed(u, x) <=> IsTrashed(s, x)
    BY <1>1 DEF IsTrashed, Known, Missing
  <1> QED BY <1>1, <1>2, SessionStays DEF u

LEMMA UpsertSame ==
    ASSUME NEW s, StoreType(s), NEW id \in PhotoIDs
    PROVE  LET u == AfterUpsertPhoto(s, id)
           IN  SameTrash(s, u) /\ (FifoOK(s) => FifoOK(u))
  <1> DEFINE u == AfterUpsertPhoto(s, id)
  <1>1. /\ u.session = s.session
        /\ \A x \in PhotoIDs :
              u.photos[x] = IF x = id /\ ~Known(s, id) THEN NewPhoto ELSE s.photos[x]
    BY DEF AfterUpsertPhoto, StoreType, PhotoTables
  <1>2. NewPhoto.state # "trashed"
    BY DEF NewPhoto
  <1> HIDE DEF u
  <1>3. \A x \in PhotoIDs : IsTrashed(u, x) <=> IsTrashed(s, x)
    BY <1>1, <1>2 DEF IsTrashed, Known
  <1> QED BY <1>1, <1>3, SessionStays DEF u

-----------------------------------------------------------------------------
\* Pages handed out show nothing that is in the trash.
LEMMA PagesLive ==
    ASSUME NEW s
    PROVE  /\ \A p \in NextPages(s) : PageLive(p, s)
           /\ \A id \in PhotoIDs : \A byID :
                 (HasSession(s) /\ (~byID => ~IsTrashed(s, id))) =>
                    \A p \in UndonePages(s, byID, id) : PageLive(p, s)
  <1>1. HasSession(s) => PageLive(ClusterPage(s), s)
    BY DEF PageLive, ClusterPage, Undecided, IsTrashed
  <1>2. PageLive(NoPage, s)
    BY DEF PageLive, NoPage
  <1>3. ASSUME NEW id, HasSession(s), ~IsTrashed(s, id)
        PROVE  PageLive(PageFor(s, id), s)
    <2>1. PageLive([cluster |-> Nil, photos |-> {id}], s)
      BY <1>3 DEF PageLive
    <2> QED BY <1>1, <1>3, <2>1 DEF PageFor
  <1>4. \A id \in PhotoPool(s) : ~IsTrashed(s, id)
    BY DEF PhotoPool, Pool, HasWeight, IsTrashed
  <1>5. \A p \in NextPages(s) : PageLive(p, s)
    BY <1>2, <1>3, <1>4 DEF NextPages
  <1> QED BY <1>1, <1>3, <1>5 DEF UndonePages

LEMMA PageStaysLive ==
    ASSUME NEW p \in Page, NEW s, NEW u, PageLive(p, s), HasSession(s) => HasSession(u),
           \A x \in PhotoIDs : IsTrashed(u, x) => IsTrashed(s, x)
    PROVE  PageLive(p, u)
  BY DEF PageLive, Page

LEMMA OnlyClient ==
    ASSUME Alone, NEW c \in Clients
    PROVE  Clients = {c}
  BY DEF Alone

\* What Minded says with one tab.
LEMMA MindedFacts ==
    ASSUME Minded, NEW c \in Clients, Clients = {c}
    PROVE  /\ Typed /\ StoreType(mem) /\ FifoOK(mem) /\ Stands(mem)
           /\ req[c] \in Request /\ page[c] \in Page
           /\ now \in 0 .. MaxNow /\ now \in Nat
           /\ PageLive(page[c], mem) /\ RequestLive(req[c], mem)
           /\ \A x \in PhotoIDs, k \in Slots : trash[<<x, k>>] # Nil =>
                 \/ \E i : Brings(mem, i, x, <<x, k>>)
                 \/ Holds(req[c], x, <<x, k>>)
                 \/ <<x, k>> \in stranded
  BY Cards DEF Minded, Tracked

LEMMA MindedNow ==
    ASSUME Typed', NEW c \in Clients, Clients = {c}, FifoOK(mem'), Stands(mem'),
           PageLive(page'[c], mem'), RequestLive(req'[c], mem'),
           \A x \in PhotoIDs, k \in Slots : trash'[<<x, k>>] # Nil =>
              \/ \E i : Brings(mem', i, x, <<x, k>>)
              \/ Holds(req'[c], x, <<x, k>>)
              \/ <<x, k>> \in stranded'
    PROVE  Minded'
  <1>1. Tracked(mem', trash', req', stranded')
    BY DEF Tracked
  <1> QED BY <1>1 DEF Minded

LEMMA ShowsOne ==
    ASSUME Typed, NEW c \in Clients, NEW P, Shows(c, P)
    PROVE  page'[c] \in P
  BY DEF Typed, TabsTyped, Shows

\* Steps that leave the store alone.
LEMMA KeptMinded ==
    ASSUME Minded, Typed', NEW c \in Clients, Clients = {c}, NEW r, Waits(c, r),
           StoreKept, RequestLive(r, mem), PageLive(page'[c], mem),
           \A x \in PhotoIDs, k \in Slots :
              (trash'[<<x, k>>] # Nil /\ <<x, k>> \in stranded) => <<x, k>> \in stranded',
           \A x \in PhotoIDs, k \in Slots : trash'[<<x, k>>] # Nil =>
              \/ trash[<<x, k>>] # Nil /\ ~Holds(req[c], x, <<x, k>>)
              \/ Holds(r, x, <<x, k>>)
              \/ <<x, k>> \in stranded'
    PROVE  Minded'
  <1>1. mem' = mem
    BY DEF StoreKept, vars
  <1>2. req'[c] = r
    BY MindedFacts, WaitsOnly
  <1>3. FifoOK(mem') /\ Stands(mem') /\ PageLive(page'[c], mem')
        /\ RequestLive(req'[c], mem')
    BY <1>1, <1>2, MindedFacts
  <1>4. \A x \in PhotoIDs, k \in Slots : trash'[<<x, k>>] # Nil =>
              \/ \E i : Brings(mem', i, x, <<x, k>>)
              \/ Holds(req'[c], x, <<x, k>>)
              \/ <<x, k>> \in stranded'
    BY <1>1, <1>2, MindedFacts
  <1> QED BY <1>3, <1>4, MindedNow

\* Calls of the store that end a request.
LEMMA CallMinded ==
    ASSUME Minded, Typed', NEW c \in Clients, Clients = {c}, req'[c] = Idle,
           UNCHANGED <<trash, stranded>>, FifoOK(mem'), Stands(mem'), PageLive(page'[c], mem'),
           \A x \in PhotoIDs : \A i, slot :
              Brings(mem, i, x, slot) => Brings(mem', i, x, slot),
           \A x \in PhotoIDs : \A slot :
              Holds(req[c], x, slot) => \E i : Brings(mem', i, x, slot)
    PROVE  Minded'
  <1>1. RequestLive(req'[c], mem')
    BY DEF RequestLive, Idle
  <1>2. \A x \in PhotoIDs, k \in Slots : trash'[<<x, k>>] # Nil =>
              \/ \E i : Brings(mem', i, x, <<x, k>>)
              \/ Holds(req'[c], x, <<x, k>>)
              \/ <<x, k>> \in stranded'
    BY MindedFacts
  <1> QED BY <1>1, <1>2, MindedNow

\* A saved call that ends in the next page.
LEMMA AnswerPage ==
    ASSUME Typed, NEW c \in Clients, ~SavesMayFail, Answers(c)
    PROVE  req'[c] = Idle /\ PageLive(page'[c], mem')
  <1>1. Waits(c, Idle) /\ Shows(c, NextPages(mem'))
    BY DEF Answers
  <1>2. req'[c] = Idle
    BY <1>1, WaitsOnly
  <1>3. page'[c] \in NextPages(mem')
    BY <1>1, ShowsOne
  <1> QED BY <1>2, <1>3, PagesLive

LEMMA CardLive ==
    ASSUME Minded, NEW c \in Clients, Clients = {c}, NEW id \in PhotoIDs, Card(c, id)
    PROVE  HasSession(mem) /\ ~IsTrashed(mem, id)
  BY MindedFacts DEF Card, PageLive

\* What a call records is not trashed yet.
LEMMA PushMinded ==
    ASSUME Minded, Typed', NEW c \in Clients, Clients = {c}, NEW u, NEW d,
           HasSession(mem), Pushes(mem, u, d), mem' = u, UNCHANGED <<trash, stranded>>,
           req'[c] = Idle, PageLive(page'[c], mem'),
           \A x \in PhotoIDs : IsTrashed(mem, x) => Spares(d, x),
           \A x \in PhotoIDs : \A slot : Holds(req[c], x, slot) =>
              Decides(d, x) /\ d.ops[x].newState = "trashed" /\ d.ops[x].trashTo = slot
    PROVE  Minded'
  <1>1. StoreType(mem) /\ FifoOK(mem) /\ Stands(mem)
    BY MindedFacts
  <1>2. HasSession(u) /\ FifoOK(u)
    BY <1>1, PushLives
  <1>3. Recorded(mem, u, d)
    BY <1>1, PushesRecorded
  <1>4. /\ Stands(u)
        /\ \A x \in PhotoIDs : \A i, slot : Brings(mem, i, x, slot) => Brings(u, i, x, slot)
        /\ \A x \in PhotoIDs :
              (Decides(d, x) /\ d.ops[x].newState = "trashed") =>
                 \E i : Brings(u, i, x, d.ops[x].trashTo)
    BY <1>1, <1>2, <1>3, PushStands
  <1>5. \A x \in PhotoIDs : \A slot :
           Holds(req[c], x, slot) => \E i : Brings(mem', i, x, slot)
    BY <1>4
  <1> QED BY <1>2, <1>4, <1>5, CallMinded

\* handleHome, StartSession, handleNext, handleDecision without a file.
LEMMA CardsMinded ==
    ASSUME Alone, Minded, Typed', NEW c \in Clients,
           \/ HomeStart(c) \/ StartSession(c) \/ ShowNext(c)
           \/ \E id \in PhotoIDs : Keep(c, id) \/ SkipPhoto(c, id)
    PROVE  Minded'
  <1>0. Clients = {c} /\ Typed /\ ~SavesMayFail
    BY OnlyClient DEF Minded, Alone
  <1>f. /\ StoreType(mem) /\ FifoOK(mem) /\ Stands(mem)
        /\ req[c] \in Request /\ page[c] \in Page
        /\ now \in 0 .. MaxNow /\ now \in Nat
        /\ PageLive(page[c], mem) /\ RequestLive(req[c], mem)
    BY <1>0, MindedFacts
  <1>1. CASE HomeStart(c)
    <2> DEFINE r == [pc |-> "start", target |-> AutoTarget(mem), mix |-> AutoMix(mem)]
    <2>1. /\ Waits(c, r) /\ StoreKept /\ UNCHANGED <<trash, stranded>> /\ page' = page
          /\ req[c] = Idle /\ ~HasSession(mem)
      BY <1>1 DEF HomeStart, Asks, files
    <2>2. RequestLive(r, mem)
      BY <2>1 DEF RequestLive
    <2> HIDE DEF r
    <2> QED BY <1>0, <1>f, <2>1, <2>2, KeptMinded, IdleHoldsNothing DEF HoldsNothing
  <1>2. CASE StartSession(c)
    <2> DEFINE u == AfterStartSession(mem, req[c].target, req[c].mix, now)
    <2>1. req[c].target \in Nat /\ req[c].mix \in Mixes /\ req[c].pc = "start"
      BY <1>f, <1>2, RequestFields DEF StartSession
    <2>2. ~HasSession(mem)
      BY <1>f, <2>1 DEF RequestLive
    <2>3. HasSession(u) /\ FifoOK(u)
      BY <1>f, <2>1, StartLives
    <2>4. u.session.stack = <<>> /\ u.photos = mem.photos
      BY <1>f, <2>1, FreshSession
    <2>5. mem' = u /\ UNCHANGED <<trash, stranded>> /\ Answers(c)
      BY <1>2 DEF StartSession, Stores, StoreCall, Commit, files
    <2> HIDE DEF u
    <2>6. Stands(u)
      BY <1>f, <2>2, <2>4, StartStands
    <2>7. req'[c] = Idle /\ PageLive(page'[c], mem')
      BY <1>0, <2>5, AnswerPage
    <2>8. \A x \in PhotoIDs : \A i, slot : ~Brings(mem, i, x, slot)
      BY <2>2 DEF Brings, Trashes, Entry
    <2>9. \A x \in PhotoIDs : \A slot : ~Holds(req[c], x, slot)
      BY <2>1 DEF Holds
    <2> QED BY <1>0, <2>3, <2>5, <2>6, <2>7, <2>8, <2>9, CallMinded
  <1>3. CASE ShowNext(c)
    <2>1. /\ Waits(c, Idle) /\ StoreKept /\ UNCHANGED <<trash, stranded>> /\ req[c] = Idle
          /\ Shows(c, NextPages(mem))
      BY <1>3 DEF ShowNext, Asks, files
    <2>2. PageLive(page'[c], mem)
      BY <1>0, <2>1, ShowsOne, PagesLive
    <2>3. RequestLive(Idle, mem)
      BY DEF RequestLive, Idle
    <2> QED BY <1>0, <2>1, <2>2, <2>3, KeptMinded, IdleHoldsNothing DEF HoldsNothing
  <1>4. ASSUME NEW id \in PhotoIDs, Keep(c, id) PROVE Minded'
    <2> DEFINE r == [newState |-> "kept", trashTo |-> Nil]
               u == AfterRecordDecision(mem, id, r.newState, r.trashTo, now)
    <2>1. CanDecide(mem, id) /\ Card(c, id) /\ req[c] = Idle
      BY <1>4 DEF Keep, Asks
    <2>2. mem' = u /\ UNCHANGED <<trash, stranded>> /\ Answers(c)
      BY <1>4 DEF Keep, Stores, StoreCall, Commit, files
    <2>3. r \in MemberRequest
      BY MemberRequests
    <2> HIDE DEF r
    <2>4. PICK d : /\ Pushes(mem, u, d) /\ d.kind = "decision"
                   /\ \A x \in PhotoIDs : Decides(d, x) => x = id
      BY <1>f, <2>1, <2>3, RecordDecisionEntry
    <2> HIDE DEF u
    <2>5. HasSession(mem) /\ \A x \in PhotoIDs : IsTrashed(mem, x) => Spares(d, x)
      BY <1>0, <2>1, <2>4, CardLive DEF Spares
    <2>6. req'[c] = Idle /\ PageLive(page'[c], mem')
      BY <1>0, <2>2, AnswerPage
    <2> QED BY <1>0, <2>1, <2>2, <2>4, <2>5, <2>6, PushMinded, IdleHoldsNothing
            DEF HoldsNothing
  <1>5. ASSUME NEW id \in PhotoIDs, SkipPhoto(c, id) PROVE Minded'
    <2> DEFINE u == AfterRecordSkip(mem, id, now)
    <2>1. CanDecide(mem, id) /\ Card(c, id) /\ req[c] = Idle
      BY <1>5 DEF SkipPhoto, Asks
    <2>2. mem' = u /\ UNCHANGED <<trash, stranded>> /\ Answers(c)
      BY <1>5 DEF SkipPhoto, Stores, StoreCall, Commit, files
    <2>3. PICK d : /\ Pushes(mem, u, d) /\ d.photo = id
                   /\ \A x : ~Decides(d, x)
      BY <1>f, <2>1, RecordSkipEntry
    <2> HIDE DEF u
    <2>4. HasSession(mem) /\ \A x \in PhotoIDs : IsTrashed(mem, x) => Spares(d, x)
      BY <1>0, <2>1, <2>3, CardLive DEF Spares
    <2>5. req'[c] = Idle /\ PageLive(page'[c], mem')
      BY <1>0, <2>2, AnswerPage
    <2> QED BY <1>0, <2>1, <2>2, <2>3, <2>4, <2>5, PushMinded, IdleHoldsNothing
            DEF HoldsNothing
  <1> QED BY <1>1, <1>2, <1>3, <1>4, <1>5

\* The file moved to UniqueDest is the one new file in the trash.
LEMMA MoveAdds ==
    ASSUME Typed, NEW id \in PhotoIDs, MoveToTrash(id)
    PROVE  /\ stranded' = stranded
           /\ \A x \in PhotoIDs, k \in Slots : trash'[<<x, k>>] # Nil =>
                 \/ trash[<<x, k>>] # Nil
                 \/ x = id /\ <<x, k>> = UniqueDest(id)
  <1>1. UniqueDest(id) \in Own(id) /\ trash \in [PhotoIDs \X Slots -> 1 .. MaxImports \cup {Nil}]
    BY UniqueDestIn DEF MoveToTrash, Typed, FilesTyped
  <1>2. trash' = [trash EXCEPT ![UniqueDest(id)] = lib[id]]
    BY DEF MoveToTrash
  <1> QED BY <1>1, <1>2 DEF Own, MoveToTrash

\* The two steps of trashing a card.
LEMMA TrashMinded ==
    ASSUME Alone, Minded, Typed', NEW c \in Clients,
           RecordTrash(c) \/ \E id \in PhotoIDs : TrashFile(c, id)
    PROVE  Minded'
  <1>0. Clients = {c} /\ Typed /\ ~SavesMayFail
    BY OnlyClient DEF Minded, Alone
  <1>f. /\ StoreType(mem) /\ req[c] \in Request /\ now \in 0 .. MaxNow
        /\ PageLive(page[c], mem) /\ RequestLive(req[c], mem)
    BY <1>0, MindedFacts
  <1>1. ASSUME NEW id \in PhotoIDs, TrashFile(c, id) PROVE Minded'
    <2> DEFINE slot == UniqueDest(id)
               r == [pc |-> "record", id |-> id, slot |-> slot]
    <2>1. /\ Waits(c, r) /\ StoreKept /\ page' = page
          /\ req[c] = Idle /\ Card(c, id) /\ Known(mem, id) /\ MoveToTrash(id)
      BY <1>1 DEF TrashFile, Asks
    <2>2. InPlay(mem, id)
      BY <1>0, <2>1, CardLive DEF InPlay
    <2>3. /\ stranded' = stranded
          /\ \A x \in PhotoIDs, k \in Slots : trash'[<<x, k>>] # Nil =>
                trash[<<x, k>>] # Nil \/ (x = id /\ <<x, k>> = slot)
      BY <1>0, <2>1, MoveAdds
    <2> HIDE DEF slot
    <2>4. RequestLive(r, mem) /\ Holds(r, id, slot)
      BY <2>2 DEF RequestLive, Holds
    <2> HIDE DEF r
    <2>5. \A x \in PhotoIDs, k \in Slots : trash'[<<x, k>>] # Nil =>
              \/ trash[<<x, k>>] # Nil /\ ~Holds(req[c], x, <<x, k>>)
              \/ Holds(r, x, <<x, k>>)
              \/ <<x, k>> \in stranded'
      BY <2>1, <2>3, <2>4, IdleHoldsNothing DEF HoldsNothing
    <2> QED BY <1>0, <1>f, <2>1, <2>3, <2>4, <2>5, KeptMinded
  <1>2. CASE RecordTrash(c)
    <2> DEFINE id == req[c].id
               q == [newState |-> "trashed", trashTo |-> req[c].slot]
               u == AfterRecordDecision(mem, id, q.newState, q.trashTo, now)
    <2>1. req[c].pc = "record" /\ id \in PhotoIDs /\ req[c].slot \in TrashPaths
      BY <1>f, <1>2, RequestFields DEF RecordTrash
    <2>2. InPlay(mem, id)
      BY <1>f, <2>1 DEF RequestLive
    <2>3. CanDecide(mem, id) /\ HasSession(mem)
      BY <2>2 DEF InPlay, CanDecide
    <2>4. mem' = u /\ UNCHANGED <<trash, stranded>> /\ Answers(c)
      BY <1>2, <2>3 DEF RecordTrash, Stores, StoreCall, Commit, files
    <2>5. q \in MemberRequest /\ q.newState = "trashed" /\ q.trashTo = req[c].slot
      BY <2>1, MemberRequests
    <2> HIDE DEF q
    <2>6. PICK d : /\ Pushes(mem, u, d)
                   /\ d.kind = "decision" /\ Decides(d, id)
                   /\ \A x \in PhotoIDs : Decides(d, x) =>
                         /\ x = id
                         /\ d.ops[x].newState = q.newState
                         /\ d.ops[x].trashTo = q.trashTo
      BY <1>f, <2>1, <2>3, <2>5, RecordDecisionEntry
    <2> HIDE DEF u
    <2>7. \A x \in PhotoIDs : IsTrashed(mem, x) => Spares(d, x)
      BY <2>2, <2>6 DEF Spares, InPlay
    <2>8. req'[c] = Idle /\ PageLive(page'[c], mem')
      BY <1>0, <2>4, AnswerPage
    <2>9. \A x \in PhotoIDs : \A slot : Holds(req[c], x, slot) =>
              Decides(d, x) /\ d.ops[x].newState = "trashed" /\ d.ops[x].trashTo = slot
      BY <2>1, <2>5, <2>6 DEF Holds
    <2> QED BY <1>0, <2>3, <2>4, <2>6, <2>7, <2>8, <2>9, PushMinded
  <1> QED BY <1>1, <1>2

\* handleClusterResolve and handleClusterSkip, before they record anything.
LEMMA MembersMinded ==
    ASSUME Alone, Minded, Typed', NEW c \in Clients,
           \/ \E keep : ResolveCluster(c, keep)
           \/ ClusterVanished(c) \/ SkipMembers(c)
           \/ \E id \in PhotoIDs : TrashMember(c, id)
    PROVE  Minded'
  <1>0. Clients = {c} /\ Typed
    BY OnlyClient DEF Minded, Alone
  <1>f. /\ req[c] \in Request /\ PageLive(page[c], mem) /\ RequestLive(req[c], mem)
    BY <1>0, MindedFacts
  <1>1. ASSUME NEW keep, ResolveCluster(c, keep) PROVE Minded'
    <2> DEFINE members == Undecided(mem, Cluster(mem))
               ops == [x \in PhotoIDs |->
                         IF x \in members \cap keep
                         THEN [newState |-> "kept", trashTo |-> Nil] ELSE Nil]
               r == [pc |-> "members", id |-> page[c].cluster,
                     todo |-> members \ keep, ops |-> ops]
    <2>1. /\ Waits(c, r) /\ StoreKept /\ UNCHANGED <<trash, stranded>> /\ page' = page
          /\ req[c] = Idle /\ page[c].cluster # Nil
      BY <1>1 DEF ResolveCluster, Asks, files
    <2>2. HasSession(mem)
      BY <1>f, <2>1 DEF PageLive
    <2>3. \A x \in members : InPlay(mem, x)
      BY <2>2 DEF Undecided, Cluster, InPlay, IsTrashed
    <2> HIDE DEF members
    <2>4. \A x \in PhotoIDs : ops[x] # Nil => x \in members \cap keep
      OBVIOUS
    <2>5. \A x \in members \ keep : x \in PhotoIDs => ops[x] = Nil
      OBVIOUS
    <2>6. members \subseteq PhotoIDs
      BY <1>0, Cards, ClusterIn DEF members
    <2> HIDE DEF ops
    <2>7. RequestLive(r, mem)
      BY <2>2, <2>3, <2>4, <2>5, <2>6 DEF RequestLive
    <2> HIDE DEF r
    <2> QED BY <1>0, <1>f, <2>1, <2>7, KeptMinded, IdleHoldsNothing DEF HoldsNothing
  <1>2. CASE ClusterVanished(c)
    <2>1. /\ Waits(c, Idle) /\ StoreKept /\ UNCHANGED <<trash, stranded>> /\ req[c] = Idle
          /\ Shows(c, NextPages(mem))
      BY <1>2 DEF ClusterVanished, Asks, files
    <2>2. PageLive(page'[c], mem)
      BY <1>0, <2>1, ShowsOne, PagesLive
    <2>3. RequestLive(Idle, mem)
      BY DEF RequestLive, Idle
    <2> QED BY <1>0, <2>1, <2>2, <2>3, KeptMinded, IdleHoldsNothing DEF HoldsNothing
  <1>3. CASE SkipMembers(c)
    <2> DEFINE r == [pc |-> "skip", id |-> page[c].cluster,
                     members |-> Undecided(mem, Cluster(mem))]
    <2>1. /\ Waits(c, r) /\ StoreKept /\ UNCHANGED <<trash, stranded>> /\ page' = page
          /\ req[c] = Idle
      BY <1>3 DEF SkipMembers, Asks, files
    <2>2. RequestLive(r, mem)
      BY DEF RequestLive
    <2> HIDE DEF r
    <2> QED BY <1>0, <1>f, <2>1, <2>2, KeptMinded, IdleHoldsNothing DEF HoldsNothing
  <1>4. ASSUME NEW id \in PhotoIDs, TrashMember(c, id) PROVE Minded'
    <2>1. /\ req[c] \in [pc: {"members"}, id: PhotoIDs, todo: SUBSET PhotoIDs,
                         ops: ClusterRequests]
          /\ req[c].pc = "members" /\ id \in req[c].todo
      BY <1>f, <1>4, RequestFields DEF TrashMember
    <2>2. /\ HasSession(mem)
          /\ \A x \in PhotoIDs :
                (x \in req[c].todo \/ req[c].ops[x] # Nil) => InPlay(mem, x)
          /\ \A x \in req[c].todo : req[c].ops[x] = Nil
      BY <1>f, <2>1 DEF RequestLive
    <2>3. CASE MovesMember(c, id)
      <3> DEFINE slot == UniqueDest(id)
                 op == [newState |-> "trashed", trashTo |-> slot]
                 r == [req[c] EXCEPT !.todo = @ \ {id}, !.ops[id] = op]
      <3>1. MoveToTrash(id) /\ Waits(c, r) /\ StoreKept /\ page' = page
        BY <1>4, <2>3 DEF TrashMember, MovesMember
      <3>2. /\ stranded' = stranded
            /\ \A x \in PhotoIDs, k \in Slots : trash'[<<x, k>>] # Nil =>
                  trash[<<x, k>>] # Nil \/ (x = id /\ <<x, k>> = slot)
        BY <1>0, <3>1, MoveAdds
      <3>3. op # Nil /\ op.newState = "trashed" /\ op.trashTo = slot
        <4>1. slot \in TrashPaths
          BY <3>1, UniqueDestIn DEF MoveToTrash
        <4>2. op \in MemberRequest
          BY <4>1, MemberRequests
        <4> QED BY <4>2, BoundsAssumption
      <3> HIDE DEF op, slot
      <3>4. /\ r.pc = "members" /\ r.todo = req[c].todo \ {id}
            /\ r.ops[id] = op
            /\ \A x \in PhotoIDs \ {id} : r.ops[x] = req[c].ops[x]
        BY <2>1 DEF ClusterRequests
      <3> HIDE DEF r
      <3>5. RequestLive(r, mem)
        BY <2>1, <2>2, <3>4 DEF RequestLive
      <3>6. \A x \in PhotoIDs : \A k \in Slots :
               Holds(req[c], x, <<x, k>>) => Holds(r, x, <<x, k>>)
        BY <2>1, <2>2, <3>4 DEF Holds
      <3>7. Holds(r, id, slot)
        BY <3>3, <3>4 DEF Holds
      <3>8. \A x \in PhotoIDs, k \in Slots : trash'[<<x, k>>] # Nil =>
                \/ trash[<<x, k>>] # Nil /\ ~Holds(req[c], x, <<x, k>>)
                \/ Holds(r, x, <<x, k>>)
                \/ <<x, k>> \in stranded'
        BY <3>2, <3>6, <3>7
      <3> QED BY <1>0, <1>f, <3>1, <3>2, <3>5, <3>8, KeptMinded
    <2>4. CASE LeavesMember(c, id)
      <3> DEFINE r == [req[c] EXCEPT !.todo = @ \ {id}]
      <3>1. Waits(c, r) /\ StoreKept /\ page' = page /\ UNCHANGED <<trash, stranded>>
        BY <1>4, <2>4 DEF TrashMember, LeavesMember, files
      <3>2. r.pc = "members" /\ r.todo = req[c].todo \ {id} /\ r.ops = req[c].ops
        BY <2>1
      <3> HIDE DEF r
      <3>3. RequestLive(r, mem)
        BY <2>2, <3>2 DEF RequestLive
      <3>4. \A x \in PhotoIDs : \A k \in Slots :
               Holds(req[c], x, <<x, k>>) => Holds(r, x, <<x, k>>)
        BY <2>1, <3>2 DEF Holds
      <3> QED BY <1>0, <1>f, <3>1, <3>3, <3>4, KeptMinded
    <2> QED BY <1>4, <2>3, <2>4 DEF TrashMember, MovesMember, LeavesMember
  <1> QED BY <1>1, <1>2, <1>3, <1>4

\* What a cluster's answer records, and what its skip does.
LEMMA ClusterMinded ==
    ASSUME Alone, Minded, Typed', NEW c \in Clients,
           RecordCluster(c) \/ RecordClusterSkip(c)
    PROVE  Minded'
  <1>0. Clients = {c} /\ Typed
    BY OnlyClient DEF Minded, Alone
  <1>f. /\ StoreType(mem) /\ req[c] \in Request /\ now \in 0 .. MaxNow
        /\ RequestLive(req[c], mem)
    BY <1>0, MindedFacts
  <1>p. Waits(c, Idle) /\ Shows(c, NextPages(mem'))
    BY DEF RecordCluster, RecordClusterSkip
  <1>q. req'[c] = Idle /\ PageLive(page'[c], mem')
    BY <1>0, <1>p, WaitsOnly, ShowsOne, PagesLive
  <1>r. RequestLive(Idle, mem)
    BY DEF RequestLive, Idle
  <1>1. CASE RecordCluster(c)
    <2> DEFINE ops == req[c].ops
               u == AfterRecordClusterDecision(mem, req[c].id, ops, now)
    <2>1. /\ req[c].pc = "members" /\ req[c].id \in PhotoIDs
          /\ ops \in ClusterRequests
      BY <1>f, <1>1, RequestFields DEF RecordCluster
    <2>2. HasSession(mem) /\ \A x \in PhotoIDs : ops[x] # Nil => InPlay(mem, x)
      BY <1>f, <2>1 DEF RequestLive
    <2>3. CanDecideCluster(mem, ops)
      BY <2>2 DEF CanDecideCluster, Requested, InPlay
    <2>4. CASE Requested(ops) # {}
      <3>1. PICK d : /\ Pushes(mem, u, d) /\ d.kind = "cluster"
                     /\ \A x \in PhotoIDs : ops[x] # Nil => Decides(d, x)
                     /\ \A x \in PhotoIDs : Decides(d, x) =>
                           /\ ops[x] # Nil
                           /\ d.ops[x].newState = ops[x].newState
                           /\ d.ops[x].trashTo = ops[x].trashTo
        BY <1>f, <2>1, <2>3, RecordClusterDecisionEntry
      <3>2. mem' = u /\ UNCHANGED <<trash, stranded>>
        BY <1>1, <2>3, <2>4 DEF RecordCluster, Stores, StoreCall, Commit, files
      <3> HIDE DEF u
      <3>3. \A x \in PhotoIDs : IsTrashed(mem, x) => Spares(d, x)
        BY <2>2, <3>1 DEF Spares, InPlay
      <3>4. \A x \in PhotoIDs : \A slot : Holds(req[c], x, slot) =>
              Decides(d, x) /\ d.ops[x].newState = "trashed" /\ d.ops[x].trashTo = slot
        BY <2>1, <3>1 DEF Holds
      <3> QED BY <1>0, <1>q, <2>2, <3>1, <3>2, <3>3, <3>4, PushMinded
    <2>5. CASE Requested(ops) = {}
      <3>1. StoreKept /\ UNCHANGED <<trash, stranded>> /\ mem' = mem
        BY <1>1, <2>5 DEF RecordCluster, StoreKept, files, vars
      <3>2. \A x \in PhotoIDs : \A slot : ~Holds(req[c], x, slot)
        BY <2>1, <2>5 DEF Holds, Requested
      <3> QED BY <1>0, <1>p, <1>q, <1>r, <3>1, <3>2, KeptMinded
    <2> QED BY <2>4, <2>5
  <1>2. CASE RecordClusterSkip(c)
    <2>1. req[c].pc = "skip" /\ req[c].id \in PhotoIDs
      BY <1>f, <1>2, RequestFields DEF RecordClusterSkip
    <2>2. \A x \in PhotoIDs : \A slot : ~Holds(req[c], x, slot)
      BY <2>1 DEF Holds
    <2>3. CASE HasSession(mem)
      <3>1. PICK ids \in MemberLists :
               Stores(AfterSkipCluster(mem, req[c].id, ids, now))
        BY <1>2, <2>3 DEF RecordClusterSkip
      <3> DEFINE u == AfterSkipCluster(mem, req[c].id, ids, now)
      <3>2. ids \in Seq(PhotoIDs)
        BY DEF MemberLists
      <3>3. PICK d : /\ Pushes(mem, u, d) /\ d.kind = "clusterSkip"
                     /\ \A x : ~Decides(d, x)
        BY <1>f, <2>1, <2>3, <3>2, SkipClusterEntry
      <3>4. mem' = u /\ UNCHANGED <<trash, stranded>>
        BY <3>1 DEF Stores, StoreCall, Commit, files
      <3> HIDE DEF u
      <3>5. \A x \in PhotoIDs : IsTrashed(mem, x) => Spares(d, x)
        BY <3>3 DEF Spares
      <3> QED BY <1>0, <1>q, <2>2, <2>3, <3>3, <3>4, <3>5, PushMinded
    <2>4. CASE ~HasSession(mem)
      <3>1. StoreKept /\ UNCHANGED <<trash, stranded>> /\ mem' = mem
        BY <1>2, <2>4 DEF RecordClusterSkip, StoreKept, files, vars
      <3> QED BY <1>0, <1>p, <1>q, <1>r, <2>2, <3>1, KeptMinded
    <2> QED BY <2>3, <2>4
  <1> QED BY <1>1, <1>2

\* handleUndo.
LEMMA UndoMinded ==
    ASSUME Alone, Minded, Typed', NEW c \in Clients,
           UndoEntry(c) \/ RestoreFile(c) \/ UndoDone(c)
    PROVE  Minded'
  <1>0. Clients = {c} /\ Typed /\ ~SavesMayFail
    BY OnlyClient DEF Minded, Alone
  <1>f. /\ StoreType(mem) /\ FifoOK(mem) /\ Stands(mem)
        /\ req[c] \in Request /\ page[c] \in Page
        /\ now \in Nat
        /\ PageLive(page[c], mem) /\ RequestLive(req[c], mem)
    BY <1>0, MindedFacts
  <1>1. CASE UndoEntry(c)
    <2> DEFINE u == AfterUndo(mem)
               d == Last(mem.session.stack)
               byID == d.kind \in {"cluster", "clusterSkip"}
               r == [pc |-> "restore", todo |-> Restores(d), byID |-> byID,
                     id |-> d.photo]
    <2>1. /\ req[c] = Idle /\ CanUndo(mem) /\ mem' = u
          /\ UNCHANGED <<trash, stranded>> /\ page' = page
          /\ \/ Waits(c, Idle) /\ UndoFails(mem)
             \/ Waits(c, r) /\ ~UndoFails(mem)
      BY <1>0, <1>1 DEF UndoEntry, Asks, files
    <2>2. d \in Decision /\ EntryOK(d) /\ HasSession(mem)
      BY <1>f, <2>1, PoppedType DEF CanUndo
    <2>3. FifoOK(u)
      <3>1. Called(mem, u, now)
        BY <2>1 DEF Called
      <3> QED BY <1>f, <3>1, FifoCalled
    <2>4. /\ HasSession(u) /\ Stands(u)
          /\ \A x \in PhotoIDs : \A i, slot : Brings(mem, i, x, slot) =>
                \/ Brings(u, i, x, slot)
                \/ ~UndoFails(mem) /\ <<slot, x>> \in Restores(d)
          /\ \A x \in PhotoIDs : IsTrashed(u, x) => IsTrashed(mem, x) /\ Spares(d, x)
      BY <1>f, <2>1, UndoStands
    <2> HIDE DEF u, d
    <2>5. PageLive(page'[c], u)
      BY <1>f, <2>1, <2>4, PageStaysLive
    <2>6. \A x \in PhotoIDs : \A slot : ~Holds(req[c], x, slot)
      BY <2>1, IdleHoldsNothing DEF HoldsNothing
    <2>7. CASE Waits(c, Idle) /\ UndoFails(mem)
      <3>1. req'[c] = Idle
        BY <1>0, <2>7, WaitsOnly
      <3>2. \A x \in PhotoIDs : \A i, slot :
               Brings(mem, i, x, slot) => Brings(mem', i, x, slot)
        BY <2>1, <2>4, <2>7
      <3> QED BY <1>0, <2>1, <2>3, <2>4, <2>5, <2>6, <3>1, <3>2, CallMinded
    <2>8. CASE Waits(c, r) /\ ~UndoFails(mem)
      <3>1. ~byID => ~IsTrashed(u, d.photo)
        <4>1. d.kind \in Kinds /\ d.photo \in PhotoIDs
          BY <2>2 DEF Decision
        <4>2. d.kind = "decision" => Decides(d, d.photo)
          BY <2>2 DEF EntryOK, Touched, Decides, IsSkip
        <4> QED BY <2>4, <4>1, <4>2 DEF Kinds, Spares
      <3>2. RequestLive(r, u)
        BY <2>4, <3>1 DEF RequestLive
      <3>3. \A x \in PhotoIDs : \A slot :
               <<slot, x>> \in Restores(d) => Holds(r, x, slot)
        BY DEF Holds
      <3> HIDE DEF r
      <3>4. req'[c] = r
        BY <1>0, <2>8, WaitsOnly
      <3>5. \A x \in PhotoIDs, k \in Slots : trash'[<<x, k>>] # Nil =>
               \/ \E i : Brings(mem', i, x, <<x, k>>)
               \/ Holds(req'[c], x, <<x, k>>)
               \/ <<x, k>> \in stranded'
        <4> SUFFICES ASSUME NEW x \in PhotoIDs, NEW k \in Slots,
                            trash[<<x, k>>] # Nil, <<x, k>> \notin stranded
                     PROVE  \/ \E i : Brings(mem', i, x, <<x, k>>)
                            \/ Holds(req'[c], x, <<x, k>>)
          BY <2>1
        <4>1. PICK i : Brings(mem, i, x, <<x, k>>)
          BY <1>0, <2>6, MindedFacts
        <4> QED BY <2>1, <2>4, <3>3, <3>4, <4>1
      <3> QED BY <1>0, <2>1, <2>3, <2>4, <2>5, <3>2, <3>4, <3>5, MindedNow
    <2> QED BY <2>1, <2>7, <2>8
  <1>2. CASE RestoreFile(c)
    <2>1. PICK move \in req[c].todo :
             /\ RestoreFromTrash(move[1], move[2])
             /\ Waits(c, [req[c] EXCEPT !.todo = @ \ {move}])
      BY <1>2 DEF RestoreFile
    <2>2. /\ req[c] \in [pc: {"restore"}, todo: SUBSET (TrashPaths \X PhotoIDs),
                         byID: BOOLEAN, id: PhotoIDs]
          /\ req[c].pc = "restore" /\ StoreKept /\ page' = page
      BY <1>f, <1>2, RequestFields DEF RestoreFile
    <2> DEFINE r == [req[c] EXCEPT !.todo = @ \ {move}]
    <2>3. /\ r.pc = "restore" /\ r.todo = req[c].todo \ {move}
          /\ r.byID = req[c].byID /\ r.id = req[c].id
      BY <2>2
    <2>4. Waits(c, r)
      BY <2>1
    <2> HIDE DEF r
    <2>5. RequestLive(r, mem)
      BY <1>f, <2>2, <2>3 DEF RequestLive
    <2>6. /\ \A slot \in PhotoIDs \X Slots : trash'[slot] # Nil => trash[slot] # Nil
          /\ trash'[move[1]] # Nil => move[1] \in stranded'
          /\ \A slot \in PhotoIDs \X Slots :
                (trash'[slot] # Nil /\ slot \in stranded) => slot \in stranded'
      <3>1. trash \in [PhotoIDs \X Slots -> 1 .. MaxImports \cup {Nil}]
        BY <1>0 DEF Typed, FilesTyped
      <3>2. move[1] \in PhotoIDs \X Slots
        BY <2>2, SlotsAssumption
      <3> QED BY <2>1, <3>1, <3>2 DEF RestoreFromTrash, files
    <2>7. \A x \in PhotoIDs, k \in Slots : trash'[<<x, k>>] # Nil =>
             \/ trash[<<x, k>>] # Nil /\ ~Holds(req[c], x, <<x, k>>)
             \/ Holds(r, x, <<x, k>>)
             \/ <<x, k>> \in stranded'
      <3> SUFFICES ASSUME NEW x \in PhotoIDs, NEW k \in Slots,
                          trash'[<<x, k>>] # Nil, Holds(req[c], x, <<x, k>>),
                          <<x, k>> \notin stranded'
                   PROVE  Holds(r, x, <<x, k>>)
        BY <2>6
      <3>1. <<x, k>> # move[1]
        BY <2>6
      <3>2. <<<<x, k>>, x>> \in req[c].todo
        BY <2>2 DEF Holds
      <3>3. <<<<x, k>>, x>> # move
        BY <3>1
      <3> QED BY <2>3, <3>2, <3>3 DEF Holds
    <2>8. \A x \in PhotoIDs, k \in Slots :
             (trash'[<<x, k>>] # Nil /\ <<x, k>> \in stranded) => <<x, k>> \in stranded'
      BY <2>6
    <2> QED BY <1>0, <1>f, <2>2, <2>4, <2>5, <2>7, <2>8, KeptMinded
  <1>3. CASE UndoDone(c)
    <2>1. /\ Waits(c, Idle) /\ StoreKept /\ UNCHANGED <<trash, stranded>>
          /\ req[c].pc = "restore" /\ req[c].todo = {}
          /\ Shows(c, UndonePages(mem, req[c].byID, req[c].id))
      BY <1>3 DEF UndoDone, files
    <2>2. req[c].id \in PhotoIDs
      BY <1>f, <2>1, RequestFields
    <2>3. HasSession(mem) /\ (~req[c].byID => ~IsTrashed(mem, req[c].id))
      BY <1>f, <2>1 DEF RequestLive
    <2>4. page'[c] \in UndonePages(mem, req[c].byID, req[c].id)
      BY <1>0, <2>1, ShowsOne
    <2>5. PageLive(page'[c], mem)
      BY <2>2, <2>3, <2>4, PagesLive
    <2>6. RequestLive(Idle, mem)
      BY DEF RequestLive, Idle
    <2>7. \A x \in PhotoIDs : \A slot : ~Holds(req[c], x, slot)
      BY <2>1 DEF Holds
    <2> QED BY <1>0, <2>1, <2>5, <2>6, <2>7, KeptMinded
  <1> QED BY <1>1, <1>2, <1>3

\* EndSession is asked by nobody; SessionExtend and UpdateSettings.
LEMMA SessionMinded ==
    ASSUME Alone, Minded, Typed', NEW c \in Clients,
           \/ End(c)
           \/ \E delta \in Batches : Extend(c, delta)
           \/ \E ns \in SettingsChoices : SaveSettings(c, ns)
    PROVE  Minded'
  <1>0. Clients = {c} /\ Typed /\ ~SavesMayFail
    BY OnlyClient DEF Minded, Alone
  <1>f. /\ StoreType(mem) /\ FifoOK(mem) /\ Stands(mem) /\ page[c] \in Page
        /\ PageLive(page[c], mem)
    BY <1>0, MindedFacts
  <1>1. ~End(c)
    BY DEF End, Asks, Alone
  <1>i. \A x \in PhotoIDs : \A slot : ~Holds(Idle, x, slot)
    BY IdleHoldsNothing DEF HoldsNothing
  <1>2. ASSUME NEW delta \in Batches, Extend(c, delta) PROVE Minded'
    <2> DEFINE u == AfterSessionExtend(mem, delta)
    <2>1. /\ HasSession(mem) /\ req[c] = Idle
          /\ mem' = u /\ UNCHANGED <<trash, stranded>> /\ Answers(c)
      BY <1>2 DEF Extend, Asks, Stores, StoreCall, Commit, files
    <2>2. delta \in Int
      BY ConstantsAssumption
    <2>3. HasSession(u) /\ FifoOK(u) /\ SameTrash(mem, u)
      BY <1>f, <2>1, <2>2, ExtendLives
    <2> HIDE DEF u
    <2>4. /\ Stands(u)
          /\ \A x \in PhotoIDs : \A i, slot :
                Brings(mem, i, x, slot) => Brings(u, i, x, slot)
      BY <1>f, <2>3, SameStands
    <2>5. req'[c] = Idle /\ PageLive(page'[c], mem')
      BY <1>0, <2>1, AnswerPage
    <2> QED BY <1>0, <1>i, <2>1, <2>3, <2>4, <2>5, CallMinded
  <1>3. ASSUME NEW ns \in SettingsChoices, SaveSettings(c, ns) PROVE Minded'
    <2> DEFINE u == AfterUpdateSettings(mem, ns)
    <2>1. /\ mem' = u /\ UNCHANGED <<trash, stranded>> /\ req' = req /\ page' = page
          /\ req[c] = Idle
      BY <1>3 DEF SaveSettings, Asks, Stores, StoreCall, Commit, files
    <2>2. u.session = mem.session /\ u.photos = mem.photos
      BY <1>f DEF AfterUpdateSettings, StoreType
    <2> HIDE DEF u
    <2>3. \A x \in PhotoIDs : IsTrashed(u, x) <=> IsTrashed(mem, x)
      BY <2>2 DEF IsTrashed, Known
    <2>4. SameTrash(mem, u) /\ FifoOK(u)
      BY <1>f, <2>2, <2>3, SessionStays
    <2>5. /\ Stands(u)
          /\ \A x \in PhotoIDs : \A i, slot :
                Brings(mem, i, x, slot) => Brings(u, i, x, slot)
      BY <1>f, <2>4, SameStands
    <2>6. PageLive(page'[c], u)
      BY <1>f, <2>1, <2>3, <2>4, PageStaysLive DEF SameTrash
    <2> QED BY <1>0, <1>i, <2>1, <2>4, <2>5, <2>6, CallMinded
  <1> QED BY <1>1, <1>2, <1>3

\* Steps of a scan hold no file, and leave alone what is trashed and the stack.
LEMMA WalkMinded ==
    ASSUME Minded, Typed', NEW c \in Clients, Clients = {c},
           SameTrash(mem, mem'), FifoOK(mem'), UNCHANGED <<trash, stranded>>, page' = page,
           req[c].pc \in {"idle", "walk"}, req'[c].pc \in {"idle", "walk"}
    PROVE  Minded'
  <1>1. /\ Stands(mem) /\ page[c] \in Page /\ PageLive(page[c], mem)
    BY MindedFacts
  <1>2. /\ Stands(mem')
        /\ \A x \in PhotoIDs : \A i, slot :
              Brings(mem, i, x, slot) => Brings(mem', i, x, slot)
    BY <1>1, SameStands
  <1>3. PageLive(page'[c], mem')
    BY <1>1, PageStaysLive DEF SameTrash
  <1>4. RequestLive(req'[c], mem')
    BY DEF RequestLive
  <1>5. \A x \in PhotoIDs : \A slot : ~Holds(req[c], x, slot)
    BY DEF Holds
  <1>6. \A x \in PhotoIDs, k \in Slots : trash'[<<x, k>>] # Nil =>
           \/ \E i : Brings(mem', i, x, <<x, k>>)
           \/ Holds(req'[c], x, <<x, k>>)
           \/ <<x, k>> \in stranded'
    BY <1>2, <1>5, MindedFacts
  <1> QED BY <1>2, <1>3, <1>4, <1>6, MindedNow

\* Scan.
LEMMA ScanMinded ==
    ASSUME Alone, Minded, Typed', NEW c \in Clients,
           \/ Rescan(c) \/ Prune(c)
           \/ \E id \in PhotoIDs : Visit(c, id)
    PROVE  Minded'
  <1>0. Clients = {c} /\ Typed
    BY OnlyClient DEF Minded, Alone
  <1>f. StoreType(mem) /\ FifoOK(mem) /\ req[c] \in Request
    BY <1>0, MindedFacts
  <1>i. Idle.pc = "idle" /\ SameTrash(mem, mem)
    BY DEF Idle, SameTrash
  <1>1. CASE Rescan(c)
    <2> DEFINE r == [pc |-> "walk", todo |-> InLibrary, seen |-> {}]
    <2>1. /\ req[c] = Idle /\ Waits(c, r) /\ mem' = mem
          /\ UNCHANGED <<trash, stranded>> /\ page' = page
      BY <1>1 DEF Rescan, Asks, StoreKept, vars, files
    <2>2. req'[c].pc = "walk"
      BY <1>0, <2>1, WaitsOnly
    <2> QED BY <1>0, <1>f, <1>i, <2>1, <2>2, WalkMinded
  <1>2. CASE Prune(c)
    <2> DEFINE u == AfterForgetMissing(mem, req[c].seen)
    <2>1. SameTrash(mem, u) /\ FifoOK(u)
      BY <1>f, ForgetSame
    <2>2. /\ mem' \in {mem, u} /\ UNCHANGED <<trash, stranded>> /\ page' = page
          /\ req[c].pc = "walk" /\ Waits(c, Idle)
      BY <1>2 DEF Prune, Commit, files
    <2> HIDE DEF u
    <2>3. req'[c] = Idle
      BY <1>0, <2>2, WaitsOnly
    <2> QED BY <1>0, <1>f, <1>i, <2>1, <2>2, <2>3, WalkMinded
  <1>3. ASSUME NEW id \in PhotoIDs, Visit(c, id) PROVE Minded'
    <2> DEFINE u == AfterUpsertPhoto(mem, id)
               r == [req[c] EXCEPT !.todo = @ \ {id}, !.seen = @ \cup {id}]
    <2>1. SameTrash(mem, u) /\ FifoOK(u)
      BY <1>f, UpsertSame
    <2>2. /\ mem' \in {mem, u} /\ UNCHANGED <<trash, stranded>> /\ page' = page
          /\ req[c].pc = "walk" /\ (Waits(c, r) \/ Waits(c, Idle))
      BY <1>3 DEF Visit, UpsertPhoto, StoreKept, vars, files
    <2>3. r.pc = "walk"
      BY <1>f, <2>2, RequestFields
    <2> HIDE DEF u, r
    <2>4. req'[c].pc \in {"idle", "walk"}
      BY <1>0, <1>i, <2>2, <2>3, WaitsOnly
    <2> QED BY <1>0, <1>f, <1>i, <2>1, <2>2, <2>4, WalkMinded
  <1> QED BY <1>1, <1>2, <1>3

\* The indexer, and the user's own file moves.
LEMMA OutsideMinded ==
    ASSUME Alone, Minded, Typed',
           \/ Restart
           \/ \E id \in PhotoIDs : Index(id) \/ Import(id)
           \/ \E id \in PhotoIDs, k \in Slots : PutBack(id, k)
           \/ UNCHANGED serviceVars
    PROVE  Minded'
  <1>1. ~Restart
    BY DEF Restart, Alone
  <1>2. /\ mem' = mem /\ req' = req /\ page' = page
        /\ \A slot \in PhotoIDs \X Slots : trash'[slot] # Nil =>
              /\ trash[slot] # Nil
              /\ slot \in stranded => slot \in stranded'
    <2>1. trash \in [PhotoIDs \X Slots -> 1 .. MaxImports \cup {Nil}]
      BY DEF Minded, Typed, FilesTyped
    <2> QED BY <1>1, <2>1 DEF Index, Import, PutBack, serviceVars, vars, files
  <1>3. Tracked(mem', trash', req', stranded')
    BY <1>2 DEF Minded, Tracked
  <1> QED BY <1>2, <1>3 DEF Minded

\* The first start finds nothing in the trash, and no file that speaks of it.
LEMMA InitMinded == ServiceInit => Minded
  <1> SUFFICES ASSUME ServiceInit PROVE Minded
    OBVIOUS
  <1>1. PICK f \in StateFiles : mem = Scanned(Opened(f, now)) /\ disk = mem
    BY DEF ServiceInit
  <1>2. /\ \A slot \in PhotoIDs \X Slots : trash[slot] = Nil
        /\ \A c \in Clients : req[c] = Idle /\ page[c] = NoPage
    BY DEF ServiceInit
  <1> DEFINE s == Opened(f, now)
  <1>3. StoreType(f) /\ FifoOK(f)
    BY StateFilesAssumption DEF FileOK
  <1>4. StoreType(s) /\ Derived(f, s, {}) /\ FifoOK(s)
    BY <1>3, OpenedDerived, FifoOpened
  <1> HIDE DEF s
  <1>5. Derived(s, mem, InLibrary) /\ mem.session = s.session
    <2>1. mem = Scanned(s)
      BY <1>1 DEF s
    <2>2. Scanned(s).session = s.session
      BY <1>4 DEF Scanned, AfterForgetMissing, StoreType
    <2> QED BY <1>4, <2>1, <2>2, ScannedDerived
  <1>6. FifoOK(mem)
    BY <1>4, <1>5 DEF FifoOK, HasSession
  <1>7. \A x \in PhotoIDs :
           /\ ~IsTrashed(mem, x)
           /\ \A i : ~Trashes(mem, i, x) /\ ~FromTrash(mem, i, x)
    <2> SUFFICES ASSUME NEW x \in PhotoIDs
                 PROVE  /\ ~IsTrashed(mem, x)
                        /\ \A i : ~Trashes(mem, i, x) /\ ~FromTrash(mem, i, x)
      OBVIOUS
    <2>1. /\ ~IsTrashed(f, x)
          /\ \A i : ~Trashes(f, i, x) /\ ~FromTrash(f, i, x)
      BY FirstFileAssumption DEF Trashes, FromTrash, Entry, OpOf
    <2>2. /\ ~IsTrashed(s, x)
          /\ \A i : ~Trashes(s, i, x) /\ ~FromTrash(s, i, x)
      BY <1>4, <2>1 DEF Derived, IsTrashed, Trashes, FromTrash
    <2> QED BY <1>5, <2>2 DEF Derived, IsTrashed, Trashes, FromTrash
  <1>8. Stands(mem)
    BY <1>7 DEF Stands
  <1>9. Tracked(mem, trash, req, stranded)
    BY <1>2 DEF Tracked
  <1>10. \A c \in Clients : PageLive(page[c], mem) /\ RequestLive(req[c], mem)
    BY <1>2 DEF PageLive, NoPage, RequestLive, Idle
  <1> QED BY <1>6, <1>8, <1>9, <1>10, ServiceInitTyped DEF Minded

LEMMA NextMinded ==
    ASSUME Alone, Minded, [ServiceNext]_serviceVars
    PROVE  Minded'
  <1>1. Typed'
    BY ServiceNextTyped DEF Minded
  <1>2. ASSUME NEW c \in Clients, Handle(c) PROVE Minded'
    BY <1>1, <1>2, CardsMinded, TrashMinded, MembersMinded, ClusterMinded,
       UndoMinded, SessionMinded, ScanMinded DEF Handle
  <1> QED BY <1>1, <1>2, OutsideMinded DEF ServiceNext

LEMMA MindedTracked == Minded => TrashTracked
  <1> SUFFICES ASSUME Minded, AllIdle, NEW x \in PhotoIDs, NEW k \in Slots,
                      trash[<<x, k>>] # Nil
               PROVE  TrackedBy(mem, x, <<x, k>>) \/ <<x, k>> \in stranded
    BY DEF TrashTracked
  <1>1. \A c \in Clients : \A slot : ~Holds(req[c], x, slot)
    BY IdleHoldsNothing DEF AllIdle, HoldsNothing
  <1> SUFFICES ASSUME <<x, k>> \notin stranded PROVE TrackedBy(mem, x, <<x, k>>)
    OBVIOUS
  <1>2. PICK i : Brings(mem, i, x, <<x, k>>)
    BY <1>1 DEF Minded, Tracked
  <1> DEFINE d == mem.session.stack[i]
  <1>3. /\ Entry(mem, i) /\ Decides(d, x) /\ d.ops[x].newState = "trashed"
        /\ d.ops[x].trashTo = <<x, k>>
    BY <1>2 DEF Brings, Trashes, OpOf
  <1>4. <<<<x, k>>, x>> \in Restores(d)
    BY <1>3 DEF Restores, Decides, Touched
  <1> QED BY <1>3, <1>4 DEF TrackedBy, Entry

\* No file is forgotten in the trash but one whose own restore failed
\* (TrashTracked): with one tab that keeps its batch, in a process that neither dies
\* nor fails to save, every other file there is one that an undo still brings back,
\* through clusters and undos of undone work, and while moves fail and a scan, the
\* indexer and the user change photos and files.  Two tabs, a crash, a failed save or
\* the end of a batch part what handleDecision and handleUndo move from what they
\* record (handlers.go:421-501).
THEOREM NothingOrphaned ==
    ASSUME Alone
    PROVE  ServiceSpec => []TrashTracked
  <1>1. ServiceInit => Minded
    BY InitMinded
  <1>2. Minded /\ [ServiceNext]_serviceVars => Minded'
    BY NextMinded
  <1>3. Minded => TrashTracked
    BY MindedTracked
  <1> QED BY <1>1, <1>2, <1>3, PTL DEF ServiceSpec
=============================================================================

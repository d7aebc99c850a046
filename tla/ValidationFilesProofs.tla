------------------------ MODULE ValidationFilesProofs ------------------------
(***************************************************************************)
(* Proofs about ValidationFiles: for any files, sweeps, cleanups and loads   *)
(* and any number of stops.                                                  *)
(***************************************************************************)
EXTENDS ValidationFiles, TLAPS

\* From its .meta on, a file is known: to loads, sweeps and requests.
Known == {f \in Files : save[f] \in {"dumping", "saved", "broken"}}

\* What a save has made so far; cleanups take from the files that are known.
Stage(f) ==
    /\ save[f] \in {"new", "reading", "stamping", "stopped"} => meta[f] = "absent"
    /\ save[f] = "new" => file[f] = "absent"
    /\ save[f] = "reading" => file[f] = "partial"
    /\ save[f] = "stamping" => file[f] = "complete"
    /\ f \in Known => file[f] \in {"complete", "absent"}
    /\ save[f] \in {"dumping", "broken"} => meta[f] \in {"empty", "absent"}
    /\ save[f] = "saved" => meta[f] \in {"full", "absent"}

Stages == old \subseteq Known /\ \A f \in Files : Stage(f)

Handling == {"file?", "file", "meta?", "meta", "discard", "discard file"}

Cleaner(p) ==
    /\ clean[p].at \in Handling => clean[p].f \in Known
    /\ clean[p].at \in {"meta?", "meta"} => file[clean[p].f] = "absent"
    /\ clean[p].at = "discard file" => meta[clean[p].f] = "absent"

Sweeper(s) ==
    /\ clean[s].todo \subseteq Known /\ clean[s].cutoff \subseteq old
    /\ clean[s].at \in {"file?", "file", "meta?", "meta"} => clean[s].f \in clean[s].cutoff
    /\ clean[s].at = "done" => clean[s].todo = {}
    /\ clean[s].at # "raised"

Called(c) ==
    /\ clean[c].at \in {"idle", "file?", "file", "meta?", "meta", "done", "raised"}
    /\ clean[c].at = "idle" => clean[c].f = None

Workers ==
    /\ \A p \in Cleaners : Cleaner(p)
    /\ \A s \in Sweeps : Sweeper(s)
    /\ \A c \in Cleans : Called(c)

At(p, f, places) == clean[p].f = f /\ clean[p].at \in places

\* Whoever took one half of a pair is about to take the other, or somebody else is.
Halves ==
    \A f \in Known :
        /\ file[f] = "absent" /\ meta[f] # "absent" =>
               \E p \in Cleaners : At(p, f, {"meta?", "meta", "discard"})
        /\ file[f] # "absent" /\ meta[f] = "absent" =>
               \E p \in Cleaners : At(p, f, {"discard file"})

Young ==
    \A f \in Known \ (old \cup hasty) : ~Requested(f) =>
        file[f] # "absent" /\ meta[f] # "absent" /\ \A p \in Cleaners : ~At(p, f, Handling)

Dealt(f) == Gone(f) \/ \E p \in Cleaners : At(p, f, Handling)

Swept ==
    \A s \in Sweeps : clean[s].at # "idle" => \A f \in clean[s].cutoff \ clean[s].todo : Dealt(f)

IInv == TypeOK /\ Stages /\ Workers /\ Halves /\ Young /\ Swept

----------------------------------------------------------------------------
(***************************************************************************)
(* What the steps do.                                                       *)
(***************************************************************************)
Places == {"idle", "file?", "file", "meta?", "meta", "next", "discard",
           "discard file", "done", "raised"}

LEMMA Went ==
    ASSUME TypeOK, NEW p \in Cleaners, NEW at \in Places, Goto(p, at)
    PROVE /\ clean' \in [Cleaners -> CleanStates]
          /\ \A q \in Cleaners \ {p} : clean'[q] = clean[q]
          /\ clean'[p].at = at /\ clean'[p].f = clean[p].f
          /\ clean'[p].todo = clean[p].todo /\ clean'[p].cutoff = clean[p].cutoff
<1> DEFINE q == clean[p]
           new == [q EXCEPT !.at = at]
<1>1. clean \in [Cleaners -> CleanStates] /\ q \in CleanStates
  BY DEF TypeOK
<1>2. clean' = [clean EXCEPT ![p] = new]
  BY <1>1 DEF Goto
<1> HIDE DEF q
<1>3. new \in CleanStates /\ new.at = at /\ new.f = q.f /\ new.todo = q.todo /\ new.cutoff = q.cutoff
  BY <1>1 DEF CleanStates, Places
<1> HIDE DEF new
<1>4. /\ clean' \in [Cleaners -> CleanStates] /\ clean'[p] = new
      /\ \A c \in Cleaners \ {p} : clean'[c] = clean[c]
  BY <1>1, <1>2, <1>3
<1> QED
  BY <1>3, <1>4 DEF q

\* Only p moves, and stays with its file.
Stays(p) ==
    /\ clean' \in [Cleaners -> CleanStates]
    /\ \A q \in Cleaners \ {p} : clean'[q] = clean[q]
    /\ clean'[p].f = clean[p].f /\ clean'[p].todo = clean[p].todo
    /\ clean'[p].cutoff = clean[p].cutoff

From(p, at) == clean[p].at = at
To(p, at) == clean'[p].at = at
Returns(p) == clean'[p].at = IF p \in Sweeps THEN "next" ELSE "done"
Raises(p) == clean'[p].at = IF p \in Sweeps THEN "discard" ELSE "raised"

Untouched == UNCHANGED <<file, meta>>
LosesFile(f) == file' = [file EXCEPT ![f] = "absent"] /\ UNCHANGED meta
LosesMeta(f) == meta' = [meta EXCEPT ![f] = "absent"] /\ UNCHANGED file

\* The steps of a cleanup, whoever called it, and of the sweep that discards.
Works(p) ==
    LET f == clean[p].f
    IN \/ From(p, "file?") /\ To(p, "meta?") /\ file[f] = "absent" /\ Untouched
       \/ From(p, "file?") /\ To(p, "file") /\ Untouched
       \/ From(p, "file") /\ To(p, "meta?") /\ LosesFile(f)
       \/ From(p, "file") /\ Raises(p) /\ file[f] = "absent" /\ Untouched
       \/ From(p, "meta?") /\ Returns(p) /\ meta[f] = "absent" /\ Untouched
       \/ From(p, "meta?") /\ To(p, "meta") /\ Untouched
       \/ From(p, "meta") /\ Returns(p) /\ LosesMeta(f)
       \/ From(p, "meta") /\ Raises(p) /\ meta[f] = "absent" /\ Untouched
       \/ From(p, "discard") /\ p \in Sweeps /\ To(p, "discard file") /\ LosesMeta(f)
       \/ From(p, "discard file") /\ p \in Sweeps /\ To(p, "next") /\ LosesFile(f)

LEMMA CleanupStep ==
    ASSUME IInv, NEW p \in Cleaners,
           Cleanup(p) \/ (p \in Sweeps /\ (DiscardMeta(p) \/ DiscardFile(p)))
    PROVE Stays(p) /\ Works(p) /\ UNCHANGED <<save, old, load, hasty, stops>>
<1>1. TypeOK
  BY DEF IInv
<1>2. ASSUME NEW at \in Places, Goto(p, at) PROVE Stays(p) /\ clean'[p].at = at
  BY <1>1, <1>2, Went DEF Stays
<1>3. file \in [Files -> {"absent", "partial", "complete"}]
      /\ meta \in [Files -> {"absent", "empty", "full"}]
  BY <1>1 DEF TypeOK
<1>4. CASE FileExists(p)
  BY <1>2, <1>4 DEF FileExists, Works, From, To, Untouched, Places
<1>5. CASE UnlinkFile(p)
  <2>1. CASE file[clean[p].f] = "absent"
    <3>1. Stays(p) /\ Raises(p)
      BY <1>2, <1>5, <2>1 DEF UnlinkFile, CleanupRaises, Raises, Places
    <3>2. Untouched
      BY <1>3, <1>5, <2>1 DEF UnlinkFile, Untouched
    <3> QED
      BY <1>5, <2>1, <3>1, <3>2 DEF UnlinkFile, Works, From
  <2>2. CASE file[clean[p].f] # "absent"
    BY <1>2, <1>5, <2>2 DEF UnlinkFile, Works, From, To, LosesFile, Places
  <2> QED
    BY <2>1, <2>2
<1>6. CASE MetaExists(p)
  BY <1>2, <1>6 DEF MetaExists, Cleaned, Returns, Works, From, To, Untouched, Places
<1>7. CASE UnlinkMeta(p)
  <2>1. CASE meta[clean[p].f] = "absent"
    <3>1. Stays(p) /\ Raises(p)
      BY <1>2, <1>7, <2>1 DEF UnlinkMeta, CleanupRaises, Raises, Places
    <3>2. Untouched
      BY <1>3, <1>7, <2>1 DEF UnlinkMeta, Untouched
    <3> QED
      BY <1>7, <2>1, <3>1, <3>2 DEF UnlinkMeta, Works, From
  <2>2. CASE meta[clean[p].f] # "absent"
    BY <1>2, <1>7, <2>2 DEF UnlinkMeta, Cleaned, Returns, Works, From, To, LosesMeta, Places
  <2> QED
    BY <2>1, <2>2
<1>8. CASE p \in Sweeps /\ DiscardMeta(p)
  BY <1>2, <1>8 DEF DiscardMeta, Works, From, To, LosesMeta, Places
<1>9. CASE p \in Sweeps /\ DiscardFile(p)
  BY <1>2, <1>9 DEF DiscardFile, Cleaned, Works, From, To, LosesFile, Places
<1> QED
  BY <1>4, <1>5, <1>6, <1>7, <1>8, <1>9 DEF Cleanup

----------------------------------------------------------------------------
(***************************************************************************)
(* Cleanups.                                                                *)
(***************************************************************************)
\* A cleanup takes from its own file only, and the file is known.
LEMMA OnlyItsFile ==
    ASSUME IInv, NEW p \in Cleaners, Works(p)
    PROVE /\ clean[p].at \in Handling /\ clean[p].f \in Known
          /\ file' \in [Files -> {"absent", "partial", "complete"}]
          /\ meta' \in [Files -> {"absent", "empty", "full"}]
          /\ \A g \in Files : g # clean[p].f => file'[g] = file[g] /\ meta'[g] = meta[g]
          /\ \A g \in Files : file'[g] \in {file[g], "absent"} /\ meta'[g] \in {meta[g], "absent"}
<1>1. clean[p].at \in Handling
  BY DEF Works, From, Handling
<1>2. clean[p].f \in Known
  BY <1>1 DEF IInv, Workers, Cleaner
<1>3. file \in [Files -> {"absent", "partial", "complete"}]
      /\ meta \in [Files -> {"absent", "empty", "full"}]
  BY DEF IInv, TypeOK
<1>4. Untouched \/ LosesFile(clean[p].f) \/ LosesMeta(clean[p].f)
  BY DEF Works
<1> QED
  BY <1>1, <1>2, <1>3, <1>4 DEF Untouched, LosesFile, LosesMeta

\* What a cleanup does to its file, and where it goes.
LEMMA Worked ==
    ASSUME IInv, NEW p \in Cleaners, Works(p)
    PROVE LET f == clean[p].f
              Same == file'[f] = file[f] /\ meta'[f] = meta[f]
          IN \/ From(p, "file?") /\ To(p, "meta?") /\ file[f] = "absent" /\ Same
             \/ From(p, "file?") /\ To(p, "file") /\ Same
             \/ From(p, "file") /\ To(p, "meta?") /\ file'[f] = "absent" /\ meta'[f] = meta[f]
             \/ From(p, "file") /\ Raises(p) /\ file[f] = "absent" /\ Same
             \/ From(p, "meta?") /\ Returns(p) /\ meta[f] = "absent" /\ Same
             \/ From(p, "meta?") /\ To(p, "meta") /\ Same
             \/ From(p, "meta") /\ Returns(p) /\ file'[f] = file[f] /\ meta'[f] = "absent"
             \/ From(p, "meta") /\ Raises(p) /\ meta[f] = "absent" /\ Same
             \/ /\ From(p, "discard") /\ p \in Sweeps /\ To(p, "discard file")
                /\ file'[f] = file[f] /\ meta'[f] = "absent"
             \/ /\ From(p, "discard file") /\ p \in Sweeps /\ To(p, "next")
                /\ file'[f] = "absent" /\ meta'[f] = meta[f]
<1> DEFINE f == clean[p].f
<1>1. f \in Files
  BY OnlyItsFile DEF Known
<1>2. file \in [Files -> {"absent", "partial", "complete"}]
      /\ meta \in [Files -> {"absent", "empty", "full"}]
  BY DEF IInv, TypeOK
<1> HIDE DEF f
<1>3. Untouched => file'[f] = file[f] /\ meta'[f] = meta[f]
  BY DEF Untouched
<1>4. LosesFile(f) => file'[f] = "absent" /\ meta'[f] = meta[f]
  BY <1>1, <1>2 DEF LosesFile
<1>5. LosesMeta(f) => file'[f] = file[f] /\ meta'[f] = "absent"
  BY <1>1, <1>2 DEF LosesMeta
<1> QED
  BY <1>3, <1>4, <1>5 DEF Works, f

LEMMA WorkKeepsStages ==
    ASSUME IInv, NEW p \in Cleaners, Works(p), UNCHANGED <<save, old>>
    PROVE Stages'
BY OnlyItsFile DEF IInv, Stages, Stage, Known

LEMMA WorkKeepsWorkers ==
    ASSUME IInv, NEW p \in Cleaners, Stays(p), Works(p), UNCHANGED <<save, old>>
    PROVE Workers'
<1> DEFINE f == clean[p].f
<1>1. f \in Known /\ f \in Files /\ clean[p].at \in Handling
  BY OnlyItsFile DEF Known
<1>2. ASSUME NEW q \in Cleaners, q # p PROVE Cleaner(q)'
  <2>1. clean'[q] = clean[q] /\ Cleaner(q)
    BY <1>2 DEF IInv, Workers, Stays
  <2>2. clean[q].at \in Handling => clean[q].f \in Files
    BY <2>1 DEF Cleaner, Known
  <2> QED
    BY <2>1, <2>2, OnlyItsFile DEF Cleaner, Known, Handling
<1>3. Cleaner(p)'
  <2>1. Cleaner(p) /\ clean'[p].f = f
    BY DEF IInv, Workers, Stays
  <2> HIDE DEF f
  <2> QED
    BY <1>1, <2>1, Worked DEF Cleaner, Known, Handling, f, From, To, Raises, Returns
<1>4. ASSUME NEW s \in Sweeps PROVE Sweeper(s)'
  <2>1. Sweeper(s)
    BY DEF IInv, Workers
  <2>2. CASE s # p
    BY <2>1, <2>2 DEF Sweeper, Stays, Known, Cleaners
  <2>3. CASE s = p
    BY <2>1, <2>3, Worked DEF Sweeper, Stays, Known, From, To, Raises, Returns
  <2> QED
    BY <2>2, <2>3
<1>5. ASSUME NEW c \in Cleans PROVE Called(c)'
  <2>1. Called(c) /\ c \notin Sweeps
    BY CallsAssumption DEF IInv, Workers
  <2>2. CASE c # p
    BY <2>1, <2>2 DEF Called, Stays, Cleaners
  <2>3. CASE c = p
    BY <2>1, <2>3, Worked DEF Called, Stays, From, To, Raises, Returns
  <2> QED
    BY <2>2, <2>3
<1> QED
  BY <1>2, <1>3, <1>4, <1>5 DEF Workers

LEMMA WorkKeepsHalves ==
    ASSUME IInv, NEW p \in Cleaners, Stays(p), Works(p), UNCHANGED <<save, old>>
    PROVE Halves'
<1> SUFFICES ASSUME NEW f \in Known
             PROVE  /\ file'[f] = "absent" /\ meta'[f] # "absent" =>
                           \E q \in Cleaners : At(q, f, {"meta?", "meta", "discard"})'
                    /\ file'[f] # "absent" /\ meta'[f] = "absent" =>
                           \E q \in Cleaners : At(q, f, {"discard file"})'
  BY DEF Halves, Known
<1>1. f \in Files /\ Cleaner(p)
  BY DEF Known, IInv, Workers
<1>2. \A places : \A q \in Cleaners : q # p /\ At(q, f, places) => At(q, f, places)'
  BY DEF At, Stays
<1>3. ASSUME file'[f] = "absent", meta'[f] # "absent"
      PROVE  \E q \in Cleaners : At(q, f, {"meta?", "meta", "discard"})'
  <2>1. meta[f] # "absent"
    BY <1>1, <1>3, OnlyItsFile
  <2>2. CASE f # clean[p].f
    <3>1. file[f] = "absent"
      BY <1>1, <1>3, <2>2, OnlyItsFile
    <3>2. PICK q \in Cleaners : At(q, f, {"meta?", "meta", "discard"})
      BY <2>1, <3>1 DEF IInv, Halves
    <3> QED
      BY <1>2, <2>2, <3>2 DEF At
  <2>3. CASE f = clean[p].f
    <3>1. CASE To(p, "meta?") \/ To(p, "meta")
      BY <2>3, <3>1 DEF At, To, Stays
    <3>2. CASE ~To(p, "meta?") /\ ~To(p, "meta")
      <4>1. file[f] = "absent" /\ clean[p].at \notin {"meta?", "meta", "discard"}
        BY <1>1, <1>3, <2>1, <2>3, <3>2, Worked DEF Cleaner, From, To, Raises, Returns
      <4>2. PICK q \in Cleaners : At(q, f, {"meta?", "meta", "discard"})
        BY <2>1, <4>1 DEF IInv, Halves
      <4> QED
        BY <1>2, <4>1, <4>2 DEF At
    <3> QED
      BY <3>1, <3>2
  <2> QED
    BY <2>2, <2>3
<1>4. ASSUME file'[f] # "absent", meta'[f] = "absent"
      PROVE  \E q \in Cleaners : At(q, f, {"discard file"})'
  <2>1. file[f] # "absent"
    BY <1>1, <1>4, OnlyItsFile
  <2>2. CASE f # clean[p].f
    <3>1. meta[f] = "absent"
      BY <1>1, <1>4, <2>2, OnlyItsFile
    <3>2. PICK q \in Cleaners : At(q, f, {"discard file"})
      BY <2>1, <3>1 DEF IInv, Halves
    <3> QED
      BY <1>2, <2>2, <3>2 DEF At
  <2>3. CASE f = clean[p].f
    <3>1. CASE To(p, "discard file")
      BY <2>3, <3>1 DEF At, To, Stays
    <3>2. CASE ~To(p, "discard file")
      <4>1. meta[f] = "absent" /\ clean[p].at # "discard file"
        BY <1>1, <1>4, <2>1, <2>3, <3>2, Worked DEF Cleaner, From, To, Raises, Returns
      <4>2. PICK q \in Cleaners : At(q, f, {"discard file"})
        BY <2>1, <4>1 DEF IInv, Halves
      <4> QED
        BY <1>2, <4>1, <4>2 DEF At
    <3> QED
      BY <3>1, <3>2
  <2> QED
    BY <2>2, <2>3
<1> QED
  BY <1>3, <1>4

LEMMA WorkKeepsYoung ==
    ASSUME IInv, NEW p \in Cleaners, Stays(p), Works(p), UNCHANGED <<save, old, hasty>>
    PROVE Young'
<1> SUFFICES ASSUME NEW f \in Known \ (old \cup hasty), ~Requested(f)'
             PROVE  /\ file'[f] # "absent" /\ meta'[f] # "absent"
                    /\ \A q \in Cleaners : ~At(q, f, Handling)'
  BY DEF Young, Known
<1>1. ~Requested(f)
  BY DEF Requested, Stays, Cleaners
<1>2. /\ file[f] # "absent" /\ meta[f] # "absent"
      /\ \A q \in Cleaners : ~At(q, f, Handling)
  BY <1>1 DEF IInv, Young
<1>3. clean[p].f # f /\ f \in Files
  BY <1>2, OnlyItsFile DEF At, Known
<1> QED
  BY <1>2, <1>3, OnlyItsFile DEF At, Stays

LEMMA WorkKeepsDealt ==
    ASSUME IInv, NEW p \in Cleaners, Stays(p), Works(p), NEW f \in Known, Dealt(f)
    PROVE Dealt(f)'
<1>1. f \in Files /\ Cleaner(p) /\ Halves
  BY DEF Known, IInv, Workers
<1>2. \A places : \A q \in Cleaners : q # p /\ At(q, f, places) => At(q, f, places)'
  BY DEF At, Stays
<1>3. CASE Gone(f)
  BY <1>1, <1>3, OnlyItsFile DEF Dealt, Gone
<1>4. CASE \E q \in Cleaners \ {p} : At(q, f, Handling)
  BY <1>2, <1>4 DEF Dealt
<1>5. CASE At(p, f, Handling)
  <2>1. CASE To(p, "file") \/ To(p, "meta?") \/ To(p, "meta") \/ To(p, "discard")
             \/ To(p, "discard file")
    BY <1>5, <2>1 DEF Dealt, At, To, Stays, Handling
  <2>2. CASE Gone(f)'
    BY <2>2 DEF Dealt
  <2>3. CASE From(p, "file") /\ file[f] = "absent" /\ meta[f] # "absent"
    <3>1. PICK q \in Cleaners : At(q, f, {"meta?", "meta", "discard"})
      BY <1>1, <2>3 DEF Halves
    <3>2. q # p /\ At(q, f, Handling)
      BY <2>3, <3>1 DEF At, From, Handling
    <3> QED
      BY <1>2, <3>2 DEF Dealt
  <2> QED
    BY <1>1, <1>5, <2>1, <2>2, <2>3, Worked
    DEF Cleaner, At, Gone, From, To, Raises, Returns
<1> QED
  BY <1>3, <1>4, <1>5 DEF Dealt

LEMMA WorkKeepsSwept ==
    ASSUME IInv, NEW p \in Cleaners, Stays(p), Works(p), UNCHANGED <<save, old>>
    PROVE Swept'
<1> SUFFICES ASSUME NEW s \in Sweeps, clean'[s].at # "idle",
                    NEW f \in clean'[s].cutoff \ clean'[s].todo
             PROVE  Dealt(f)'
  BY DEF Swept
<1>1. clean[s].at # "idle" /\ clean'[s].cutoff = clean[s].cutoff /\ clean'[s].todo = clean[s].todo
  <2>1. clean[p].at # "idle"
    BY OnlyItsFile DEF Handling
  <2> QED
    BY <2>1 DEF Stays, Cleaners
<1>2. f \in Known
  BY <1>1 DEF IInv, Workers, Sweeper, Stages
<1> QED
  BY <1>1, <1>2, WorkKeepsDealt DEF IInv, Swept

----------------------------------------------------------------------------
(***************************************************************************)
(* Calls and sweeps, which touch no file.                                   *)
(***************************************************************************)
Begins(c) ==
    /\ c \in Cleans /\ clean[c].at = "idle" /\ clean'[c].at = "file?"
    /\ save[clean'[c].f] = "saved" /\ clean'[c].f \in Files
    /\ UNCHANGED hasty

Scans(s) ==
    /\ s \in Sweeps /\ clean[s].at = "idle" /\ clean'[s].at = "next" /\ clean'[s].cutoff = old
    /\ clean'[s].todo = {f \in Files : meta[f] # "absent"}
    /\ UNCHANGED hasty

Reads(s) ==
    /\ s \in Sweeps /\ clean[s].at = "next" /\ clean'[s].f \in clean[s].todo
    /\ clean'[s].todo = clean[s].todo \ {clean'[s].f} /\ clean'[s].cutoff = clean[s].cutoff
    /\ \/ meta[clean'[s].f] # "full" /\ clean'[s].at = "discard"
       \/ /\ meta[clean'[s].f] = "full" /\ clean'[s].f \in clean[s].cutoff
          /\ clean'[s].at = "file?"
       \/ /\ meta[clean'[s].f] = "full" /\ clean'[s].f \notin clean[s].cutoff
          /\ clean'[s].at = "next"
    /\ hasty' = IF meta[clean'[s].f] = "empty" THEN hasty \cup {clean'[s].f} ELSE hasty

Finishes(s) ==
    /\ s \in Sweeps /\ clean[s].at = "next" /\ clean[s].todo = {}
    /\ clean'[s].at = "done" /\ clean'[s].f = clean[s].f
    /\ clean'[s].todo = clean[s].todo /\ clean'[s].cutoff = clean[s].cutoff
    /\ UNCHANGED hasty

LooksOnly(p) ==
    /\ clean' \in [Cleaners -> CleanStates]
    /\ \A q \in Cleaners \ {p} : clean'[q] = clean[q]
    /\ UNCHANGED <<file, meta, save, old>>
    /\ Begins(p) \/ Scans(p) \/ Reads(p) \/ Finishes(p)

LEMMA Moved ==
    ASSUME TypeOK, NEW p \in Cleaners, NEW q \in CleanStates, clean' = [clean EXCEPT ![p] = q]
    PROVE /\ clean' \in [Cleaners -> CleanStates] /\ clean'[p] = q
          /\ \A c \in Cleaners \ {p} : clean'[c] = clean[c]
BY DEF TypeOK

LEMMA SweepStep ==
    ASSUME IInv, NEW p \in Cleaners,
           \/ p \in Cleans /\ \E f \in Files : CallCleanup(p, f)
           \/ p \in Sweeps /\ (Scan(p) \/ SweepEnds(p) \/ \E f \in Files : ReadMeta(p, f))
    PROVE LooksOnly(p) /\ UNCHANGED <<load, stops>>
<1>1. TypeOK
  BY DEF IInv
<1>2. CASE p \in Cleans /\ \E f \in Files : CallCleanup(p, f)
  <2>1. PICK f \in Files : CallCleanup(p, f)
    BY <1>2
  <2> DEFINE new == [Idle EXCEPT !.at = "file?", !.f = f]
  <2>2. new \in CleanStates /\ new.at = "file?" /\ new.f = f
    BY DEF Idle, CleanStates
  <2>3. clean' = [clean EXCEPT ![p] = new] /\ clean[p].at = "idle" /\ save[f] = "saved"
        /\ UNCHANGED <<file, meta, save, old, load, hasty, stops>>
    BY <2>1 DEF CallCleanup
  <2> HIDE DEF new
  <2>4. /\ clean' \in [Cleaners -> CleanStates] /\ clean'[p] = new
        /\ \A c \in Cleaners \ {p} : clean'[c] = clean[c]
    BY <1>1, <2>2, <2>3, Moved
  <2> QED
    BY <1>2, <2>2, <2>3, <2>4 DEF LooksOnly, Begins
<1>3. CASE p \in Sweeps /\ Scan(p)
  <2> DEFINE todo == {f \in Files : meta[f] # "absent"}
             new == [at |-> "next", f |-> None, todo |-> todo, cutoff |-> old]
  <2>1. new \in CleanStates /\ new.at = "next" /\ new.todo = todo /\ new.cutoff = old
    BY <1>1 DEF CleanStates, TypeOK
  <2>2. clean' = [clean EXCEPT ![p] = new] /\ clean[p].at = "idle"
        /\ UNCHANGED <<file, meta, save, old, load, hasty, stops>>
    BY <1>3 DEF Scan, Cutoff
  <2> HIDE DEF new
  <2>3. /\ clean' \in [Cleaners -> CleanStates] /\ clean'[p] = new
        /\ \A c \in Cleaners \ {p} : clean'[c] = clean[c]
    BY <1>1, <2>1, <2>2, Moved
  <2> QED
    BY <1>3, <2>1, <2>2, <2>3 DEF LooksOnly, Scans
<1>4. CASE p \in Sweeps /\ SweepEnds(p)
  <2>1. Goto(p, "done") /\ clean[p].at = "next" /\ clean[p].todo = {}
        /\ UNCHANGED <<file, meta, save, old, load, hasty, stops>>
    BY <1>4 DEF SweepEnds
  <2>2. "done" \in Places
    BY DEF Places
  <2> QED
    BY <1>1, <1>4, <2>1, <2>2, Went DEF LooksOnly, Finishes
<1>5. CASE p \in Sweeps /\ \E f \in Files : ReadMeta(p, f)
  <2>1. PICK f \in Files : ReadMeta(p, f)
    BY <1>5
  <2> DEFINE q == clean[p]
             at == IF meta[f] # "full" THEN "discard" ELSE IF f \in q.cutoff THEN "file?" ELSE "next"
             new == [q EXCEPT !.f = f, !.todo = q.todo \ {f}, !.at = at]
  <2>2. q \in CleanStates /\ clean \in [Cleaners -> CleanStates]
    BY <1>1 DEF TypeOK
  <2>3. clean' = [clean EXCEPT ![p] = new]
    BY <2>1, <2>2 DEF ReadMeta
  <2>4. q.at = "next" /\ f \in q.todo /\ UNCHANGED <<file, meta, save, old, load, stops>>
        /\ hasty' = IF meta[f] = "empty" THEN hasty \cup {f} ELSE hasty
    BY <2>1 DEF ReadMeta
  <2>5. at \in {"discard", "file?", "next"}
    OBVIOUS
  <2>6. \/ meta[f] # "full" /\ at = "discard"
        \/ meta[f] = "full" /\ f \in q.cutoff /\ at = "file?"
        \/ meta[f] = "full" /\ f \notin q.cutoff /\ at = "next"
    OBVIOUS
  <2> HIDE DEF q, at
  <2>7. /\ new \in CleanStates /\ new.at = at /\ new.f = f /\ new.todo = q.todo \ {f}
        /\ new.cutoff = q.cutoff
    BY <2>2, <2>5 DEF CleanStates
  <2> HIDE DEF new
  <2>8. /\ clean' \in [Cleaners -> CleanStates] /\ clean'[p] = new
        /\ \A c \in Cleaners \ {p} : clean'[c] = clean[c]
    BY <1>1, <2>3, <2>7, Moved
  <2>9. Reads(p)
    BY <1>5, <2>4, <2>6, <2>7, <2>8 DEF Reads, q
  <2> QED
    BY <2>4, <2>8, <2>9 DEF LooksOnly
<1> QED
  BY <1>2, <1>3, <1>4, <1>5

LEMMA LookKeepsWorkers ==
    ASSUME IInv, NEW p \in Cleaners, LooksOnly(p)
    PROVE Stages' /\ Workers'
<1>1. Stages'
  BY DEF LooksOnly, IInv, Stages, Stage, Known
<1>2. \A q \in Cleaners : Cleaner(q) /\ Stages
  BY DEF IInv, Workers
<1>3. \A f \in Files : meta[f] # "absent" => f \in Known
  <2>1. \A f \in Files : save[f] \in {"new", "reading", "stamping", "dumping", "saved", "stopped", "broken"}
    BY DEF IInv, TypeOK
  <2> QED
    BY <1>2, <2>1 DEF Stages, Stage, Known
<1>4. ASSUME NEW q \in Cleaners PROVE Cleaner(q)'
  <2>1. CASE q # p
    BY <1>2, <2>1 DEF LooksOnly, Cleaner, Known
  <2>2. CASE q = p /\ Begins(p)
    BY <2>2 DEF LooksOnly, Begins, Cleaner, Known, Handling
  <2>3. CASE q = p /\ Scans(p)
    BY <2>3 DEF LooksOnly, Scans, Cleaner, Known, Handling
  <2>4. CASE q = p /\ Reads(p)
    <3>1. clean[p].todo \subseteq Known
      BY <2>4 DEF IInv, Workers, Sweeper, Reads
    <3> QED
      BY <2>4, <3>1 DEF LooksOnly, Reads, Cleaner, Known, Handling
  <2>5. CASE q = p /\ Finishes(p)
    BY <2>5 DEF LooksOnly, Finishes, Cleaner, Known, Handling
  <2> QED
    BY <2>1, <2>2, <2>3, <2>4, <2>5 DEF LooksOnly
<1>5. ASSUME NEW s \in Sweeps PROVE Sweeper(s)'
  <2>1. Sweeper(s) /\ s \in Cleaners /\ s \notin Cleans
    BY CallsAssumption DEF IInv, Workers, Cleaners
  <2>2. CASE s # p
    BY <2>1, <2>2 DEF LooksOnly, Sweeper, Known
  <2>3. CASE s = p /\ Scans(p)
    BY <1>3, <2>3 DEF LooksOnly, Scans, Sweeper, Known
  <2>4. CASE s = p /\ Reads(p)
    BY <2>1, <2>4 DEF LooksOnly, Reads, Sweeper, Known
  <2>5. CASE s = p /\ Finishes(p)
    BY <2>1, <2>5 DEF LooksOnly, Finishes, Sweeper, Known
  <2> QED
    BY <2>1, <2>2, <2>3, <2>4, <2>5 DEF LooksOnly, Begins
<1>6. ASSUME NEW c \in Cleans PROVE Called(c)'
  <2>1. Called(c) /\ c \in Cleaners /\ c \notin Sweeps
    BY CallsAssumption DEF IInv, Workers, Cleaners
  <2>2. CASE c # p
    BY <2>1, <2>2 DEF LooksOnly, Called
  <2>3. CASE c = p
    <3>1. Begins(p)
      BY <2>1, <2>3 DEF LooksOnly, Scans, Reads, Finishes
    <3> QED
      BY <2>3, <3>1 DEF Begins, Called
  <2> QED
    BY <2>2, <2>3
<1> QED
  BY <1>1, <1>4, <1>5, <1>6 DEF Workers

\* Who only looks was not at work on a file.
LEMMA LookKeepsPlaces ==
    ASSUME IInv, NEW p \in Cleaners, LooksOnly(p), NEW f, NEW places \in SUBSET Handling,
           \E q \in Cleaners : At(q, f, places)
    PROVE \E q \in Cleaners : At(q, f, places)'
<1>1. PICK q \in Cleaners : At(q, f, places)
  OBVIOUS
<1>2. clean[p].at \notin Handling
  BY DEF LooksOnly, Begins, Scans, Reads, Finishes, Handling
<1> QED
  BY <1>1, <1>2 DEF At, LooksOnly

LEMMA LookKeepsHalves ==
    ASSUME IInv, NEW p \in Cleaners, LooksOnly(p)
    PROVE Halves'
<1>1. Known' = Known /\ UNCHANGED <<file, meta>>
  BY DEF LooksOnly, Known
<1>2. {"meta?", "meta", "discard"} \subseteq Handling /\ {"discard file"} \subseteq Handling
  BY DEF Handling
<1> SUFFICES ASSUME NEW f \in Known
             PROVE  /\ file[f] = "absent" /\ meta[f] # "absent" =>
                           \E q \in Cleaners : At(q, f, {"meta?", "meta", "discard"})'
                    /\ file[f] # "absent" /\ meta[f] = "absent" =>
                           \E q \in Cleaners : At(q, f, {"discard file"})'
  BY <1>1 DEF Halves
<1> QED
  BY <1>2, LookKeepsPlaces DEF IInv, Halves

LEMMA LookKeepsYoung ==
    ASSUME IInv, NEW p \in Cleaners, LooksOnly(p)
    PROVE Young'
<1>1. Known' = Known /\ UNCHANGED <<file, meta, old>> /\ hasty \subseteq hasty'
  BY DEF LooksOnly, Known, Begins, Scans, Reads, Finishes
<1> SUFFICES ASSUME NEW f \in Known, f \notin old, f \notin hasty', ~Requested(f)'
             PROVE  /\ file[f] # "absent" /\ meta[f] # "absent"
                    /\ \A q \in Cleaners : ~At(q, f, Handling)'
  BY <1>1 DEF Young
<1>2. f \in Files /\ f # None
  BY FilesAssumption DEF Known
<1>3. ~Requested(f)
  <2>1. ASSUME NEW c \in Cleans, clean[c].f = f PROVE FALSE
    <3>1. c \in Cleaners /\ clean[c].at # "idle" /\ c \notin Sweeps
      BY <1>2, <2>1, CallsAssumption DEF IInv, Workers, Called, Cleaners
    <3>2. c # p
      BY <3>1 DEF LooksOnly, Begins, Scans, Reads, Finishes
    <3>3. clean'[c].f = f
      BY <2>1, <3>1, <3>2 DEF LooksOnly
    <3> QED
      BY <3>3 DEF Requested
  <2> QED
    BY <2>1 DEF Requested
<1>4. /\ file[f] # "absent" /\ meta[f] # "absent"
      /\ \A q \in Cleaners : ~At(q, f, Handling)
  BY <1>1, <1>3 DEF IInv, Young
<1>5. ~At(p, f, Handling)'
  <2>1. CASE Begins(p)
    BY <2>1 DEF Begins, Requested, At
  <2>2. CASE Scans(p) \/ Finishes(p)
    BY <2>2 DEF Scans, Finishes, At, Handling
  <2>3. CASE Reads(p)
    <3>1. clean[p].cutoff \subseteq old
      BY <2>3 DEF Reads, IInv, Workers, Sweeper
    <3>2. meta[f] \in {"empty", "full"}
      BY <1>2, <1>4 DEF IInv, TypeOK
    <3> QED
      BY <2>3, <3>1, <3>2 DEF Reads, At, Handling
  <2> QED
    BY <2>1, <2>2, <2>3 DEF LooksOnly
<1> QED
  BY <1>4, <1>5 DEF LooksOnly, At

LEMMA LookKeepsSwept ==
    ASSUME IInv, NEW p \in Cleaners, LooksOnly(p)
    PROVE Swept'
<1> SUFFICES ASSUME NEW s \in Sweeps, clean'[s].at # "idle",
                    NEW f \in clean'[s].cutoff \ clean'[s].todo
             PROVE  Dealt(f)'
  BY DEF Swept
<1>1. Known' = Known /\ UNCHANGED <<file, meta>> /\ s \in Cleaners
  BY DEF LooksOnly, Known, Cleaners
<1>2. ASSUME Dealt(f) PROVE Dealt(f)'
  <2>1. CASE Gone(f)
    BY <1>1, <2>1 DEF Gone, Dealt
  <2>2. CASE \E q \in Cleaners : At(q, f, Handling)
    BY <2>2, LookKeepsPlaces DEF Dealt
  <2> QED
    BY <1>2, <2>1, <2>2 DEF Dealt
<1>3. CASE s # p
  BY <1>1, <1>2, <1>3 DEF LooksOnly, IInv, Swept
<1>4. CASE s = p /\ Scans(p)
  <2>1. f \in old /\ f \in Known /\ f \in Files /\ meta[f] = "absent"
    BY <1>4 DEF Scans, IInv, Stages, Known
  <2>2. CASE file[f] = "absent"
    BY <1>2, <2>1, <2>2 DEF Dealt, Gone
  <2>3. CASE file[f] # "absent"
    <3>1. PICK q \in Cleaners : At(q, f, {"discard file"})
      BY <2>1, <2>3 DEF IInv, Halves
    <3> QED
      BY <1>2, <3>1 DEF Dealt, At, Handling
  <2> QED
    BY <2>2, <2>3
<1>5. CASE s = p /\ Reads(p)
  <2>1. CASE f = clean'[s].f
    <3>1. clean'[s].at \in {"discard", "file?"}
      BY <1>5, <2>1 DEF Reads
    <3> QED
      BY <1>1, <2>1, <3>1 DEF Dealt, At, Handling
  <2>2. CASE f # clean'[s].f
    <3>1. f \in clean[s].cutoff \ clean[s].todo /\ clean[s].at # "idle"
      BY <1>5, <2>2 DEF Reads
    <3> QED
      BY <1>2, <3>1 DEF IInv, Swept
  <2> QED
    BY <2>1, <2>2
<1>6. CASE s = p /\ Finishes(p)
  BY <1>2, <1>6 DEF Finishes, IInv, Swept
<1>7. CASE s = p /\ Begins(p)
  BY <1>7, CallsAssumption DEF Begins
<1> QED
  BY <1>3, <1>4, <1>5, <1>6, <1>7 DEF LooksOnly

----------------------------------------------------------------------------
(***************************************************************************)
(* Saves and loads.                                                         *)
(***************************************************************************)
\* A save changes nothing of the files that are known but what their .meta
\* holds, and makes a file known with both of its halves.
Makes(f) ==
    /\ UNCHANGED <<clean, hasty>>
    /\ file' \in [Files -> {"absent", "partial", "complete"}]
    /\ meta' \in [Files -> {"absent", "empty", "full"}]
    /\ save' \in [Files -> {"new", "reading", "stamping", "dumping", "saved", "stopped", "broken"}]
    /\ \A g \in Files \ {f} : file'[g] = file[g] /\ meta'[g] = meta[g] /\ save'[g] = save[g]
    /\ Stage(f)'
    /\ Known \subseteq Known' /\ Known' \subseteq Files
    /\ old \subseteq old' /\ old' \subseteq Known'
    /\ f \in Known => file'[f] = file[f] /\ (meta'[f] = "absent" <=> meta[f] = "absent")
    /\ f \in Known' \ Known => file'[f] # "absent" /\ meta'[f] # "absent"

LEMMA SaveStep ==
    ASSUME IInv, NEW f \in Files, Save(f)
    PROVE Makes(f) /\ UNCHANGED load /\ stops' \in 0..MaxStops
<1>1. /\ file \in [Files -> {"absent", "partial", "complete"}]
      /\ meta \in [Files -> {"absent", "empty", "full"}]
      /\ save \in [Files -> {"new", "reading", "stamping", "dumping", "saved", "stopped", "broken"}]
      /\ stops \in 0..MaxStops
      /\ MaxStops \in Nat
  BY StopsAssumption DEF IInv, TypeOK
<1>2. Stage(f) /\ old \subseteq Known
  BY DEF IInv, Stages
<1>3. CASE CreateFile(f)
  BY <1>1, <1>2, <1>3 DEF CreateFile, Saves, Makes, Stage, Known
<1>4. CASE WriteFile(f)
  BY <1>1, <1>2, <1>4 DEF WriteFile, Saves, Makes, Stage, Known
<1>5. CASE OpenMeta(f)
  BY <1>1, <1>2, <1>5 DEF OpenMeta, Saves, Makes, Stage, Known
<1>6. CASE DumpMeta(f)
  BY <1>1, <1>2, <1>6 DEF DumpMeta, Saves, Makes, Stage, Known
<1>7. CASE SaveStops(f)
  <2>1. Makes(f) /\ UNCHANGED load
    BY <1>1, <1>2, <1>7 DEF SaveStops, Makes, Stage, Known
  <2>2. stops' \in 0..MaxStops
    BY <1>1, <1>7 DEF SaveStops
  <2> QED
    BY <2>1, <2>2
<1>8. CASE Age(f)
  BY <1>1, <1>2, <1>8 DEF Age, Makes, Stage, Known
<1> QED
  BY <1>3, <1>4, <1>5, <1>6, <1>7, <1>8 DEF Save

LEMMA MakeKeeps ==
    ASSUME IInv, NEW f \in Files, Makes(f)
    PROVE Stages' /\ Workers' /\ Halves' /\ Young' /\ Swept'
<1>1. ASSUME NEW g \in Known
      PROVE  file'[g] = file[g] /\ (meta'[g] = "absent" <=> meta[g] = "absent")
  BY <1>1 DEF Makes, Known
<1>2. ASSUME NEW g \in Known', g \notin Known
      PROVE  file'[g] # "absent" /\ meta'[g] # "absent"
  BY <1>2 DEF Makes, Known
<1>3. Known \subseteq Known' /\ Known \subseteq Files
  BY DEF Makes, Known
<1>4. Stages'
  BY DEF Makes, IInv, Stages, Stage, Known
<1>5. Workers'
  <2>1. ASSUME NEW p \in Cleaners PROVE Cleaner(p)'
    <3>1. Cleaner(p) /\ clean' = clean
      BY DEF IInv, Workers, Makes
    <3> QED
      BY <1>1, <1>3, <3>1 DEF Cleaner, Handling
  <2>2. ASSUME NEW s \in Sweeps PROVE Sweeper(s)'
    <3>1. Sweeper(s) /\ clean' = clean /\ old \subseteq old'
      BY DEF IInv, Workers, Makes
    <3> QED
      BY <1>3, <3>1 DEF Sweeper
  <2>3. ASSUME NEW c \in Cleans PROVE Called(c)'
    BY DEF IInv, Workers, Makes, Called
  <2> QED
    BY <2>1, <2>2, <2>3 DEF Workers
<1>6. \A p, g, places : At(p, g, places)' <=> At(p, g, places)
  BY DEF Makes, At
<1>7. Halves'
  BY <1>1, <1>2, <1>6 DEF IInv, Halves
<1>8. Young'
  <2> SUFFICES ASSUME NEW g \in Known', g \notin old', g \notin hasty', ~Requested(g)'
               PROVE  /\ file'[g] # "absent" /\ meta'[g] # "absent"
                      /\ \A q \in Cleaners : ~At(q, g, Handling)'
    BY DEF Young
  <2>1. g \notin old /\ g \notin hasty /\ ~Requested(g)
    BY DEF Makes, Requested
  <2>2. CASE g \in Known
    BY <1>1, <1>6, <2>1, <2>2 DEF IInv, Young
  <2>3. CASE g \notin Known
    <3>1. \A q \in Cleaners : ~At(q, g, Handling)
      BY <2>3 DEF IInv, Workers, Cleaner, At
    <3> QED
      BY <1>2, <1>6, <2>3, <3>1
  <2> QED
    BY <2>2, <2>3
<1>9. Swept'
  <2> SUFFICES ASSUME NEW s \in Sweeps, clean'[s].at # "idle",
                      NEW g \in clean'[s].cutoff \ clean'[s].todo
               PROVE  Dealt(g)'
    BY DEF Swept
  <2>1. Dealt(g) /\ g \in Known
    BY DEF IInv, Swept, Makes, Workers, Sweeper, Stages
  <2> QED
    BY <1>1, <1>6, <2>1 DEF Dealt, Gone
<1> QED
  BY <1>4, <1>5, <1>7, <1>8, <1>9

----------------------------------------------------------------------------
(***************************************************************************)
(* The inductive invariant and the theorems.                                *)
(***************************************************************************)
LEMMA Initially == Init => IInv
<1> SUFFICES ASSUME Init PROVE IInv
  OBVIOUS
<1>1. Idle \in CleanStates /\ Idle.at = "idle" /\ Idle.f = None /\ Idle.todo = {} /\ Idle.cutoff = {}
  BY DEF Idle, CleanStates
<1>2. /\ clean \in [Cleaners -> CleanStates]
      /\ \A p \in Cleaners : clean[p] = Idle
  BY <1>1 DEF Init
<1>3. Sweeps \subseteq Cleaners /\ Cleans \subseteq Cleaners
  BY DEF Cleaners
<1>4. TypeOK
  BY <1>1, <1>2, <1>3, StopsAssumption DEF Init, TypeOK
<1>5. Stages /\ Known = {}
  BY DEF Init, Stages, Stage, Known
<1>6. Workers
  BY <1>1, <1>2, <1>3 DEF Workers, Cleaner, Sweeper, Called, Handling
<1>7. Halves /\ Young /\ Swept
  BY <1>1, <1>2, <1>3, <1>5 DEF Halves, Young, Swept
<1> QED
  BY <1>4, <1>5, <1>6, <1>7 DEF IInv

LEMMA Preserved ==
    ASSUME IInv, [Next]_vars
    PROVE IInv'
<1>1. TypeOK /\ Workers
  BY DEF IInv
<1>2. CASE UNCHANGED vars
  <2>1. TypeOK' /\ Stages' /\ Workers'
    BY <1>2 DEF vars, IInv, TypeOK, Stages, Stage, Workers, Cleaner, Sweeper, Called, Known
  <2>2. Halves' /\ Young' /\ Swept'
    <3>1. Halves'
      <4>1. \A p, f, places : At(p, f, places)' <=> At(p, f, places)
        BY <1>2 DEF vars, At
      <4>2. Known' = Known /\ UNCHANGED <<file, meta>>
        BY <1>2 DEF vars, Known
      <4> QED
        BY <4>1, <4>2 DEF IInv, Halves
    <3>2. Young'
      BY <1>2 DEF vars, IInv, Young, Known, Requested, At
    <3>3. Swept'
      BY <1>2 DEF vars, IInv, Swept, Dealt, Gone, At
    <3> QED
      BY <3>1, <3>2, <3>3
  <2> QED
    BY <2>1, <2>2 DEF IInv
<1>3. ASSUME Workers', UNCHANGED <<save, load, stops>>, old' = old, hasty' \subseteq Files,
             clean' \in [Cleaners -> CleanStates],
             file' \in [Files -> {"absent", "partial", "complete"}],
             meta' \in [Files -> {"absent", "empty", "full"}]
      PROVE  TypeOK'
  BY <1>1, <1>3 DEF TypeOK, Workers, Sweeper
<1>4. ASSUME NEW p \in Cleaners,
             Cleanup(p) \/ (p \in Sweeps /\ (DiscardMeta(p) \/ DiscardFile(p)))
      PROVE  IInv'
  <2>1. Stays(p) /\ Works(p) /\ UNCHANGED <<save, old, load, hasty, stops>>
    BY <1>4, CleanupStep
  <2>2. Stages' /\ Workers' /\ Halves' /\ Young' /\ Swept'
    BY <2>1, WorkKeepsStages, WorkKeepsWorkers, WorkKeepsHalves, WorkKeepsYoung, WorkKeepsSwept
  <2>3. hasty' \subseteq Files
    BY <1>1, <2>1 DEF TypeOK
  <2>4. TypeOK'
    BY <1>3, <2>1, <2>2, <2>3, OnlyItsFile DEF Stays
  <2> QED
    BY <2>2, <2>4 DEF IInv
<1>5. ASSUME NEW p \in Cleaners,
             \/ p \in Cleans /\ \E f \in Files : CallCleanup(p, f)
             \/ p \in Sweeps /\ (Scan(p) \/ SweepEnds(p) \/ \E f \in Files : ReadMeta(p, f))
      PROVE  IInv'
  <2>1. LooksOnly(p) /\ UNCHANGED <<load, stops>>
    BY <1>5, SweepStep
  <2>2. Stages' /\ Workers' /\ Halves' /\ Young' /\ Swept'
    BY <2>1, LookKeepsWorkers, LookKeepsHalves, LookKeepsYoung, LookKeepsSwept
  <2>3. hasty' \subseteq Files
    <3>1. \A s \in Sweeps : clean[s].todo \subseteq Files
      BY <1>1 DEF Workers, Sweeper, Known
    <3>2. hasty \subseteq Files
      BY <1>1 DEF TypeOK
    <3>3. hasty' = hasty \/ \E s \in Sweeps : \E f \in clean[s].todo : hasty' = hasty \cup {f}
      BY <2>1 DEF LooksOnly, Begins, Scans, Reads, Finishes
    <3> QED
      BY <3>1, <3>2, <3>3
  <2>4. TypeOK'
    BY <1>1, <1>3, <2>1, <2>2, <2>3 DEF LooksOnly, TypeOK
  <2> QED
    BY <2>2, <2>4 DEF IInv
<1>6. ASSUME NEW f \in Files, Save(f) PROVE IInv'
  <2>1. Makes(f) /\ UNCHANGED load /\ stops' \in 0..MaxStops
    BY <1>6, SaveStep
  <2>2. Stages' /\ Workers' /\ Halves' /\ Young' /\ Swept'
    BY <2>1, MakeKeeps
  <2>3. TypeOK'
    BY <1>1, <2>1 DEF Makes, TypeOK
  <2> QED
    BY <2>2, <2>3 DEF IInv
<1>7. ASSUME NEW l \in Loads, LoadMeta(l) \/ \E f \in Files : LoadExists(l, f) PROVE IInv'
  <2> DEFINE LoadStates == [at : {"idle", "open", "not found", "loaded", "raised"},
                            f : Files \cup {None}]
  <2>1. UNCHANGED <<file, meta, save, old, clean, hasty, stops>>
    BY <1>7 DEF LoadMeta, LoadExists
  <2>2. load' \in [Loads -> LoadStates]
    <3>1. load \in [Loads -> LoadStates]
      BY <1>1 DEF TypeOK
    <3>2. ASSUME NEW q \in LoadStates, NEW at \in {"loaded", "raised"}
          PROVE  [q EXCEPT !.at = at] \in LoadStates
      OBVIOUS
    <3>3. ASSUME LoadMeta(l) PROVE load' \in [Loads -> LoadStates]
      <4>1. PICK at \in {"loaded", "raised"} : load' = [load EXCEPT ![l] = [load[l] EXCEPT !.at = at]]
        BY <3>1, <3>3 DEF LoadMeta
      <4>2. [load[l] EXCEPT !.at = at] \in LoadStates
        BY <3>1, <3>2
      <4> HIDE DEF LoadStates
      <4> QED
        BY <3>1, <4>1, <4>2
    <3>4. ASSUME NEW f \in Files, LoadExists(l, f) PROVE load' \in [Loads -> LoadStates]
      <4>1. PICK at \in {"not found", "open"} : load' = [load EXCEPT ![l] = [at |-> at, f |-> f]]
        BY <3>4 DEF LoadExists
      <4>2. [at |-> at, f |-> f] \in LoadStates
        OBVIOUS
      <4> HIDE DEF LoadStates
      <4> QED
        BY <3>1, <4>1, <4>2
    <3> QED
      BY <1>7, <3>3, <3>4
  <2>3. TypeOK'
    BY <1>1, <2>1, <2>2 DEF TypeOK
  <2>4. Stages' /\ Workers'
    BY <2>1 DEF IInv, Stages, Stage, Workers, Cleaner, Sweeper, Called, Known
  <2>5. Halves' /\ Young' /\ Swept'
    <3>1. Halves'
      <4>1. \A p, f, places : At(p, f, places)' <=> At(p, f, places)
        BY <2>1 DEF At
      <4>2. Known' = Known /\ UNCHANGED <<file, meta>>
        BY <2>1 DEF Known
      <4> QED
        BY <4>1, <4>2 DEF IInv, Halves
    <3>2. Young'
      BY <2>1 DEF IInv, Young, Known, Requested, At
    <3>3. Swept'
      BY <2>1 DEF IInv, Swept, Dealt, Gone, At
    <3> QED
      BY <3>1, <3>2, <3>3
  <2> QED
    BY <2>3, <2>4, <2>5 DEF IInv
<1> QED
  BY <1>2, <1>4, <1>5, <1>6, <1>7 DEF Next, Sweep, Cleaners

LEMMA Inductive == Spec => []IInv
BY Initially, Preserved, PTL DEF Spec

\* The files, the saves, the cleanups and the loads keep their types, and a
\* sweep never raises, whatever other cleanups take from under it.
THEOREM TypeCorrect == Spec => []TypeOK
<1>1. IInv => TypeOK
  BY DEF IInv
<1> QED
  BY Inductive, <1>1, PTL

\* A saved file that is not old, that nobody asked to clean up and whose .meta
\* no sweep read before it was dumped is there.
THEOREM YoungFilesAreKept == Spec => []YoungFilesSurvive
<1>1. IInv => YoungFilesSurvive
  <2> SUFFICES ASSUME IInv, NEW f \in Files \ (old \cup hasty), save[f] = "saved", ~Requested(f)
               PROVE  Present(f)
    BY DEF YoungFilesSurvive
  <2>1. f \in Known /\ Stage(f)
    BY DEF Known, IInv, Stages
  <2> QED
    BY <2>1 DEF IInv, Young, Stage, Present
<1> QED
  BY Inductive, <1>1, PTL

\* Overlapping cleanups, some of which raise half-way, leave no half of a pair.
THEOREM NoHalfIsLeft == Spec => []PairsStayTogether
<1>1. IInv => PairsStayTogether
  <2> SUFFICES ASSUME IInv, NEW f \in Files, save[f] = "saved", \A p \in Cleaners : ~Handles(p, f)
               PROVE  Present(f) \/ Gone(f)
    BY DEF PairsStayTogether
  <2>1. f \in Known /\ Stage(f)
    BY DEF Known, IInv, Stages
  <2>2. \A p \in Cleaners : ~At(p, f, {"meta?", "meta", "discard"}) /\ ~At(p, f, {"discard file"})
    BY DEF At, Handles
  <2> QED
    BY <2>1, <2>2 DEF IInv, Halves, Stage, Present, Gone
<1> QED
  BY Inductive, <1>1, PTL

\* A sweep that ended leaves nothing of what was old when it began, unless
\* another cleanup is still at it.
THEOREM OldFilesAreSwept == Spec => []SweptFilesAreGone
<1>1. IInv => SweptFilesAreGone
  <2> SUFFICES ASSUME IInv, NEW s \in Sweeps, clean[s].at = "done", NEW f \in clean[s].cutoff
               PROVE  Gone(f) \/ \E p \in Cleaners : Handles(p, f)
    BY DEF SweptFilesAreGone
  <2>1. clean[s].todo = {}
    BY DEF IInv, Workers, Sweeper
  <2>2. Dealt(f)
    BY <2>1 DEF IInv, Swept
  <2> QED
    BY <2>2 DEF Dealt, At, Handles, Handling
<1> QED
  BY Inductive, <1>1, PTL
=============================================================================

-------------------------- MODULE ValidationFiles ---------------------------
(***************************************************************************)
(* The validation files of TempFileUtil: an upload is kept as <id>.file and *)
(* <id>.meta in a directory that all threads and processes of a host share. *)
(* Saving, loading and the two cleanups take one step per file operation.   *)
(***************************************************************************)
EXTENDS Naturals

CONSTANTS
    Files,   \* the ids save_validation_file hands out
    Sweeps,  \* calls of cleanup_old_validation_files
    Cleans,  \* calls of cleanup_validation_file
    Loads,   \* calls of load_validation_file
    MaxStops \* saves whose read of the upload raises or whose process stops

ASSUME CallsAssumption == Sweeps \cap Cleans = {}

ASSUME StopsAssumption == MaxStops \in Nat

None == "none"

ASSUME FilesAssumption == None \notin Files

Cleaners == Sweeps \cup Cleans

VARIABLES
    file,   \* [Files -> {"absent", "partial", "complete"}]
    meta,   \* [Files -> {"absent", "empty", "full"}]
    save,   \* where the save of every file is
    old,    \* files stamped more than max_age_minutes ago
    clean,  \* per cleanup: where it is, its file, the files left, the cutoff
    load,   \* per load: where it is and its file
    hasty,  \* files some sweep read between open and dump of the .meta (history)
    stops

vars == <<file, meta, save, old, clean, load, hasty, stops>>

Idle == [at |-> "idle", f |-> None, todo |-> {}, cutoff |-> {}]

Init ==
    /\ file = [f \in Files |-> "absent"]
    /\ meta = [f \in Files |-> "absent"]
    /\ save = [f \in Files |-> "new"]
    /\ old = {}
    /\ clean = [p \in Cleaners |-> Idle]
    /\ load = [l \in Loads |-> [at |-> "idle", f |-> None]]
    /\ hasty = {}
    /\ stops = 0

----------------------------------------------------------------------------
(* save_validation_file; what was unlinked while open stays absent *)

Saves(f, from, to) ==
    /\ save[f] = from
    /\ save' = [save EXCEPT ![f] = to]
    /\ UNCHANGED <<old, clean, load, hasty, stops>>

CreateFile(f) ==
    /\ Saves(f, "new", "reading")
    /\ file' = [file EXCEPT ![f] = "partial"]
    /\ UNCHANGED meta

WriteFile(f) ==
    /\ Saves(f, "reading", "stamping")
    /\ file' = [file EXCEPT ![f] = IF @ = "absent" THEN @ ELSE "complete"]
    /\ UNCHANGED meta

\* The timestamp is taken, then the .meta is opened.
OpenMeta(f) ==
    /\ Saves(f, "stamping", "dumping")
    /\ meta' = [meta EXCEPT ![f] = "empty"]
    /\ UNCHANGED file

DumpMeta(f) ==
    /\ Saves(f, "dumping", "saved")
    /\ meta' = [meta EXCEPT ![f] = IF @ = "absent" THEN @ ELSE "full"]
    /\ UNCHANGED file

\* Stopped earlier, nothing ever finds the .file; later, the .meta stays empty.
SaveStops(f) ==
    /\ save[f] \in {"reading", "stamping", "dumping"}
    /\ stops < MaxStops
    /\ stops' = stops + 1
    /\ save' = [save EXCEPT ![f] = IF @ = "dumping" THEN "broken" ELSE "stopped"]
    /\ UNCHANGED <<file, meta, old, clean, load, hasty>>

Age(f) ==
    /\ save[f] \in {"dumping", "saved", "broken"} /\ f \notin old
    /\ old' = old \cup {f}
    /\ UNCHANGED <<file, meta, save, clean, load, hasty, stops>>

----------------------------------------------------------------------------
(* cleanup_validation_file(f), called by a request or by a sweep *)

Goto(p, at) == clean' = [clean EXCEPT ![p].at = at]

\* The call returned.
Cleaned(p) == Goto(p, IF p \in Sweeps THEN "next" ELSE "done")

\* Mutant: only a broken .meta is caught, not a failing cleanup.
CleanupRaisesUncaught(p) == Goto(p, "raised")

\* FileNotFoundError: caught by a sweep, raised to a request.
CleanupRaises(p) == Goto(p, IF p \in Sweeps THEN "discard" ELSE "raised")

\* Ids are known once they are returned.
CallCleanup(c, f) ==
    /\ clean[c].at = "idle" /\ save[f] = "saved"
    /\ clean' = [clean EXCEPT ![c] = [Idle EXCEPT !.at = "file?", !.f = f]]
    /\ UNCHANGED <<file, meta, save, old, load, hasty, stops>>

FileExists(p) ==
    /\ clean[p].at = "file?"
    /\ Goto(p, IF file[clean[p].f] = "absent" THEN "meta?" ELSE "file")
    /\ UNCHANGED <<file, meta, save, old, load, hasty, stops>>

UnlinkFile(p) ==
    /\ clean[p].at = "file"
    /\ IF file[clean[p].f] = "absent" THEN CleanupRaises(p) ELSE Goto(p, "meta?")
    /\ file' = [file EXCEPT ![clean[p].f] = "absent"]
    /\ UNCHANGED <<meta, save, old, load, hasty, stops>>

MetaExists(p) ==
    /\ clean[p].at = "meta?"
    /\ IF meta[clean[p].f] = "absent" THEN Cleaned(p) ELSE Goto(p, "meta")
    /\ UNCHANGED <<file, meta, save, old, load, hasty, stops>>

UnlinkMeta(p) ==
    /\ clean[p].at = "meta"
    /\ IF meta[clean[p].f] = "absent" THEN CleanupRaises(p) ELSE Cleaned(p)
    /\ meta' = [meta EXCEPT ![clean[p].f] = "absent"]
    /\ UNCHANGED <<file, save, old, load, hasty, stops>>

----------------------------------------------------------------------------
(* cleanup_old_validation_files *)

\* Mutant: the comparison with the cutoff is turned round.
CutoffReversed == {f \in Files : save[f] = "saved"} \ old

Cutoff == old

Scan(s) ==
    /\ clean[s].at = "idle"
    /\ clean' = [clean EXCEPT ![s] =
          [at |-> "next", f |-> None, todo |-> {f \in Files : meta[f] # "absent"}, cutoff |-> Cutoff]]
    /\ UNCHANGED <<file, meta, save, old, load, hasty, stops>>

\* A .meta that is gone or empty raises, which the except takes for a broken one.
ReadMeta(s, f) ==
    /\ clean[s].at = "next" /\ f \in clean[s].todo
    /\ clean' = [clean EXCEPT ![s] =
          [@ EXCEPT !.f = f, !.todo = clean[s].todo \ {f},
                    !.at = IF meta[f] # "full" THEN "discard"
                           ELSE IF f \in clean[s].cutoff THEN "file?" ELSE "next"]]
    /\ hasty' = IF meta[f] = "empty" THEN hasty \cup {f} ELSE hasty
    /\ UNCHANGED <<file, meta, save, old, load, stops>>

DiscardMeta(s) ==
    /\ clean[s].at = "discard"
    /\ meta' = [meta EXCEPT ![clean[s].f] = "absent"]
    /\ Goto(s, "discard file")
    /\ UNCHANGED <<file, save, old, load, hasty, stops>>

\* Mutant: with_suffix forgotten, the .meta is unlinked once more.
DiscardMetaAgain(s) ==
    /\ clean[s].at = "discard file"
    /\ Cleaned(s)
    /\ UNCHANGED <<file, meta, save, old, load, hasty, stops>>

DiscardFile(s) ==
    /\ clean[s].at = "discard file"
    /\ file' = [file EXCEPT ![clean[s].f] = "absent"]
    /\ Cleaned(s)
    /\ UNCHANGED <<meta, save, old, load, hasty, stops>>

\* Mutant: the return is inside the loop.
SweepEndsEarly(s) ==
    /\ clean[s].at = "next"
    /\ Goto(s, "done")
    /\ UNCHANGED <<file, meta, save, old, load, hasty, stops>>

SweepEnds(s) ==
    /\ clean[s].at = "next" /\ clean[s].todo = {}
    /\ Goto(s, "done")
    /\ UNCHANGED <<file, meta, save, old, load, hasty, stops>>

----------------------------------------------------------------------------
(* load_validation_file *)

LoadExists(l, f) ==
    /\ load[l].at = "idle" /\ save[f] = "saved"
    /\ load' = [load EXCEPT ![l] =
          [at |-> IF "absent" \in {file[f], meta[f]} THEN "not found" ELSE "open", f |-> f]]
    /\ UNCHANGED <<file, meta, save, old, clean, hasty, stops>>

LoadMeta(l) ==
    /\ load[l].at = "open"
    /\ load' = [load EXCEPT ![l].at = IF meta[load[l].f] = "full" THEN "loaded" ELSE "raised"]
    /\ UNCHANGED <<file, meta, save, old, clean, hasty, stops>>

----------------------------------------------------------------------------
Save(f) == CreateFile(f) \/ WriteFile(f) \/ OpenMeta(f) \/ DumpMeta(f) \/ SaveStops(f) \/ Age(f)
Cleanup(p) == FileExists(p) \/ UnlinkFile(p) \/ MetaExists(p) \/ UnlinkMeta(p)
Sweep(s) ==
    \/ Scan(s) \/ DiscardMeta(s) \/ DiscardFile(s) \/ SweepEnds(s)
    \/ \E f \in Files : ReadMeta(s, f)

Next ==
    \/ \E f \in Files : Save(f)
    \/ \E p \in Cleaners : Cleanup(p)
    \/ \E s \in Sweeps : Sweep(s)
    \/ \E c \in Cleans, f \in Files : CallCleanup(c, f)
    \/ \E l \in Loads : LoadMeta(l) \/ \E f \in Files : LoadExists(l, f)

Spec == Init /\ [][Next]_vars

----------------------------------------------------------------------------
CleanStates == [at : {"idle", "file?", "file", "meta?", "meta", "next", "discard",
                      "discard file", "done", "raised"},
                f : Files \cup {None}, todo : SUBSET Files, cutoff : SUBSET Files]

\* A sweep never raises.
TypeOK ==
    /\ file \in [Files -> {"absent", "partial", "complete"}]
    /\ meta \in [Files -> {"absent", "empty", "full"}]
    /\ save \in [Files -> {"new", "reading", "stamping", "dumping", "saved", "stopped", "broken"}]
    /\ old \subseteq Files
    /\ clean \in [Cleaners -> CleanStates]
    /\ \A s \in Sweeps : clean[s].at # "raised"
    /\ load \in [Loads -> [at : {"idle", "open", "not found", "loaded", "raised"},
                           f : Files \cup {None}]]
    /\ hasty \subseteq Files
    /\ stops \in 0..MaxStops

Present(f) == file[f] = "complete" /\ meta[f] = "full"
Gone(f) == file[f] = "absent" /\ meta[f] = "absent"
Requested(f) == \E c \in Cleans : clean[c].f = f

\* A file that was saved, is not old and was not asked to be cleaned up is there,
\* whatever sweeps run, unless one of them read its .meta before it was dumped.
YoungFilesSurvive ==
    \A f \in Files \ (old \cup hasty) : save[f] = "saved" /\ ~Requested(f) => Present(f)

Handles(p, f) ==
    clean[p].f = f /\ clean[p].at \in {"file?", "file", "meta?", "meta", "discard", "discard file"}

\* However cleanups overlap and whichever of them raises, once none is at work
\* on a saved file, its .file and its .meta are both there or both gone.
PairsStayTogether ==
    \A f \in Files :
        save[f] = "saved" /\ (\A p \in Cleaners : ~Handles(p, f)) => Present(f) \/ Gone(f)

\* What was old when a sweep began is gone when it ends, or another cleanup is
\* about to finish it, also if its save stopped at the .meta or other cleanups
\* took its files away under the sweep.
SweptFilesAreGone ==
    \A s \in Sweeps : clean[s].at = "done" =>
        \A f \in clean[s].cutoff : Gone(f) \/ \E p \in Cleaners : Handles(p, f)
=============================================================================

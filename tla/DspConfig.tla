---- MODULE DspConfig ----
(***************************************************************************)
(* The configuration of the native DSP: how dspctl saves it and rolls it   *)
(* back (dsp_config.c), how the player watches the file and publishes a    *)
(* chain of filters, and how the decode thread takes the chain over at the *)
(* start of a stream or between two blocks (dsp.c, process.c).             *)
(*                                                                         *)
(* A file is the document it holds and a stamp, which stands for what the  *)
(* watcher compares: time of modification, size and inode.  A chain is the *)
(* document it was made from and the rate its filters are designed for.    *)
(* d.pending is exchanged atomically; all else of a chain is private.      *)
(***************************************************************************)
EXTENDS Integers, Sequences, FiniteSetsExt

CONSTANTS
    Docs, Invalid,  \* documents, and those the parser refuses
    First,          \* the document that is there at the beginning
    Rates, NoRate,  \* sample rates, and d.rate = 0
    Unfits,         \* sets of <<document, rate>>: filters that cannot be designed for the rate
    None,
    Ramp, Blocks,   \* RAMP_FRAMES, and the sizes of blocks
    Chains,         \* chains that may be allocated at once
    MaxSaves,       \* bounds on what is saved and rolled back, on what goes wrong with the files,
    MaxFaults,      \* on the streams that are opened
    MaxStreams,     \* and on the times the player is started
    MaxStarts

\* Documents and chains are not None, no filter is designed for a rate of 0, and there is memory for
\* one chain more than have an owner.
DspAssumption ==
    /\ First \in Docs \ Invalid /\ None \notin Docs
    /\ NoRate \notin Rates /\ \A u \in Unfits : u \subseteq Docs \X Rates
    /\ Ramp \in Nat \ {0} /\ Blocks \subseteq Nat
    /\ None \notin Chains /\ IsFiniteSet(Chains) /\ Cardinality(Chains) > 5
ASSUME DspAssumption

VARIABLES
    unfit,                      \* one of Unfits
    files,                      \* path, .bak, .tmp and .rejected
    ctl,                        \* dspctl: where it is, and the document it saves
    start,                      \* dsp_init, when it found nothing at path: the documents that were in
                                \* force, or about to be, since then, and whether .bak went away
    up,                         \* the player runs, and uses the DSP
    watch,                      \* the watcher: where it is, its signature, document and chain, and
                                \* whether it read another file than it has the signature of
    watching,                   \* dsp_watch_running
    chain,                      \* the chains that are allocated
    current, retiring, pending, \* d.current, d.retiring, d.pending
    rate, ramp, managed,        \* d.rate, d.ramp_position; whose flags are in d.replaygain_*
    dec,                        \* the decode thread: where it is, and the chain it took
    count,                      \* of saves, faults, streams and closes
    inForce,                    \* the documents one of which is in force
    overNothing,                \* dspctl dropped the backup with nothing at path
    unseen,                     \* it brought back the file the watcher has the signature of, not the
                                \* one it read
    raced                       \* the flags were set for another chain than the one in use

fileVars == <<files, ctl, inForce, overNothing, unseen>>
chainVars == <<chain, current, retiring, pending, rate, ramp, managed, raced>>
playerVars == <<up, watch, watching, dec, chainVars>>
vars == <<unfit, fileVars, start, playerVars, count>>

NoFile == [doc |-> None, stamp |-> 0]
Idle == [pc |-> "idle", doc |-> None]
NoStart == [pc |-> "no", since |-> {}, missed |-> FALSE]
NoWatch == [pc |-> "off", sig |-> 0, doc |-> None, made |-> None, other |-> FALSE]
NoDec == [pc |-> "idle", queued |-> None]

Init ==
    /\ unfit \in Unfits
    /\ files = [path |-> [doc |-> First, stamp |-> 1], bak |-> NoFile, tmp |-> NoFile, rejected |-> NoFile]
    /\ ctl = Idle /\ start = NoStart /\ up = FALSE /\ watch = NoWatch /\ watching = FALSE
    /\ chain = <<>>
    /\ current = None /\ retiring = None /\ pending = None
    /\ rate = NoRate /\ ramp = 0 /\ managed = None /\ dec = NoDec
    /\ count = [saves |-> 0, faults |-> 0, streams |-> 0, starts |-> 0]
    /\ inForce = {First} /\ overNothing = FALSE /\ unseen = FALSE /\ raced = FALSE

----------------------------------------------------------------------------
(* dspctl. *)

There(f) == files[f] # NoFile
CtlAt(pc) == ctl.pc = pc /\ UNCHANGED <<unfit, playerVars>>
Goes(pc) == ctl' = [ctl EXCEPT !.pc = pc]
Done == ctl' = Idle
MayFail == count.faults < MaxFaults
Fails == MayFail /\ count' = [count EXCEPT !.faults = @ + 1]
Well == UNCHANGED count

\* What dspctl does while a player is started, between the two files that it tries.
Meanwhile ==
    start' = IF start.pc = "no" THEN start
             ELSE [start EXCEPT !.since = @ \cup inForce' \cup {ctl'.doc},
                                !.missed = @ \/ (There("bak") /\ files'.bak = NoFile)]

\* The document is written to .tmp and goes through the parser of the player, with no stream open;
\* nobody else looks at .tmp.
SaveBegin ==
    /\ CtlAt("idle") /\ count.saves < MaxSaves
    /\ \E doc \in Docs, written \in BOOLEAN :
       /\ written \/ MayFail
       /\ count' = [count EXCEPT !.saves = @ + 1, !.faults = IF written THEN @ ELSE @ + 1]
       /\ IF written /\ doc \notin Invalid
          THEN /\ ctl' = [pc |-> "drop", doc |-> doc]
               /\ files' = [files EXCEPT !.tmp = [doc |-> doc, stamp |-> count.saves + 2]]
          ELSE Done /\ files' = [files EXCEPT !.tmp = NoFile]
    /\ UNCHANGED <<inForce, overNothing, unseen>> /\ Meanwhile
SaveDropBackup ==
    /\ CtlAt("drop") /\ Goes("keep")
    /\ files' = [files EXCEPT !.bak = NoFile]
    /\ overNothing' = (overNothing \/ ~There("path"))
    /\ Well /\ UNCHANGED <<inForce, unseen>> /\ Meanwhile
\* Faulty variant: the document that works is removed, not kept.
SaveKeepNot ==
    /\ CtlAt("keep")
    /\ Well /\ Goes("place") /\ files' = [files EXCEPT !.path = NoFile]
    /\ UNCHANGED <<inForce, overNothing, unseen>> /\ Meanwhile
SaveKeep ==
    /\ CtlAt("keep")
    /\ \/ Well /\ Goes("place") /\ files' = IF There("path") THEN [files EXCEPT !.bak = files.path, !.path = NoFile] ELSE files
       \/ Fails /\ There("path") /\ Done /\ files' = [files EXCEPT !.tmp = NoFile]
    /\ UNCHANGED <<inForce, overNothing, unseen>> /\ Meanwhile
SavePlace ==
    /\ CtlAt("place") /\ Done
    /\ \/ Well /\ files' = [files EXCEPT !.path = files.tmp, !.tmp = NoFile] /\ inForce' = {ctl.doc}
       \/ /\ Fails /\ UNCHANGED inForce
          /\ files' = [files EXCEPT !.tmp = NoFile, !.path = IF There("bak") THEN files.bak ELSE @, !.bak = NoFile]
    /\ UNCHANGED <<overNothing, unseen>> /\ Meanwhile

RollbackBegin ==
    /\ CtlAt("idle") /\ count.saves < MaxSaves /\ There("bak")
    /\ ctl' = [pc |-> "reject", doc |-> files.bak.doc]
    /\ count' = [count EXCEPT !.saves = @ + 1]
    /\ files' = [files EXCEPT !.rejected = NoFile]
    /\ UNCHANGED <<inForce, overNothing, unseen>> /\ Meanwhile
RollbackReject ==
    /\ CtlAt("reject")
    /\ \/ Well /\ Goes("restore") /\ files' = IF There("path") THEN [files EXCEPT !.rejected = files.path, !.path = NoFile] ELSE files
       \/ Fails /\ There("path") /\ Done /\ UNCHANGED files
    /\ UNCHANGED <<inForce, overNothing, unseen>> /\ Meanwhile
RollbackRestore ==
    /\ CtlAt("restore") /\ Done
    /\ \/ Well /\ files' = [files EXCEPT !.path = files.bak, !.bak = NoFile] /\ inForce' = {ctl.doc}
          /\ unseen' = (unseen \/ (watch.other /\ files.bak.stamp = watch.sig))
       \/ /\ Fails /\ UNCHANGED <<inForce, unseen>>
          /\ files' = IF There("rejected") THEN [files EXCEPT !.path = files.rejected, !.rejected = NoFile] ELSE files
    /\ UNCHANGED overNothing /\ Meanwhile

\* dspctl is killed; the document that is in force may be any of the two from then on.
Killed ==
    /\ ctl.pc # "idle" /\ Fails /\ Done
    /\ inForce' = inForce \cup {ctl.doc}
    /\ UNCHANGED <<unfit, files, playerVars, overNothing, unseen>> /\ Meanwhile

----------------------------------------------------------------------------
(* Chains. *)

Fits(doc, r) == r = NoRate \/ <<doc, r>> \notin unfit
live == DOMAIN chain
Fresh == CHOOSE c \in Chains : c \notin live
Freed(set) == [c \in live \ set |-> chain[c]]
Made(f, doc, r) == [c \in DOMAIN f \cup {Fresh} |-> IF c = Fresh THEN [doc |-> doc, rate |-> r] ELSE f[c]]

\* dsp_config_load_options
Loads(f) == IF files[f].doc \notin Invalid THEN files[f].doc ELSE None
Starts(doc) ==
    /\ up' = TRUE /\ watching' = TRUE
    /\ watch' = [NoWatch EXCEPT !.pc = "stat"]
    /\ chain' = Made(chain, doc, NoRate)
    /\ pending' = Fresh /\ managed' = doc
    /\ UNCHANGED <<unfit, fileVars, dec, current, retiring, rate, ramp, raced>>

\* dsp_init loads the configuration, or else, in a step of its own, its backup.  With neither the
\* player goes on without the DSP.
PlayerStart ==
    /\ ~up /\ start.pc = "no" /\ count.starts < MaxStarts
    /\ count' = [count EXCEPT !.starts = @ + 1]
    /\ \/ Loads("path") # None /\ Starts(Loads("path")) /\ UNCHANGED start
       \/ /\ Loads("path") = None
          /\ start' = [pc |-> "backup", since |-> inForce \cup {ctl.doc}, missed |-> FALSE]
          /\ UNCHANGED <<unfit, fileVars, playerVars>>
PlayerBackup ==
    /\ start.pc = "backup" /\ start' = NoStart
    /\ \/ Loads("bak") # None /\ Starts(Loads("bak"))
       \/ Loads("bak") = None /\ UNCHANGED <<unfit, fileVars, playerVars>>
    /\ UNCHANGED count

\* dsp_close, once the decode thread is gone: the watcher is told and waited for.
PlayerClose ==
    /\ up /\ watching /\ dec.pc = "idle"
    /\ watching' = FALSE
    /\ dec' = [dec EXCEPT !.pc = "gone"]
    /\ UNCHANGED <<unfit, fileVars, start, up, watch, chainVars, count>>
PlayerClosed ==
    /\ up /\ ~watching /\ watch.pc = "off"
    /\ up' = FALSE /\ dec' = NoDec
    /\ chain' = Freed({pending, current, retiring})
    /\ pending' = None /\ current' = None /\ retiring' = None
    /\ rate' = NoRate /\ ramp' = 0 /\ managed' = None /\ raced' = FALSE
    /\ UNCHANGED <<unfit, fileVars, start, watch, watching, count>>

----------------------------------------------------------------------------
(* The watcher. *)

WatchAt(pc) == watch.pc = pc /\ UNCHANGED <<unfit, fileVars, start, up, watching, dec, count>>

WatchEnds ==
    /\ WatchAt("stat") /\ ~watching
    /\ watch' = NoWatch /\ UNCHANGED chainVars
\* Faulty variant: only a file that is newer is loaded.
WatchStatNewer ==
    /\ WatchAt("stat") /\ watching
    /\ There("path") /\ files.path.stamp > watch.sig
    /\ watch' = [watch EXCEPT !.pc = "load", !.sig = files.path.stamp, !.other = FALSE]
    /\ UNCHANGED chainVars
\* stat, every 250 ms.
WatchStat ==
    /\ WatchAt("stat") /\ watching
    /\ There("path") /\ files.path.stamp # watch.sig
    /\ watch' = [watch EXCEPT !.pc = "load", !.sig = files.path.stamp, !.other = FALSE]
    /\ UNCHANGED chainVars
\* dsp_config_load_options, after 100 ms: the file may be another one, or none.
WatchLoad ==
    /\ WatchAt("load")
    /\ watch' = IF files.path.doc \notin Invalid \cup {None} /\ Fits(files.path.doc, rate)
                THEN [watch EXCEPT !.pc = "parse", !.doc = files.path.doc, !.other = files.path.stamp # watch.sig]
                ELSE [watch EXCEPT !.pc = "stat"]
    /\ UNCHANGED chainVars
\* _parse
WatchParse ==
    /\ WatchAt("parse")
    /\ IF Fits(watch.doc, rate)
       THEN /\ watch' = [watch EXCEPT !.pc = "flags", !.doc = None, !.made = Fresh]
            /\ chain' = Made(chain, watch.doc, rate)
       ELSE watch' = [watch EXCEPT !.pc = "stat", !.doc = None] /\ UNCHANGED chain
    /\ UNCHANGED <<current, retiring, pending, rate, ramp, managed, raced>>
\* Faulty variant: the flags are left to the next stream.
WatchFlagsLater ==
    /\ WatchAt("flags")
    /\ watch' = [watch EXCEPT !.pc = "publish"]
    /\ UNCHANGED chainVars
\* dsp_configure: the flags are set before the chain is published.
WatchFlags ==
    /\ WatchAt("flags")
    /\ watch' = [watch EXCEPT !.pc = "publish"] /\ managed' = chain[watch.made].doc
    /\ UNCHANGED <<chain, current, retiring, pending, rate, ramp, raced>>
WatchPublish ==
    /\ WatchAt("publish")
    /\ watch' = [watch EXCEPT !.pc = "stat", !.made = None]
    /\ pending' = watch.made /\ chain' = Freed({pending})
    /\ UNCHANGED <<current, retiring, rate, ramp, managed, raced>>

----------------------------------------------------------------------------
(* The decode thread. *)

DecAt(pc) == up /\ dec.pc = pc /\ UNCHANGED <<unfit, fileVars, start, up, watch, watching>>

\* process_newstream, dsp_newstream: the rate is there for the watcher to see.
StreamRate ==
    /\ DecAt(dec.pc) /\ dec.pc \in {"idle", "filter", "direct"} /\ count.streams < MaxStreams
    /\ rate' \in Rates /\ dec' = [dec EXCEPT !.pc = "take"]
    /\ count' = [count EXCEPT !.streams = @ + 1]
    /\ UNCHANGED <<chain, current, retiring, pending, ramp, managed, raced>>
StreamTake ==
    /\ DecAt("take")
    /\ dec' = [pc |-> "install", queued |-> pending] /\ pending' = None
    /\ UNCHANGED <<chain, current, retiring, rate, ramp, managed, raced, count>>
Source == IF dec.queued # None THEN dec.queued ELSE current
StreamInstall ==
    /\ DecAt("install") /\ Source # None /\ Fits(chain[Source].doc, rate)
    /\ chain' = Made(Freed({dec.queued, current, retiring}), chain[Source].doc, rate)
    /\ current' = Fresh /\ retiring' = None /\ ramp' = Ramp
    /\ managed' = chain[Source].doc
    /\ raced' = (raced \/ watch.pc = "publish" \/ pending # None)
    /\ dec' = [pc |-> "filter", queued |-> None]
    /\ UNCHANGED <<pending, rate, count>>
\* Faulty variant: one that was published since stays, and the chain that was taken is not freed.
StreamRefuseLeaks ==
    /\ DecAt("install") /\ Source # None /\ ~Fits(chain[Source].doc, rate)
    /\ pending' = (IF pending = None THEN dec.queued ELSE pending)
    /\ dec' = [pc |-> "direct", queued |-> None]
    /\ raced' = (raced \/ pending # None)
    /\ UNCHANGED <<chain, current, retiring, rate, ramp, managed, count>>
\* The chain that was taken is put back, in the place of one that was published since.
StreamRefuse ==
    /\ DecAt("install") /\ Source # None /\ ~Fits(chain[Source].doc, rate)
    /\ IF dec.queued = None
       THEN UNCHANGED <<chain, pending, raced>>
       ELSE pending' = dec.queued /\ chain' = Freed({pending}) /\ raced' = (raced \/ pending # None)
    /\ dec' = [pc |-> "direct", queued |-> None]
    /\ UNCHANGED <<current, retiring, rate, ramp, managed, count>>

\* Faulty variant: the chain is used as the watcher prepared it.
SwappedUnprepared ==
    IF pending = None
    THEN [chain |-> chain, current |-> current, retiring |-> retiring, ramp |-> ramp]
    ELSE [chain |-> Freed({retiring}), current |-> pending, retiring |-> current, ramp |-> 0]
\* dsp_process: a block begins with the chain that was published, if there is one.
Swapped ==
    IF pending = None
    THEN [chain |-> chain, current |-> current, retiring |-> retiring, ramp |-> ramp]
    ELSE IF ~Fits(chain[pending].doc, rate)
    THEN [chain |-> Freed({pending}), current |-> current, retiring |-> retiring, ramp |-> ramp]
    ELSE [chain |-> [Freed({retiring}) EXCEPT ![pending].rate = rate],
          current |-> pending, retiring |-> current, ramp |-> 0]
\* Faulty variant: what retires is kept when the ramp is over.
ProcessKeepsRetiring ==
    /\ DecAt("filter")
    /\ \E frames \in Blocks :
       LET s == Swapped
           mixed == IF s.retiring # None THEN Min({Ramp, s.ramp + frames}) ELSE s.ramp
       IN  /\ current' = s.current /\ ramp' = mixed /\ pending' = None
           /\ retiring' = s.retiring
           /\ chain' = s.chain
           /\ raced' = (raced \/ (pending # None /\ s.current # pending))
    /\ UNCHANGED <<rate, managed, dec, count>>
Process ==
    /\ DecAt("filter")
    /\ \E frames \in Blocks :
       LET s == Swapped
           mixed == IF s.retiring # None THEN Min({Ramp, s.ramp + frames}) ELSE s.ramp
           over == s.retiring # None /\ mixed = Ramp
       IN  /\ current' = s.current /\ ramp' = mixed /\ pending' = None
           /\ retiring' = IF over THEN None ELSE s.retiring
           /\ chain' = IF over THEN [c \in DOMAIN s.chain \ {s.retiring} |-> s.chain[c]] ELSE s.chain
           /\ raced' = (raced \/ (pending # None /\ s.current # pending))
    /\ UNCHANGED <<rate, managed, dec, count>>
\* process_flush: the stream is over.
Flush ==
    /\ DecAt(dec.pc) /\ dec.pc \in {"filter", "direct"}
    /\ dec' = NoDec
    /\ UNCHANGED <<chainVars, count>>

Ctl == SaveDropBackup \/ SaveKeep \/ SavePlace \/ RollbackReject \/ RollbackRestore
Watcher == WatchEnds \/ WatchStat \/ WatchLoad \/ WatchParse \/ WatchFlags \/ WatchPublish
Decode == StreamTake \/ StreamInstall \/ StreamRefuse \/ Process
Next ==
    \/ SaveBegin \/ RollbackBegin \/ Killed \/ Ctl
    \/ PlayerStart \/ PlayerBackup \/ PlayerClose \/ PlayerClosed \/ Watcher
    \/ StreamRate \/ Flush \/ Decode

Spec == Init /\ [][Next]_vars
(* dspctl does not wait, the watcher sleeps for a limited time, and a stream is decoded. *)
FairSpec == Spec /\ WF_vars(Ctl) /\ WF_vars(Watcher) /\ WF_vars(Decode) /\ WF_vars(PlayerClosed)

----------------------------------------------------------------------------
InUse == IF current = None THEN None ELSE chain[current].doc
Owners == <<current, retiring, pending, watch.made, dec.queued>>

\* Type invariant: the ramp is over when nothing retires.
TypeOK ==
    /\ unfit \in Unfits /\ up \in BOOLEAN /\ watching \in BOOLEAN
    /\ \A f \in DOMAIN files : files[f].doc \in Docs \cup {None}
    /\ ctl.pc \in {"idle", "drop", "keep", "place", "reject", "restore"} /\ start.pc \in {"no", "backup"}
    /\ watch.pc \in {"off", "stat", "load", "parse", "flags", "publish"}
    /\ dec.pc \in {"idle", "take", "install", "filter", "direct", "gone"}
    /\ live \subseteq Chains /\ ramp \in 0..Ramp /\ (retiring # None => ramp < Ramp)

\* Every chain that is allocated is owned once: by one of the three of d, by the watcher that made
\* it or by the decode thread that took it; and nobody holds one that was freed.
OwnedOnce ==
    /\ live = {Owners[i] : i \in DOMAIN Owners} \ {None}
    /\ \A i, j \in DOMAIN Owners : i # j /\ Owners[i] # None => Owners[i] # Owners[j]

\* What filters a stream was designed for its rate, and so was what it takes over from, although
\* the watcher designs for the rate of a moment ago.
DesignedForRate ==
    dec.pc = "filter" =>
        \A c \in {current, retiring} \ {None} : chain[c].rate = rate /\ <<chain[c].doc, rate>> \notin unfit

\* A player that is started at any step of a save or a rollback, or after dspctl was killed or an
\* operation on a file failed, finds a document that was in force, or about to be, since it looked
\* first; and it finds none only if dspctl took the backup away between its looks at the two files,
\* or if a save began with no document at path, as one does after another that was killed.
StartFindsDocument ==
    /\ Loads("path") \in inForce \cup {None}
    /\ start.pc = "backup" => IF Loads("bak") # None THEN Loads("bak") \in start.since
                              ELSE start.missed \/ overNothing

\* The flags that tell the output whether the DSP manages the replay gain are those of the chain in
\* use, once nothing is on its way; but not if a stream was opened, or a chain dropped, meanwhile.
FlagsAreCurrent ==
    dec.pc = "filter" /\ pending = None /\ watch.pc \notin {"flags", "publish"} /\ ~raced
        => managed = InUse

\* When every document fits every rate, the one at path ends up in use by a stream that is filtered
\* for long enough, whatever the watcher read in between; nothing failed meanwhile, and no rollback
\* brought back a file that was replaced while the watcher was about to read it.
LastIsApplied ==
    unfit = {} /\ <>[](dec.pc = "filter" /\ count.faults = 0 /\ ~unseen)
        => <>[](InUse = files.path.doc)

\* A chain has one owner, is freed once, and filters only a stream of the rate it was designed for.
ChainsAreSound == TypeOK /\ OwnedOnce /\ DesignedForRate
====

--------------------------- MODULE DspConfigProofs ---------------------------
(* Proofs about DspConfig, for every set of documents, rates, misfits and  *)
(* block sizes, any number of saves, streams, starts and failures: a chain *)
(* has one owner and fits its stream, a start finds a document, and the    *)
(* replay-gain flags are those of the chain in use.                        *)
EXTENDS DspConfig, FiniteSetTheorems, TLAPS

(* The inductive invariant, in parts.                                      *)

File == [doc : Docs \cup {None}, stamp : Nat]
Files == [path : File, bak : File, tmp : File, rejected : File]
Saving == [pc : {"idle", "drop", "keep", "place", "reject", "restore"}, doc : Docs \cup {None}]
Counts == [saves : Nat, faults : Nat, streams : Nat, starts : Nat]
Watching == [pc : {"off", "stat", "load", "parse", "flags", "publish"}, sig : Nat,
             doc : Docs \cup {None}, made : Chains \cup {None}, other : BOOLEAN]
Decoding == [pc : {"idle", "take", "install", "filter", "direct", "gone"}, queued : Chains \cup {None}]
Starting == [pc : {"no", "backup"}, since : SUBSET (Docs \cup {None}), missed : BOOLEAN]
Chain == [doc : Docs, rate : Rates \cup {NoRate}]

Typed ==
    /\ unfit \in Unfits /\ up \in BOOLEAN /\ watching \in BOOLEAN
    /\ files \in Files
    /\ ctl \in Saving /\ start \in Starting
    /\ watch \in Watching /\ dec \in Decoding
    /\ count \in Counts
    /\ live \subseteq Chains /\ chain \in [live -> Chain]
    /\ {current, retiring, pending} \subseteq Chains \cup {None}
    /\ rate \in Rates \cup {NoRate}
    /\ ramp \in 0 .. Ramp /\ (retiring # None => ramp < Ramp)
    /\ inForce \subseteq Docs \cup {None}

\* Where each thread is tells what it holds, and a player that is not running
\* holds nothing.
Stages ==
    /\ watch.made # None <=> watch.pc \in {"flags", "publish"}
    /\ watch.pc = "parse" => watch.doc # None
    /\ dec.queued # None => dec.pc = "install"
    /\ ~up => /\ ~watching /\ watch.pc = "off" /\ dec.pc = "idle"
              /\ current = None /\ retiring = None /\ pending = None
    /\ up /\ ~watching => dec.pc = "gone"
    /\ dec.pc = "filter" => current # None
    /\ start.pc = "backup" => ~up

\* OwnedOnce, owner by owner.
Owned ==
    /\ live = {current, retiring, pending, watch.made, dec.queued} \ {None}
    /\ current # None => current \notin {retiring, pending, watch.made, dec.queued}
    /\ retiring # None => retiring \notin {pending, watch.made, dec.queued}
    /\ pending # None => pending \notin {watch.made, dec.queued}
    /\ watch.made # None => watch.made # dec.queued

\* The flags follow the chain that was published last, and each one that is
\* taken over without a race.
FlagsFollow ==
    dec.pc = "filter" /\ ~raced =>
        managed = IF watch.pc = "publish" THEN chain[watch.made].doc
                  ELSE IF pending # None THEN chain[pending].doc
                  ELSE chain[current].doc

\* Which file holds a document in force, at each step of dspctl.
InForce(f) == f # NoFile /\ f.doc \in inForce
DocumentThere ==
    /\ \A f \in {files.path, files.bak, files.tmp, files.rejected} : f # NoFile => f.doc \in Docs \ Invalid
    /\ ctl.pc = "idle" <=> ctl.doc = None
    /\ ctl.pc \in {"drop", "keep", "place"} => files.tmp # NoFile /\ files.tmp.doc = ctl.doc
    /\ ctl.pc \in {"reject", "restore"} => files.bak # NoFile /\ files.bak.doc = ctl.doc
    /\ ctl.pc = "reject" => files.rejected = NoFile
    /\ files.path # NoFile => InForce(files.path)
    /\ ctl.pc \in {"idle", "drop", "reject"} /\ files.path = NoFile /\ files.bak # NoFile => InForce(files.bak)
    /\ ctl.pc = "keep" => files.bak = NoFile
    /\ ctl.pc = "place" => files.path = NoFile /\ (files.bak # NoFile => InForce(files.bak))
    /\ ctl.pc = "restore" =>
          /\ files.path = NoFile
          /\ IF files.rejected # NoFile THEN InForce(files.rejected) ELSE InForce(files.bak)
    /\ ~overNothing =>
        /\ ctl.pc \in {"idle", "drop", "reject"} => files.path # NoFile \/ files.bak # NoFile
        /\ ctl.pc = "keep" => files.path # NoFile
        /\ ctl.pc = "place" => files.bak # NoFile

\* What a player that found nothing at path may find in the backup.
BackupThere ==
    start.pc = "backup" =>
        /\ inForce \cup {ctl.doc} \subseteq start.since
        /\ files.bak # NoFile => files.bak.doc \in start.since
        /\ start.missed \/ overNothing \/ files.bak # NoFile

IInv == Typed /\ Stages /\ Owned /\ DesignedForRate /\ FlagsFollow
-----------------------------------------------------------------------------
(* Chains: there is always one to allocate.                                *)

LEMMA FiveAtMost ==
  ASSUME NEW a, NEW b, NEW c, NEW d, NEW e
  PROVE  IsFiniteSet({a, b, c, d, e}) /\ Cardinality({a, b, c, d, e}) <= 5
  <1>1. IsFiniteSet({a}) /\ Cardinality({a}) = 1
    BY FS_Singleton
  <1>2. IsFiniteSet({a} \cup {b}) /\ Cardinality({a} \cup {b}) \in 1 .. 2
    BY <1>1, FS_AddElement
  <1>3. IsFiniteSet({a} \cup {b} \cup {c}) /\ Cardinality({a} \cup {b} \cup {c}) \in 1 .. 3
    BY <1>2, FS_AddElement
  <1>4. /\ IsFiniteSet({a} \cup {b} \cup {c} \cup {d})
        /\ Cardinality({a} \cup {b} \cup {c} \cup {d}) \in 1 .. 4
    BY <1>3, FS_AddElement
  <1>5. /\ IsFiniteSet({a} \cup {b} \cup {c} \cup {d} \cup {e})
        /\ Cardinality({a} \cup {b} \cup {c} \cup {d} \cup {e}) \in 1 .. 5
    BY <1>4, FS_AddElement
  <1>6. {a} \cup {b} \cup {c} \cup {d} \cup {e} = {a, b, c, d, e}
    OBVIOUS
  <1> QED BY <1>5, <1>6

\* Of more than five chains at most five have an owner.
LEMMA FreshIsFree ==
  ASSUME Typed, Owned
  PROVE  Fresh \in Chains /\ Fresh \notin live /\ Fresh # None
  <1> DEFINE owners == {current, retiring, pending, watch.made, dec.queued}
  <1>1. IsFiniteSet(owners) /\ Cardinality(owners) <= 5
    BY FiveAtMost
  <1>2. live \in SUBSET owners
    BY DEF Owned
  <1>3. IsFiniteSet(live) /\ Cardinality(live) <= Cardinality(owners)
    BY <1>1, <1>2, FS_Subset
  <1>4. Cardinality(live) \in Nat /\ Cardinality(owners) \in Nat /\ Cardinality(Chains) \in Nat
    BY <1>1, <1>3, FS_CardinalityType, DspAssumption DEF DspAssumption
  <1>5. live # Chains
    BY <1>1, <1>3, <1>4, DspAssumption DEF DspAssumption
  <1>6. \E c \in Chains : c \notin live
    BY <1>5 DEF Typed
  <1>7. Fresh \in Chains /\ Fresh \notin live
    BY <1>6 DEF Fresh
  <1> QED BY <1>7, DspAssumption DEF DspAssumption

LEMMA MadeIs ==
  ASSUME NEW f, NEW doc, NEW r
  PROVE  /\ DOMAIN Made(f, doc, r) = DOMAIN f \cup {Fresh}
         /\ Made(f, doc, r)[Fresh] = [doc |-> doc, rate |-> r]
         /\ \A c \in DOMAIN f : c # Fresh => Made(f, doc, r)[c] = f[c]
  BY DEF Made

LEMMA MadeTyped ==
  ASSUME NEW f, f \in [DOMAIN f -> Chain], NEW doc \in Docs, NEW r \in Rates \cup {NoRate}
  PROVE  Made(f, doc, r) \in [DOMAIN Made(f, doc, r) -> Chain]
  BY DEF Made, Chain

LEMMA FreedIs ==
  ASSUME NEW S
  PROVE  /\ DOMAIN Freed(S) = live \ S
         /\ \A c \in live \ S : Freed(S)[c] = chain[c]
         /\ \A T : chain \in [live -> T] => Freed(S) \in [live \ S -> T]
  BY DEF Freed

\* What dsp_init loads is a document.
LEMMA LoadsIs ==
  ASSUME Typed, NEW f \in {"path", "bak"}, Loads(f) # None
  PROVE  Loads(f) \in Docs
  <1>1. files[f].doc \in Docs \cup {None}
    BY DEF Typed, Files, File
  <1> QED BY <1>1 DEF Loads

\* A player is started with the configuration or with its backup, or finds none.
LEMMA StartCases ==
  ASSUME PlayerStart \/ PlayerBackup
  PROVE  \/ \E f \in {"path", "bak"} : Loads(f) # None /\ Starts(Loads(f))
         \/ UNCHANGED <<unfit, fileVars, playerVars>>
  BY DEF PlayerStart, PlayerBackup
-----------------------------------------------------------------------------
(* Who changes what: dspctl the files, the player everything else.         *)

CtlStep == SaveBegin \/ RollbackBegin \/ Killed \/ Ctl
PlayerStep == PlayerStart \/ PlayerBackup \/ PlayerClose \/ PlayerClosed \/ Watcher \/ StreamRate \/ Flush \/ Decode

LEMMA CtlLeaves == CtlStep => UNCHANGED <<unfit, playerVars>>
  BY DEF CtlStep, Ctl, CtlAt, SaveBegin, SaveDropBackup, SaveKeep, SavePlace, RollbackBegin,
         RollbackReject, RollbackRestore, Killed

LEMMA PlayerLeaves == PlayerStep => UNCHANGED <<unfit, fileVars>>
  BY DEF PlayerStep, PlayerStart, PlayerBackup, Starts, playerVars, PlayerClose, PlayerClosed, Watcher, WatchAt, WatchEnds, WatchStat,
         WatchLoad, WatchParse, WatchFlags, WatchPublish, StreamRate, Flush, Decode, DecAt,
         StreamTake, StreamInstall, StreamRefuse, Process

\* dspctl neither starts a player nor ends its start.
LEMMA StartStays == Typed /\ CtlStep => start'.pc = start.pc
  BY DEF CtlStep, Ctl, SaveBegin, SaveDropBackup, SaveKeep, SavePlace, RollbackBegin, RollbackReject,
         RollbackRestore, Killed, Meanwhile, Typed, Starting

LEMMA FilesTyped ==
  ASSUME Typed, CtlStep
  PROVE  /\ files' \in Files
         /\ ctl' \in Saving /\ count' \in Counts /\ start' \in Starting
         /\ inForce' \subseteq Docs \cup {None}
  <1> USE DEF CtlStep, Ctl
  <1>1. files \in Files /\ ctl \in Saving /\ count \in Counts /\ inForce \subseteq Docs \cup {None}
    BY DEF Typed
  <1>2. ctl' \in Saving
    <2>1. CASE SaveBegin
      <3>1. ctl' = Idle \/ \E doc \in Docs : ctl' = [pc |-> "drop", doc |-> doc]
        BY <2>1 DEF SaveBegin, Done
      <3> QED BY <3>1 DEF Idle, Saving
    <2>2. CASE RollbackBegin
      <3>1. files.bak.doc \in Docs \cup {None}
        BY <1>1 DEF Files, File
      <3> QED BY <2>2, <3>1 DEF RollbackBegin, Saving
    <2>3. CASE Killed \/ Ctl
      BY <1>1, <2>3 DEF Killed, SaveDropBackup, SaveKeep, SavePlace, RollbackReject, RollbackRestore,
                        Goes, Done, Idle, Saving
    <2> QED BY <2>1, <2>2, <2>3
  <1>3. count' \in Counts
    <2>1. CASE SaveBegin
      <3>1. PICK written \in BOOLEAN :
              count' = [count EXCEPT !.saves = @ + 1, !.faults = IF written THEN @ ELSE @ + 1]
        BY <2>1 DEF SaveBegin
      <3> DEFINE saves == count.saves + 1
                 faults == IF written THEN count.faults ELSE count.faults + 1
      <3>2. saves \in Nat /\ faults \in Nat
        BY <1>1 DEF Counts
      <3>3. count' = [count EXCEPT !.saves = saves, !.faults = faults]
        BY <3>1
      <3> HIDE DEF saves, faults
      <3> QED BY <1>1, <3>2, <3>3 DEF Counts
    <2>2. CASE RollbackBegin
      BY <1>1, <2>2 DEF RollbackBegin, Counts
    <2>3. CASE Killed \/ Ctl
      BY <1>1, <2>3 DEF Killed, SaveDropBackup, SaveKeep, SavePlace, RollbackReject, RollbackRestore,
                        Well, Fails, Counts
    <2> QED BY <2>1, <2>2, <2>3
  <1>4. files' \in Files
    <2>1. NoFile \in File
      BY DEF NoFile, File
    <2>2. CASE SaveBegin
      <3>1. \A doc \in Docs : [doc |-> doc, stamp |-> count.saves + 2] \in File
        BY <1>1 DEF Counts, File
      <3> QED BY <1>1, <2>1, <2>2, <3>1 DEF SaveBegin, Files
    <2>3. CASE SaveDropBackup \/ SaveKeep \/ SavePlace
      BY <1>1, <2>1, <2>3 DEF SaveDropBackup, SaveKeep, SavePlace, Files
    <2>4. CASE RollbackBegin \/ RollbackReject \/ RollbackRestore \/ Killed
      BY <1>1, <2>1, <2>4 DEF RollbackBegin, RollbackReject, RollbackRestore, Killed, Files
    <2> QED BY <2>2, <2>3, <2>4
  <1>5. inForce' \subseteq Docs \cup {None}
    BY <1>1 DEF SaveBegin, SaveDropBackup, SaveKeep, SavePlace, RollbackBegin, RollbackReject,
                RollbackRestore, Killed, Saving
  <1>6. start' \in Starting
    <2>1. Meanwhile
      BY DEF SaveBegin, SaveDropBackup, SaveKeep, SavePlace, RollbackBegin, RollbackReject,
             RollbackRestore, Killed
    <2>2. start \in Starting /\ inForce' \cup {ctl'.doc} \subseteq Docs \cup {None}
      BY <1>2, <1>5 DEF Typed, Saving
    <2> DEFINE since == start.since \cup inForce' \cup {ctl'.doc}
               missed == start.missed \/ (There("bak") /\ files'.bak = NoFile)
    <2>3. since \in SUBSET (Docs \cup {None}) /\ missed \in BOOLEAN
      BY <2>2 DEF Starting
    <2>4. start' = start \/ start' = [start EXCEPT !.since = since, !.missed = missed]
      BY <2>1 DEF Meanwhile
    <2> HIDE DEF since, missed
    <2> QED BY <2>2, <2>3, <2>4 DEF Starting
  <1> QED BY <1>2, <1>3, <1>4, <1>5, <1>6

LEMMA CtlTyped == ASSUME Typed, CtlStep PROVE Typed'
  BY CtlLeaves, FilesTyped DEF Typed, playerVars, chainVars, live

\* Whatever an action does to the chains, they stay chains.
LEMMA ChainTyped ==
  ASSUME Typed, Stages, Owned, PlayerStep
  PROVE  live' \subseteq Chains /\ chain' \in [live' -> Chain]
  <1> USE DEF PlayerStep, Watcher, Decode
  <1>1. live \subseteq Chains /\ chain \in [live -> Chain] /\ rate \in Rates \cup {NoRate}
    BY DEF Typed
  <1>2. Fresh \in Chains
    BY FreshIsFree
  <1>3. \A S : Freed(S) \in [DOMAIN Freed(S) -> Chain] /\ DOMAIN Freed(S) \subseteq Chains
    BY <1>1, FreedIs
  <1>4. ASSUME NEW f, f \in [DOMAIN f -> Chain], DOMAIN f \subseteq Chains,
               NEW doc \in Docs, NEW r \in Rates \cup {NoRate}, chain' = Made(f, doc, r)
        PROVE  live' \subseteq Chains /\ chain' \in [live' -> Chain]
    BY <1>2, <1>4, MadeIs, MadeTyped DEF live
  <1>5. ASSUME NEW S, chain' = Freed(S)
        PROVE  live' \subseteq Chains /\ chain' \in [live' -> Chain]
    BY <1>3, <1>5 DEF live
  <1>6. CASE PlayerStart \/ PlayerBackup
    BY <1>1, <1>4, <1>6, LoadsIs, StartCases DEF Starts, playerVars, chainVars, live
  <1>7. CASE WatchParse
    <2>1. CASE Fits(watch.doc, rate)
      <3>1. watch.doc \in Docs
        BY <1>7 DEF WatchParse, WatchAt, Stages, Typed, Watching
      <3> QED BY <1>1, <1>4, <1>7, <2>1, <3>1 DEF WatchParse, live
    <2> QED BY <1>1, <1>7, <2>1 DEF WatchParse, live
  <1>8. CASE WatchPublish \/ PlayerClosed \/ StreamRefuse
    BY <1>1, <1>5, <1>8 DEF WatchPublish, PlayerClosed, StreamRefuse, live
  <1>9. CASE StreamInstall
    <2>1. Source \in live
      BY <1>9 DEF StreamInstall, Source, Owned
    <2>2. chain[Source].doc \in Docs
      BY <1>1, <2>1 DEF Chain
    <2> QED BY <1>1, <1>3, <1>4, <1>9, <2>2 DEF StreamInstall
  <1>10. CASE Process
    <2>1. PICK frames \in Blocks :
            LET s == Swapped
                mixed == IF s.retiring # None THEN Min({Ramp, s.ramp + frames}) ELSE s.ramp
                over == s.retiring # None /\ mixed = Ramp
            IN  chain' = IF over THEN [c \in DOMAIN s.chain \ {s.retiring} |-> s.chain[c]] ELSE s.chain
      BY <1>10 DEF Process
    <2>2. Swapped.chain \in [DOMAIN Swapped.chain -> Chain] /\ DOMAIN Swapped.chain \subseteq Chains
      <3>1. CASE pending = None \/ ~Fits(chain[pending].doc, rate)
        BY <1>1, <1>3, <3>1 DEF Swapped, live
      <3>2. CASE pending # None /\ Fits(chain[pending].doc, rate)
        <4>1. Swapped.chain = [Freed({retiring}) EXCEPT ![pending].rate = rate]
          BY <3>2 DEF Swapped
        <4>2. \A c \in DOMAIN Freed({retiring}) : Freed({retiring})[c] \in Chain
          BY <1>3
        <4>3. \A c \in DOMAIN Freed({retiring}) : [Freed({retiring})[c] EXCEPT !.rate = rate] \in Chain
          BY <1>1, <4>2 DEF Chain
        <4> QED BY <1>3, <4>1, <4>2, <4>3
      <3> QED BY <3>1, <3>2
    <2> QED BY <2>1, <2>2 DEF live
  <1>11. CASE UNCHANGED chain
    BY <1>1, <1>11 DEF live
  <1> QED BY <1>6, <1>7, <1>8, <1>9, <1>10, <1>11
          DEF PlayerClose, WatchEnds, WatchStat, WatchLoad, WatchFlags, StreamRate, StreamTake, Flush,
              chainVars

LEMMA PlayerTyped ==
  ASSUME Typed, Stages, Owned, PlayerStep
  PROVE  Typed'
  <1> USE DEF PlayerStep, Watcher, Decode
  <1>1. UNCHANGED <<unfit, fileVars>>
    BY PlayerLeaves
  <1>2. live' \subseteq Chains /\ chain' \in [live' -> Chain]
    BY ChainTyped
  <1>3. Fresh \in Chains
    BY FreshIsFree
  <1>4. /\ watch \in Watching /\ dec \in Decoding /\ count \in Counts /\ files \in Files
        /\ up \in BOOLEAN /\ watching \in BOOLEAN
        /\ {current, retiring, pending} \subseteq Chains \cup {None}
        /\ rate \in Rates \cup {NoRate} /\ ramp \in 0 .. Ramp
        /\ retiring # None => ramp < Ramp
    BY DEF Typed
  <1>5. watch' \in Watching
    <2>1. CASE PlayerStart \/ PlayerBackup \/ WatchEnds \/ WatchFlags \/ WatchPublish
      <3>1. NoWatch \in Watching
        BY DEF NoWatch, Watching
      <3> QED BY <1>4, <2>1, <3>1 DEF PlayerStart, PlayerBackup, Starts, playerVars, WatchEnds, WatchFlags, WatchPublish, Watching
    <2>2. CASE WatchStat
      <3>1. files.path.stamp \in Nat
        BY <1>4 DEF Files, File
      <3> QED BY <1>4, <2>2, <3>1 DEF WatchStat, Watching
    <2>3. CASE WatchLoad
      <3>1. files.path.doc \in Docs \cup {None} /\ (files.path.stamp # watch.sig) \in BOOLEAN
        BY <1>4 DEF Files, File
      <3> DEFINE other == files.path.stamp # watch.sig
      <3>2. watch' = [watch EXCEPT !.pc = "parse", !.doc = files.path.doc, !.other = other]
              \/ watch' = [watch EXCEPT !.pc = "stat"]
        BY <2>3 DEF WatchLoad
      <3> HIDE DEF other
      <3> QED BY <1>4, <3>1, <3>2 DEF Watching, other
    <2>4. CASE WatchParse
      BY <1>3, <1>4, <2>4 DEF WatchParse, Watching
    <2>5. CASE PlayerClose \/ PlayerClosed \/ StreamRate \/ Flush \/ Decode
      BY <1>4, <2>5 DEF PlayerClose, PlayerClosed, StreamRate, Flush, DecAt, StreamTake, StreamInstall,
                        StreamRefuse, Process
    <2> QED BY <2>1, <2>2, <2>3, <2>4, <2>5
  <1>6. dec' \in Decoding
    BY <1>4 DEF PlayerStart, PlayerBackup, Starts, playerVars, PlayerClose, PlayerClosed, WatchAt, WatchEnds, WatchStat, WatchLoad, WatchParse,
                WatchFlags, WatchPublish, StreamRate, Flush, StreamTake, StreamInstall, StreamRefuse,
                Process, NoDec, Decoding
  <1>7. count' \in Counts
    BY <1>4 DEF PlayerStart, PlayerBackup, Starts, playerVars, PlayerClose, PlayerClosed, WatchAt, WatchEnds, WatchStat, WatchLoad, WatchParse,
                WatchFlags, WatchPublish, StreamRate, Flush, StreamTake, StreamInstall, StreamRefuse,
                Process, Counts
  <1>8. up' \in BOOLEAN /\ watching' \in BOOLEAN /\ rate' \in Rates \cup {NoRate}
    BY <1>4 DEF PlayerStart, PlayerBackup, Starts, playerVars, PlayerClose, PlayerClosed, WatchAt, WatchEnds, WatchStat, WatchLoad, WatchParse,
                WatchFlags, WatchPublish, StreamRate, Flush, DecAt, StreamTake, StreamInstall, StreamRefuse,
                Process, chainVars
  <1>9. /\ {current, retiring, pending}' \subseteq Chains \cup {None}
        /\ ramp' \in 0 .. Ramp /\ (retiring' # None => ramp' < Ramp)
    <2>1. CASE Process
      <3>1. PICK frames \in Blocks :
              LET s == Swapped
                  mixed == IF s.retiring # None THEN Min({Ramp, s.ramp + frames}) ELSE s.ramp
                  over == s.retiring # None /\ mixed = Ramp
              IN  /\ current' = s.current /\ ramp' = mixed /\ pending' = None
                  /\ retiring' = IF over THEN None ELSE s.retiring
        BY <2>1 DEF Process
      <3>2. /\ {Swapped.current, Swapped.retiring} \subseteq Chains \cup {None}
            /\ Swapped.ramp \in 0 .. Ramp
        BY <1>4, DspAssumption DEF Swapped, DspAssumption
      <3>3. \A m \in Nat : Min({Ramp, m}) \in 0 .. Ramp
        BY DspAssumption DEF DspAssumption, Min
      <3>4. Swapped.ramp + frames \in Nat
        BY <3>2, DspAssumption DEF DspAssumption
      <3>5. ramp' \in 0 .. Ramp
        BY <3>1, <3>2, <3>3, <3>4
      <3>6. retiring' # None => ramp' # Ramp
        BY <3>1
      <3> QED BY <3>1, <3>2, <3>5, <3>6, DspAssumption DEF DspAssumption
    <2>2. CASE WatchPublish \/ StreamTake \/ StreamRefuse
      BY <1>4, <2>2 DEF WatchPublish, Watching, StreamTake, StreamRefuse, Decoding
    <2>3. CASE StreamInstall
      BY <1>3, <1>4, <2>3, DspAssumption DEF StreamInstall, DspAssumption
    <2>4. CASE PlayerClosed
      BY <1>4, <2>4, DspAssumption DEF PlayerClosed, DspAssumption
    <2>6. CASE PlayerStart \/ PlayerBackup
      BY <1>3, <1>4, <2>6, StartCases DEF Starts, playerVars, chainVars
    <2>5. CASE UNCHANGED <<current, retiring, pending, ramp>>
      BY <1>4, <2>5
    <2> QED BY <2>1, <2>2, <2>3, <2>4, <2>5, <2>6
            DEF PlayerClose, WatchEnds, WatchStat, WatchLoad, WatchParse, WatchFlags, StreamRate, Flush, chainVars
  <1>10. start' \in Starting
    <2>1. start \in Starting /\ inForce \cup {ctl.doc} \subseteq Docs \cup {None}
      BY DEF Typed, Saving
    <2>2. start' = start \/ start' = NoStart
           \/ start' = [pc |-> "backup", since |-> inForce \cup {ctl.doc}, missed |-> FALSE]
      BY DEF PlayerStart, PlayerBackup, PlayerClose, PlayerClosed, WatchAt, WatchEnds, WatchStat, WatchLoad, WatchParse,
             WatchFlags, WatchPublish, StreamRate, Flush, DecAt, StreamTake, StreamInstall, StreamRefuse, Process
    <2>3. NoStart \in Starting
      BY DEF NoStart, Starting
    <2>4. [pc |-> "backup", since |-> inForce \cup {ctl.doc}, missed |-> FALSE] \in Starting
      BY <2>1 DEF Starting
    <2> QED BY <2>1, <2>2, <2>3, <2>4
  <1> QED BY <1>1, <1>2, <1>5, <1>6, <1>7, <1>8, <1>9, <1>10 DEF Typed, fileVars
-----------------------------------------------------------------------------
(* What each step does to the owners of chains.                            *)

LEMMA StagesStep ==
  ASSUME Typed, Stages, Owned, PlayerStep
  PROVE  Stages'
  <1> USE DEF PlayerStep, Watcher, Decode, Stages, WatchAt, DecAt, NoWatch, NoDec, NoStart
  <1>0. watch \in Watching /\ dec \in Decoding
    BY DEF Typed
  <1>1. CASE PlayerStart \/ PlayerBackup
    <2>1. ~up
      BY <1>1 DEF PlayerStart, PlayerBackup
    <2>2. CASE UNCHANGED <<unfit, fileVars, playerVars>>
      BY <2>1, <2>2 DEF playerVars, chainVars
    <2>3. ASSUME NEW f \in {"path", "bak"}, Starts(Loads(f)) PROVE Stages'
      <3>0. up' = TRUE
        BY <2>3 DEF Starts
      <3>1. start'.pc = "no"
        <4>1. CASE PlayerStart
          <5>1. UNCHANGED playerVars => up' = up
            BY DEF playerVars
          <5>2. start.pc = "no" /\ UNCHANGED start
            BY <2>1, <3>0, <4>1, <5>1 DEF PlayerStart
          <5> QED BY <5>2
        <4>2. CASE PlayerBackup
          BY <4>2 DEF PlayerBackup
        <4> QED BY <1>1, <4>1, <4>2
      <3> QED BY <1>0, <2>1, <2>3, <3>1 DEF Starts, chainVars, Watching
    <2> QED BY <1>1, <2>2, <2>3, StartCases
  <1>2. CASE PlayerClose
    BY <1>0, <1>2 DEF PlayerClose, chainVars, Decoding
  <1>3. CASE PlayerClosed
    BY <1>3 DEF PlayerClosed
  <1>4. CASE WatchEnds \/ WatchStat
    <2>1. watch'.made = watch.made /\ watch'.pc \in {"off", "load"} /\ (watch'.pc = "off" => ~watching)
      <3>1. CASE WatchEnds
        <4>1. watch.pc = "stat" /\ watch' = NoWatch /\ ~watching
          BY <3>1 DEF WatchEnds
        <4> QED BY <4>1
      <3>2. CASE WatchStat
        BY <1>0, <3>2 DEF WatchStat, Watching
      <3> QED BY <1>4, <3>1, <3>2
    <2>2. UNCHANGED <<dec, up, watching, current, retiring, pending, start>> /\ watch.pc = "stat"
      BY <1>4 DEF WatchEnds, WatchStat, chainVars
    <2> QED BY <2>1, <2>2
  <1>5. CASE WatchLoad
    BY <1>0, <1>5 DEF WatchLoad, chainVars, Watching
  <1>6. CASE WatchParse
    BY <1>0, <1>6, FreshIsFree DEF WatchParse, Watching
  <1>7. CASE WatchFlags \/ WatchPublish
    BY <1>0, <1>7 DEF WatchFlags, WatchPublish, Watching
  <1>8. CASE StreamRate \/ Flush
    BY <1>0, <1>8 DEF StreamRate, Flush, chainVars, Decoding
  <1>9. CASE StreamTake \/ StreamRefuse
    BY <1>0, <1>9 DEF StreamTake, StreamRefuse, Decoding
  <1>10. CASE StreamInstall
    BY <1>0, <1>10, FreshIsFree DEF StreamInstall, Decoding
  <1>11. CASE Process
    <2>1. current' = Swapped.current
      BY <1>11 DEF Process
    <2>2. current' # None
      BY <1>11, <2>1 DEF Process, Swapped
    <2>3. up /\ dec.pc = "filter" /\ UNCHANGED <<dec, watch, up, watching, start>>
      BY <1>11 DEF Process
    <2> QED BY <2>2, <2>3
  <1> QED BY <1>1, <1>2, <1>3, <1>4, <1>5, <1>6, <1>7, <1>8, <1>9, <1>10, <1>11

\* A chain that is freed is one that loses its owner, and a chain that loses
\* its owner is freed.
LEMMA OwnedStep ==
  ASSUME Typed, Stages, Owned, PlayerStep
  PROVE  Owned'
  <1> USE DEF PlayerStep, Watcher, Decode, WatchAt, DecAt
  <1>0. watch \in Watching /\ dec \in Decoding /\ Fresh \notin live /\ Fresh # None
    BY FreshIsFree DEF Typed
  <1>a. \A f, d, r : chain' = Made(f, d, r) => live' = DOMAIN f \cup {Fresh}
    BY MadeIs DEF live
  <1>b. \A S : chain' = Freed(S) => live' = live \ S
    BY FreedIs DEF live
  <1>1. CASE PlayerStart \/ PlayerBackup
    <2>1. ~up
      BY <1>1 DEF PlayerStart, PlayerBackup, Stages
    <2>2. CASE UNCHANGED <<unfit, fileVars, playerVars>>
      BY <2>2 DEF playerVars, chainVars, Owned, live
    <2>3. ASSUME NEW f \in {"path", "bak"}, Starts(Loads(f)) PROVE Owned'
      BY <1>0, <1>a, <2>1, <2>3 DEF Starts, Owned, Stages, NoWatch, live
    <2> QED BY <1>1, <2>2, <2>3, StartCases
  <1>2. CASE PlayerClose
    BY <1>0, <1>2 DEF PlayerClose, chainVars, Owned, Decoding, live
  <1>3. CASE PlayerClosed
    BY <1>0, <1>b, <1>3 DEF PlayerClosed, Owned, Stages, NoDec
  <1>4. CASE WatchEnds \/ WatchStat \/ WatchLoad \/ WatchFlags
    <2>1. watch'.made = watch.made
      <3>1. CASE WatchEnds
        <4>1. watch.pc = "stat" /\ watch' = NoWatch
          BY <3>1 DEF WatchEnds
        <4> QED BY <4>1 DEF NoWatch, Stages
      <3>2. CASE WatchStat
        BY <1>0, <3>2 DEF WatchStat, Watching
      <3>3. CASE WatchLoad
        BY <1>0, <3>3 DEF WatchLoad, Watching
      <3>4. CASE WatchFlags
        BY <1>0, <3>4 DEF WatchFlags, Watching
      <3> QED BY <1>4, <3>1, <3>2, <3>3, <3>4
    <2>2. UNCHANGED <<chain, current, retiring, pending, dec>>
      BY <1>4 DEF WatchEnds, WatchStat, WatchLoad, WatchFlags, chainVars
    <2> QED BY <2>1, <2>2 DEF Owned, live
  <1>5. CASE WatchParse
    <2>1. CASE Fits(watch.doc, rate)
      <3>1. chain' = Made(chain, watch.doc, rate)
        BY <1>5, <2>1 DEF WatchParse
      <3>2. live' = live \cup {Fresh}
        BY <1>a, <3>1 DEF live
      <3>3. watch'.made = Fresh /\ watch.made = None
        BY <1>0, <1>5, <2>1 DEF WatchParse, Watching, Stages
      <3> QED BY <1>0, <1>5, <3>2, <3>3 DEF WatchParse, Owned
    <2>2. CASE ~Fits(watch.doc, rate)
      <3>1. watch'.made = watch.made
        BY <1>0, <1>5, <2>2 DEF WatchParse, Watching
      <3> QED BY <1>5, <2>2, <3>1 DEF WatchParse, Owned, live
    <2> QED BY <2>1, <2>2
  <1>6. CASE WatchPublish
    <2>1. live' = live \ {pending} /\ watch'.made = None /\ pending' = watch.made
      BY <1>0, <1>b, <1>6 DEF WatchPublish, Watching
    <2> QED BY <1>6, <2>1 DEF WatchPublish, Owned
  <1>7. CASE StreamRate \/ Flush
    <2>1. dec'.queued = dec.queued
      BY <1>0, <1>7 DEF StreamRate, Flush, NoDec, Decoding, Stages
    <2> QED BY <1>7, <2>1 DEF StreamRate, Flush, chainVars, Owned, live
  <1>8. CASE StreamTake
    <2>1. dec'.queued = pending /\ dec.queued = None
      BY <1>8 DEF StreamTake, Stages
    <2> QED BY <1>8, <2>1 DEF StreamTake, Owned, live
  <1>9. CASE StreamInstall
    <2>1. live' = (live \ {dec.queued, current, retiring}) \cup {Fresh} /\ dec'.queued = None
      BY <1>a, <1>9, FreedIs DEF StreamInstall
    <2> QED BY <1>0, <1>9, <2>1 DEF StreamInstall, Owned
  <1>10. CASE StreamRefuse
    <2>1. dec'.queued = None
      BY <1>10 DEF StreamRefuse
    <2>2. CASE dec.queued = None
      BY <1>10, <2>1, <2>2 DEF StreamRefuse, Owned, live
    <2>3. CASE dec.queued # None
      <3>1. live' = live \ {pending} /\ pending' = dec.queued
        BY <1>b, <1>10, <2>3 DEF StreamRefuse
      <3> QED BY <1>10, <2>1, <2>3, <3>1 DEF StreamRefuse, Owned
    <2> QED BY <2>2, <2>3
  <1>11. CASE Process
    <2>1. PICK over \in BOOLEAN :
            /\ over => Swapped.retiring # None
            /\ current' = Swapped.current /\ pending' = None
            /\ retiring' = IF over THEN None ELSE Swapped.retiring
            /\ live' = IF over THEN DOMAIN Swapped.chain \ {Swapped.retiring} ELSE DOMAIN Swapped.chain
      BY <1>11 DEF Process, live
    <2>2. UNCHANGED <<watch, dec>>
      BY <1>11 DEF Process
    <2>3. CASE pending = None
      BY <2>1, <2>2, <2>3 DEF Swapped, Owned, live
    <2>4. CASE pending # None /\ ~Fits(chain[pending].doc, rate)
      <3>1. DOMAIN Swapped.chain = live \ {pending}
        BY <2>4, FreedIs DEF Swapped
      <3> QED BY <2>1, <2>2, <2>4, <3>1 DEF Swapped, Owned
    <2>5. CASE pending # None /\ Fits(chain[pending].doc, rate)
      <3>1. DOMAIN Swapped.chain = live \ {retiring}
        BY <2>5, FreedIs DEF Swapped
      <3> QED BY <2>1, <2>2, <2>5, <3>1 DEF Swapped, Owned
    <2> QED BY <2>3, <2>4, <2>5
  <1> QED BY <1>1, <1>2, <1>3, <1>4, <1>5, <1>6, <1>7, <1>8, <1>9, <1>10, <1>11
-----------------------------------------------------------------------------
(* What each step does to the chains in use and to the flags.              *)

\* No set of misfits names the rate 0, so that what fits is never a misfit.
LEMMA FitsMeans ==
  ASSUME Typed, NEW doc, NEW r
  PROVE  Fits(doc, r) <=> <<doc, r>> \notin unfit
  <1>1. unfit \subseteq Docs \X Rates
    BY DspAssumption DEF DspAssumption, Typed
  <1>2. <<doc, NoRate>> \notin unfit
    BY <1>1, DspAssumption DEF DspAssumption
  <1> QED BY <1>2 DEF Fits

\* dsp_process: the chain of the block is the one that was published, if that
\* one fits, and the one before it retires; both are kept as they were but
\* for the rate the new one is prepared for.
LEMMA ProcessKeeps ==
  ASSUME Typed, Owned, Process
  PROVE  /\ UNCHANGED <<watch, dec, rate, unfit, managed>> /\ dec.pc = "filter" /\ pending' = None
         /\ LET swap == pending # None /\ Fits(chain[pending].doc, rate)
            IN  /\ current' = IF swap THEN pending ELSE current
                /\ retiring' \in {None, IF swap THEN current ELSE retiring}
                /\ \A c \in live' : chain'[c] = IF swap /\ c = pending THEN [chain[c] EXCEPT !.rate = rate]
                                               ELSE chain[c]
                /\ raced' = (raced \/ (pending # None /\ ~swap))
  <1> DEFINE swap == pending # None /\ Fits(chain[pending].doc, rate)
  <1>1. PICK over \in BOOLEAN :
          /\ current' = Swapped.current /\ pending' = None
          /\ retiring' = IF over THEN None ELSE Swapped.retiring
          /\ chain' = IF over THEN [c \in DOMAIN Swapped.chain \ {Swapped.retiring} |-> Swapped.chain[c]]
                      ELSE Swapped.chain
          /\ raced' = (raced \/ (pending # None /\ Swapped.current # pending))
    BY DEF Process
  <1>2. /\ Swapped.current = IF swap THEN pending ELSE current
        /\ Swapped.retiring = IF swap THEN current ELSE retiring
    BY DEF Swapped
  <1>3. \A c \in DOMAIN Swapped.chain :
          Swapped.chain[c] = IF swap /\ c = pending THEN [chain[c] EXCEPT !.rate = rate] ELSE chain[c]
    <2>1. CASE pending = None
      BY <2>1 DEF Swapped
    <2>2. CASE pending # None /\ ~swap
      BY <2>2, FreedIs DEF Swapped
    <2>3. CASE swap
      <3>1. Swapped.chain = [Freed({retiring}) EXCEPT ![pending].rate = rate]
        BY <2>3 DEF Swapped
      <3>2. \A c \in DOMAIN Freed({retiring}) : Freed({retiring})[c] = chain[c]
        BY FreedIs
      <3> QED BY <2>3, <3>1, <3>2
    <2> QED BY <2>1, <2>2, <2>3
  <1>4. /\ DOMAIN chain' \subseteq DOMAIN Swapped.chain
        /\ \A c \in DOMAIN chain' : chain'[c] = Swapped.chain[c]
    BY <1>1
  <1>5. pending # None => (Swapped.current # pending <=> ~swap)
    BY <1>2 DEF Owned
  <1>6. UNCHANGED <<watch, dec, rate, unfit, managed>> /\ dec.pc = "filter"
    BY DEF Process, DecAt
  <1> QED BY <1>1, <1>2, <1>3, <1>4, <1>5, <1>6 DEF live

\* Chains that are neither made nor freed stay what they are.
LEMMA OthersKept ==
  ASSUME NEW c \in live, c # Fresh
  PROVE  /\ \A S : c \notin S => Freed(S)[c] = chain[c]
         /\ \A doc, r : Made(chain, doc, r)[c] = chain[c]
  <1>1. \A S : c \notin S => Freed(S)[c] = chain[c]
    BY FreedIs
  <1>2. ASSUME NEW doc, NEW r PROVE Made(chain, doc, r)[c] = chain[c]
    BY DEF Made, live
  <1> QED BY <1>1, <1>2

LEMMA DesignedStep ==
  ASSUME Typed, Stages, Owned, DesignedForRate, PlayerStep
  PROVE  DesignedForRate'
  <1> SUFFICES ASSUME dec'.pc = "filter", NEW c \in ({current, retiring} \ {None})'
               PROVE  chain'[c].rate = rate' /\ <<chain'[c].doc, rate'>> \notin unfit'
    BY DEF DesignedForRate
  <1> USE DEF PlayerStep, Watcher, Decode
  <1>0. watch \in Watching /\ dec \in Decoding /\ Fresh \notin live /\ Fresh # None
    BY FreshIsFree DEF Typed
  <1>1. CASE PlayerStart \/ PlayerBackup \/ PlayerClose \/ PlayerClosed \/ StreamRate \/ Flush \/ StreamTake \/ StreamRefuse
    BY <1>0, <1>1 DEF PlayerStart, PlayerBackup, Starts, playerVars, PlayerClose, PlayerClosed, StreamRate, Flush, StreamTake, StreamRefuse,
                      NoDec, Decoding, Stages
  <1>2. CASE Watcher
    <2>1. UNCHANGED <<dec, current, retiring, rate, unfit>>
      BY <1>2 DEF WatchAt, WatchEnds, WatchStat, WatchLoad, WatchParse, WatchFlags, WatchPublish, chainVars
    <2>2. c \in live /\ c # Fresh /\ c # pending
      BY <1>0, <2>1 DEF Owned
    <2>3. chain'[c] = chain[c]
      <3>1. chain' = chain \/ chain' = Made(chain, watch.doc, rate) \/ chain' = Freed({pending})
        BY <1>2 DEF WatchEnds, WatchStat, WatchLoad, WatchParse, WatchFlags, WatchPublish, chainVars
      <3>2. Made(chain, watch.doc, rate)[c] = chain[c] /\ Freed({pending})[c] = chain[c]
        BY <2>2, OthersKept
      <3> QED BY <3>1, <3>2
    <2> QED BY <2>1, <2>3 DEF DesignedForRate
  <1>3. CASE StreamInstall
    <2>1. /\ current' = Fresh /\ retiring' = None /\ UNCHANGED <<rate, unfit>>
          /\ chain' = Made(Freed({dec.queued, current, retiring}), chain[Source].doc, rate)
          /\ Fits(chain[Source].doc, rate)
      BY <1>3 DEF StreamInstall, DecAt
    <2>2. chain'[Fresh] = [doc |-> chain[Source].doc, rate |-> rate]
      BY <2>1 DEF Made
    <2> QED BY <2>1, <2>2, FitsMeans
  <1>4. CASE Process
    <2> DEFINE swap == pending # None /\ Fits(chain[pending].doc, rate)
    <2>1. /\ UNCHANGED <<dec, rate, unfit>> /\ dec.pc = "filter"
          /\ current' = IF swap THEN pending ELSE current
          /\ retiring' \in {None, IF swap THEN current ELSE retiring}
          /\ \A d \in live' : chain'[d] = IF swap /\ d = pending THEN [chain[d] EXCEPT !.rate = rate]
                                         ELSE chain[d]
      BY <1>4, ProcessKeeps
    <2>2. c \in live'
      BY <1>4, OwnedStep DEF Owned
    <2>3. CASE swap /\ c = pending
      <3>1. chain[pending] \in Chain
        BY <2>3 DEF Typed, Owned
      <3>2. chain'[c] = [chain[c] EXCEPT !.rate = rate]
        BY <2>1, <2>2, <2>3
      <3>3. chain'[c].rate = rate /\ chain'[c].doc = chain[c].doc
        BY <2>3, <3>1, <3>2 DEF Chain
      <3> QED BY <2>1, <2>3, <3>3, FitsMeans
    <2>4. CASE ~(swap /\ c = pending)
      <3>1. c \in {current, retiring} \ {None} /\ chain'[c] = chain[c]
        BY <2>1, <2>2, <2>4
      <3> QED BY <2>1, <3>1 DEF DesignedForRate
    <2> QED BY <2>3, <2>4
  <1> QED BY <1>1, <1>2, <1>3, <1>4

LEMMA FlagsStep ==
  ASSUME Typed, Stages, Owned, FlagsFollow, PlayerStep
  PROVE  FlagsFollow'
  <1> SUFFICES ASSUME dec'.pc = "filter", ~raced'
               PROVE  managed' = IF watch'.pc = "publish" THEN chain'[watch'.made].doc
                                 ELSE IF pending' # None THEN chain'[pending'].doc
                                 ELSE chain'[current'].doc
    BY DEF FlagsFollow
  <1> USE DEF PlayerStep, Watcher, Decode
  <1>0. watch \in Watching /\ dec \in Decoding /\ Fresh \notin live /\ Fresh # None
    BY FreshIsFree DEF Typed
  <1>1. CASE PlayerStart \/ PlayerBackup \/ PlayerClose \/ PlayerClosed \/ StreamRate \/ Flush \/ StreamTake \/ StreamRefuse
    BY <1>0, <1>1 DEF PlayerStart, PlayerBackup, Starts, playerVars, PlayerClose, PlayerClosed, StreamRate, Flush, StreamTake, StreamRefuse,
                      NoDec, Decoding, Stages
  <1>2. CASE Watcher
    <2>0. UNCHANGED <<dec, current, raced>>
      BY <1>2 DEF WatchAt, WatchEnds, WatchStat, WatchLoad, WatchParse, WatchFlags, WatchPublish, chainVars
    <2>1. current # None /\ current \in live /\ current # pending /\ (pending # None => pending \in live)
      BY <2>0 DEF Stages, Owned
    <2>2. managed = IF watch.pc = "publish" THEN chain[watch.made].doc
                    ELSE IF pending # None THEN chain[pending].doc ELSE chain[current].doc
      BY <2>0 DEF FlagsFollow
    <2>3. CASE WatchEnds \/ WatchStat \/ WatchLoad
      <3>1. watch.pc # "publish" /\ watch'.pc # "publish" /\ UNCHANGED chainVars
        <4>1. CASE WatchEnds
          BY <4>1 DEF WatchAt, WatchEnds, NoWatch
        <4>2. CASE WatchStat
          BY <1>0, <4>2 DEF WatchAt, WatchStat, Watching
        <4>3. CASE WatchLoad
          BY <1>0, <4>3 DEF WatchAt, WatchLoad, Watching
        <4> QED BY <2>3, <4>1, <4>2, <4>3
      <3> QED BY <2>2, <3>1 DEF chainVars
    <2>4. CASE WatchParse
      <3>1. watch.pc # "publish" /\ watch'.pc # "publish" /\ UNCHANGED <<managed, pending>>
        BY <1>0, <2>4 DEF WatchAt, WatchParse, Watching
      <3>2. chain' = chain \/ chain' = Made(chain, watch.doc, rate)
        BY <2>4 DEF WatchParse
      <3>3. chain'[current] = chain[current] /\ (pending # None => chain'[pending] = chain[pending])
        BY <1>0, <2>1, <3>2, OthersKept
      <3> QED BY <2>0, <2>2, <3>1, <3>3
    <2>5. CASE WatchFlags
      <3>1. watch'.pc = "publish" /\ watch'.made = watch.made
        BY <1>0, <2>5 DEF WatchFlags, Watching
      <3>2. managed' = chain[watch.made].doc /\ chain' = chain
        BY <2>5 DEF WatchFlags
      <3> QED BY <3>1, <3>2
    <2>6. CASE WatchPublish
      <3>1. watch.pc = "publish" /\ watch'.pc = "stat"
        BY <1>0, <2>6 DEF WatchAt, WatchPublish, Watching
      <3>2. pending' = watch.made /\ chain' = Freed({pending}) /\ managed' = managed
        BY <2>6 DEF WatchPublish
      <3>3. watch.made # None /\ watch.made \in live \ {pending}
        BY <3>1 DEF Stages, Owned
      <3>4. chain'[watch.made] = chain[watch.made]
        BY <3>2, <3>3, FreedIs
      <3> QED BY <2>2, <3>1, <3>2, <3>3, <3>4
    <2> QED BY <1>2, <2>3, <2>4, <2>5, <2>6
  <1>3. CASE StreamInstall
    <2>1. /\ watch'.pc # "publish" /\ pending' = None
          /\ current' = Fresh /\ managed' = chain[Source].doc
          /\ chain' = Made(Freed({dec.queued, current, retiring}), chain[Source].doc, rate)
      BY <1>3 DEF StreamInstall, DecAt
    <2>2. chain'[Fresh] = [doc |-> chain[Source].doc, rate |-> rate]
      BY <2>1 DEF Made
    <2> QED BY <2>1, <2>2
  <1>4. CASE Process
    <2> DEFINE swap == pending # None /\ Fits(chain[pending].doc, rate)
    <2>1. /\ UNCHANGED <<watch, dec, managed>> /\ dec.pc = "filter" /\ pending' = None
          /\ current' = IF swap THEN pending ELSE current
          /\ \A d \in live' : chain'[d] = IF swap /\ d = pending THEN [chain[d] EXCEPT !.rate = rate]
                                         ELSE chain[d]
          /\ ~raced /\ (pending # None => swap)
      BY <1>4, ProcessKeeps
    <2>2. managed = IF watch.pc = "publish" THEN chain[watch.made].doc
                    ELSE IF pending # None THEN chain[pending].doc ELSE chain[current].doc
      BY <2>1 DEF FlagsFollow
    <2>3. ASSUME NEW d \in live' PROVE chain'[d].doc = chain[d].doc
      <3>1. CASE swap /\ d = pending
        <4>1. chain[pending] \in Chain
          BY <3>1 DEF Typed, Owned
        <4>2. chain'[d] = [chain[d] EXCEPT !.rate = rate]
          BY <2>1, <3>1
        <4> QED BY <3>1, <4>1, <4>2 DEF Chain
      <3> QED BY <2>1, <3>1
    <2>4. /\ current' \in live' /\ current' = (IF pending # None THEN pending ELSE current)
          /\ watch.pc = "publish" => watch.made \in live'
      <3>1. Owned' /\ Stages'
        BY <1>4, OwnedStep, StagesStep
      <3> QED BY <2>1, <3>1 DEF Owned, Stages
    <2> QED BY <2>1, <2>2, <2>3, <2>4
  <1> QED BY <1>1, <1>2, <1>3, <1>4
-----------------------------------------------------------------------------
(* dspctl.                                                                 *)

LEMMA DocumentStep ==
  ASSUME Typed, DocumentThere, CtlStep
  PROVE  DocumentThere'
  <1> USE DEF CtlStep, Ctl
  <1>0. files \in Files /\ ctl \in Saving /\ None \notin Docs
    BY DspAssumption DEF Typed, DspAssumption
  <1> USE DEF DocumentThere, InForce, There, CtlAt, Goes, Done, Idle
  <1>1. CASE SaveBegin
    <2>1. PICK doc \in Docs \ Invalid, stamp \in Nat :
            \/ /\ ctl' = [pc |-> "drop", doc |-> doc]
               /\ files' = [files EXCEPT !.tmp = [doc |-> doc, stamp |-> stamp]]
            \/ ctl' = Idle /\ files' = [files EXCEPT !.tmp = NoFile]
      <3>1. count.saves + 2 \in Nat
        BY DEF Typed, Counts
      <3>2. First \in Docs \ Invalid
        BY DspAssumption DEF DspAssumption
      <3> QED BY <1>1, <3>1, <3>2 DEF SaveBegin
    <2>2. UNCHANGED <<inForce, overNothing>> /\ ctl.pc = "idle"
      BY <1>1 DEF SaveBegin
    <2>3. /\ files'.path = files.path /\ files'.bak = files.bak /\ files'.rejected = files.rejected
          /\ ctl' = Idle => files'.tmp = NoFile
          /\ ctl' # Idle => files'.tmp = [doc |-> doc, stamp |-> stamp]
      BY <1>0, <2>1 DEF Files
    <2> QED BY <1>0, <2>1, <2>2, <2>3 DEF NoFile
  <1>2. CASE SaveDropBackup
    <2>1. /\ files'.path = files.path /\ files'.bak = NoFile /\ files'.tmp = files.tmp
          /\ files'.rejected = files.rejected
      BY <1>0, <1>2 DEF SaveDropBackup, Files
    <2>2. ctl'.pc = "keep" /\ ctl'.doc = ctl.doc /\ ctl.pc = "drop"
      BY <1>0, <1>2 DEF SaveDropBackup, Saving
    <2>3. UNCHANGED inForce /\ (~overNothing' => ~overNothing /\ files.path # NoFile)
      BY <1>2 DEF SaveDropBackup
    <2> QED BY <2>1, <2>2, <2>3
  <1>3. CASE SaveKeep
    <2>1. ctl.pc = "keep" /\ UNCHANGED <<inForce, overNothing>>
      BY <1>3 DEF SaveKeep
    <2>2. CASE Goes("place") /\ files' = IF There("path") THEN [files EXCEPT !.bak = files.path, !.path = NoFile] ELSE files
      <3>1. /\ files'.path = NoFile /\ files'.bak = (IF files.path # NoFile THEN files.path ELSE files.bak)
            /\ files'.tmp = files.tmp /\ files'.rejected = files.rejected
        BY <1>0, <2>2 DEF Files
      <3>2. ctl'.pc = "place" /\ ctl'.doc = ctl.doc
        BY <1>0, <2>2 DEF Saving
      <3> QED BY <2>1, <3>1, <3>2
    <2>3. CASE ctl' = Idle /\ files' = [files EXCEPT !.tmp = NoFile]
      <3>1. /\ files'.path = files.path /\ files'.bak = files.bak /\ files'.tmp = NoFile
            /\ files'.rejected = files.rejected
        BY <1>0, <2>3 DEF Files
      <3> QED BY <2>1, <2>3, <3>1
    <2> QED BY <1>3, <2>2, <2>3 DEF SaveKeep
  <1>4. CASE SavePlace
    <2>1. ctl.pc = "place" /\ ctl' = Idle /\ UNCHANGED overNothing
      BY <1>4 DEF SavePlace
    <2>2. CASE files' = [files EXCEPT !.path = files.tmp, !.tmp = NoFile] /\ inForce' = {ctl.doc}
      <3>1. /\ files'.path = files.tmp /\ files'.bak = files.bak /\ files'.tmp = NoFile
            /\ files'.rejected = files.rejected
        BY <1>0, <2>2 DEF Files
      <3> QED BY <2>1, <2>2, <3>1
    <2>3. CASE /\ files' = [files EXCEPT !.tmp = NoFile, !.path = IF There("bak") THEN files.bak ELSE @, !.bak = NoFile]
               /\ inForce' = inForce
      <3>1. /\ files'.path = (IF files.bak # NoFile THEN files.bak ELSE files.path) /\ files'.bak = NoFile
            /\ files'.tmp = NoFile /\ files'.rejected = files.rejected
        BY <1>0, <2>3 DEF Files
      <3> QED BY <2>1, <2>3, <3>1
    <2> QED BY <1>4, <2>2, <2>3 DEF SavePlace
  <1>5. CASE RollbackBegin
    <2>1. /\ files'.path = files.path /\ files'.bak = files.bak /\ files'.tmp = files.tmp
          /\ files'.rejected = NoFile
      BY <1>0, <1>5 DEF RollbackBegin, Files
    <2>2. files.bak # NoFile /\ files.bak \in File
      BY <1>0, <1>5 DEF RollbackBegin, Files
    <2>3. ctl'.pc = "reject" /\ ctl'.doc = files.bak.doc /\ ctl.pc = "idle" /\ UNCHANGED <<inForce, overNothing>>
      BY <1>5 DEF RollbackBegin
    <2> QED BY <1>0, <2>1, <2>2, <2>3
  <1>6. CASE RollbackReject
    <2>1. ctl.pc = "reject" /\ UNCHANGED <<inForce, overNothing>>
      BY <1>6 DEF RollbackReject
    <2>2. CASE Goes("restore") /\ files' = IF There("path") THEN [files EXCEPT !.rejected = files.path, !.path = NoFile] ELSE files
      <3>1. /\ files'.path = NoFile /\ files'.rejected = (IF files.path # NoFile THEN files.path ELSE files.rejected)
            /\ files'.tmp = files.tmp /\ files'.bak = files.bak
        BY <1>0, <2>2 DEF Files
      <3>2. ctl'.pc = "restore" /\ ctl'.doc = ctl.doc
        BY <1>0, <2>2 DEF Saving
      <3> QED BY <2>1, <3>1, <3>2
    <2>3. CASE ctl' = Idle /\ files' = files
      BY <2>1, <2>3
    <2> QED BY <1>6, <2>2, <2>3 DEF RollbackReject
  <1>7. CASE RollbackRestore
    <2>1. ctl.pc = "restore" /\ ctl' = Idle /\ UNCHANGED overNothing
      BY <1>7 DEF RollbackRestore
    <2>2. CASE files' = [files EXCEPT !.path = files.bak, !.bak = NoFile] /\ inForce' = {ctl.doc}
      <3>1. /\ files'.path = files.bak /\ files'.bak = NoFile /\ files'.tmp = files.tmp
            /\ files'.rejected = files.rejected
        BY <1>0, <2>2 DEF Files
      <3> QED BY <2>1, <2>2, <3>1
    <2>3. CASE /\ files' = IF There("rejected") THEN [files EXCEPT !.path = files.rejected, !.rejected = NoFile] ELSE files
               /\ inForce' = inForce
      <3>1. /\ files'.path = (IF files.rejected # NoFile THEN files.rejected ELSE files.path)
            /\ files'.bak = files.bak /\ files'.tmp = files.tmp /\ files'.rejected = NoFile
        BY <1>0, <2>3 DEF Files
      <3> QED BY <2>1, <2>3, <3>1
    <2> QED BY <1>7, <2>2, <2>3 DEF RollbackRestore
  <1>8. CASE Killed
    BY <1>0, <1>8 DEF Killed, Saving
  <1> QED BY <1>1, <1>2, <1>3, <1>4, <1>5, <1>6, <1>7, <1>8
\* What a player that is started may find in the backup, through the steps of dspctl.
LEMMA BackupStep ==
  ASSUME Typed, DocumentThere, BackupThere, CtlStep
  PROVE  BackupThere'
  <1> USE DEF CtlStep, Ctl
  <1>1. Meanwhile
    BY DEF SaveBegin, SaveDropBackup, SaveKeep, SavePlace, RollbackBegin, RollbackReject, RollbackRestore, Killed
  <1>2. overNothing => overNothing'
    BY DEF SaveBegin, SaveDropBackup, SaveKeep, SavePlace, RollbackBegin, RollbackReject, RollbackRestore, Killed
  <1>3. files'.bak \in {files.bak, NoFile} \/ (files.path # NoFile /\ files'.bak = files.path)
    <2>1. files \in Files
      BY DEF Typed
    <2> QED BY <2>1 DEF SaveBegin, SaveDropBackup, SaveKeep, SavePlace, RollbackBegin, RollbackReject,
                        RollbackRestore, Killed, There, Files
  <1>4. files.path # NoFile => files.path.doc \in inForce
    BY DEF DocumentThere, InForce
  <1>5. CASE start.pc = "backup"
    <2>1. start \in Starting
      BY DEF Typed
    <2>2. /\ start'.pc = "backup" /\ start'.since = start.since \cup inForce' \cup {ctl'.doc}
          /\ start'.missed = (start.missed \/ (There("bak") /\ files'.bak = NoFile))
      BY <1>1, <1>5, <2>1 DEF Meanwhile, Starting
    <2>3. /\ inForce \cup {ctl.doc} \subseteq start.since
          /\ files.bak # NoFile => files.bak.doc \in start.since
          /\ start.missed \/ overNothing \/ files.bak # NoFile
      BY <1>5 DEF BackupThere
    <2> QED BY <1>2, <1>3, <1>4, <2>2, <2>3 DEF BackupThere, There
  <1>6. CASE start.pc # "backup"
    <2>1. start' = start
      BY <1>1, <1>6 DEF Meanwhile, Typed, Starting
    <2> QED BY <1>6, <2>1 DEF BackupThere
  <1> QED BY <1>5, <1>6

\* A player looks for the backup when there is nothing at path.
LEMMA BackupLooked ==
  ASSUME Typed, DocumentThere, BackupThere, PlayerStep
  PROVE  BackupThere'
  <1>1. UNCHANGED fileVars
    BY PlayerLeaves
  <1>2. CASE start' = [pc |-> "backup", since |-> inForce \cup {ctl.doc}, missed |-> FALSE] /\ Loads("path") = None
    <2>1. files.path = NoFile
      BY <1>2, DspAssumption DEF DocumentThere, Loads, DspAssumption
    <2>2. files.bak # NoFile => files.bak.doc \in inForce \cup {ctl.doc}
      BY <2>1 DEF DocumentThere, InForce, Typed, Saving
    <2>3. overNothing \/ files.bak # NoFile
      BY <2>1 DEF DocumentThere, Typed, Saving
    <2> QED BY <1>1, <1>2, <2>2, <2>3 DEF BackupThere, fileVars
  <1>3. CASE start' = start \/ start' = NoStart
    BY <1>1, <1>3 DEF BackupThere, fileVars, NoStart
  <1> QED BY <1>2, <1>3 DEF PlayerStep, PlayerStart, PlayerBackup, PlayerClose, PlayerClosed, Watcher, WatchAt,
          WatchEnds, WatchStat, WatchLoad, WatchParse, WatchFlags, WatchPublish, StreamRate, Flush, Decode, DecAt,
          StreamTake, StreamInstall, StreamRefuse, Process

-----------------------------------------------------------------------------
(* The theorems.                                                           *)

\* The inductive invariant, with the part about the files.
LEMMA Inductive == Spec => [](IInv /\ DocumentThere /\ BackupThere)
  <1>1. Init => IInv /\ DocumentThere /\ BackupThere
    <2> SUFFICES ASSUME Init PROVE IInv /\ DocumentThere /\ BackupThere
      OBVIOUS
    <2> USE DspAssumption DEF DspAssumption, Init, live, NoFile, Idle, NoWatch, NoDec
    <2>1. DOMAIN chain = {} /\ chain \in [DOMAIN chain -> Chain]
      OBVIOUS
    <2>2. Typed
      <3>1. files \in Files /\ ctl \in Saving /\ start \in Starting
        BY DEF Files, File, Saving, NoStart, Starting
      <3>2. watch \in Watching /\ dec \in Decoding /\ count \in Counts
        BY DEF Watching, Decoding, Counts
      <3>3. live \subseteq Chains /\ chain \in [live -> Chain]
        BY <2>1
      <3>4. ramp \in 0 .. Ramp /\ retiring = None
        OBVIOUS
      <3>5. unfit \in Unfits /\ up \in BOOLEAN /\ watching \in BOOLEAN /\ inForce \subseteq Docs \cup {None}
        OBVIOUS
      <3> QED BY <3>1, <3>2, <3>3, <3>4, <3>5 DEF Typed
    <2>3. Stages /\ Owned
      BY <2>1 DEF Stages, Owned
    <2>4. DesignedForRate /\ FlagsFollow
      BY DEF DesignedForRate, FlagsFollow
    <2>5. DocumentThere /\ BackupThere
      BY DEF DocumentThere, BackupThere, InForce, NoStart
    <2> QED BY <2>2, <2>3, <2>4, <2>5 DEF IInv
  <1>2. IInv /\ DocumentThere /\ BackupThere /\ [Next]_vars => (IInv /\ DocumentThere /\ BackupThere)'
    <2> SUFFICES ASSUME IInv, DocumentThere, BackupThere, [Next]_vars
                 PROVE  (IInv /\ DocumentThere /\ BackupThere)'
      OBVIOUS
    <2> USE DEF IInv
    <2>1. CASE PlayerStep
      <3>1. UNCHANGED fileVars
        BY <2>1, PlayerLeaves
      <3>2. DocumentThere'
        BY <3>1 DEF DocumentThere, InForce, fileVars, NoFile
      <3> QED BY <2>1, <3>2, PlayerTyped, BackupLooked, StagesStep, OwnedStep, DesignedStep, FlagsStep
    <2>2. CASE CtlStep
      <3>1. UNCHANGED <<unfit, playerVars>>
        BY <2>2, CtlLeaves
      <3>2. Stages' /\ Owned' /\ DesignedForRate' /\ FlagsFollow'
        BY <2>2, <3>1, StartStays DEF Stages, Owned, DesignedForRate, FlagsFollow, playerVars, chainVars, live
      <3> QED BY <2>2, <3>2, CtlTyped, DocumentStep, BackupStep
    <2>3. CASE UNCHANGED vars
      BY <2>3 DEF vars, fileVars, playerVars, chainVars, Typed, Stages, Owned, DesignedForRate,
                  FlagsFollow, DocumentThere, BackupThere, InForce, live
    <2> QED BY <2>1, <2>2, <2>3 DEF Next, PlayerStep, CtlStep
  <1> QED BY <1>1, <1>2, PTL DEF Spec

\* Whatever the watcher publishes while the decode thread takes, prepares,
\* refuses or retires a chain, every chain that is allocated has one owner,
\* none is used after it was freed, and what filters a stream was designed
\* for its rate.
THEOREM ChainsSound == Spec => []ChainsAreSound
  <1>1. IInv => ChainsAreSound
    <2> SUFFICES ASSUME IInv PROVE ChainsAreSound
      OBVIOUS
    <2> USE DEF IInv
    <2>1. \A f \in DOMAIN files : files[f].doc \in Docs \cup {None}
      BY DEF Typed, Files, File
    <2>2. /\ ctl.pc \in {"idle", "drop", "keep", "place", "reject", "restore"}
          /\ watch.pc \in {"off", "stat", "load", "parse", "flags", "publish"}
          /\ dec.pc \in {"idle", "take", "install", "filter", "direct", "gone"}
          /\ start.pc \in {"no", "backup"}
      BY DEF Typed, Saving, Watching, Decoding, Starting
    <2>3. TypeOK
      BY <2>1, <2>2 DEF TypeOK, Typed
    <2>4. OwnedOnce
      <3>1. DOMAIN Owners = 1 .. 5
        BY DEF Owners
      <3>2. /\ Owners[1] = current /\ Owners[2] = retiring /\ Owners[3] = pending
            /\ Owners[4] = watch.made /\ Owners[5] = dec.queued
        BY DEF Owners
      <3>3. {Owners[i] : i \in DOMAIN Owners} = {current, retiring, pending, watch.made, dec.queued}
        BY <3>1, <3>2
      <3>4. \A i, j \in 1 .. 5 : i < j /\ Owners[i] # None => Owners[i] # Owners[j]
        BY <3>2 DEF Owned
      <3>5. \A i, j \in 1 .. 5 : i # j /\ Owners[i] # None => Owners[i] # Owners[j]
        BY <3>4
      <3> QED BY <3>1, <3>3, <3>5 DEF OwnedOnce, Owned
    <2> QED BY <2>3, <2>4 DEF ChainsAreSound
  <1> QED BY <1>1, Inductive, PTL

\* A player started at any step of a save or a rollback, after a failure or
\* after dspctl was killed, loads a document that was in force, or about to
\* be, since it looked first; it finds none only if the backup was taken away
\* between its two looks or a save began with nothing at path.
THEOREM StartFinds == Spec => []StartFindsDocument
  <1>1. DocumentThere /\ BackupThere => StartFindsDocument
    <2> SUFFICES ASSUME DocumentThere, BackupThere PROVE StartFindsDocument
      OBVIOUS
    <2>1. \A f : f = NoFile => f.doc = None
      BY DEF NoFile
    <2>2. files.path.doc \in inForce \cup {None}
      BY <2>1 DEF DocumentThere, InForce
    <2>3. files.bak # NoFile => files.bak.doc \in Docs \ Invalid
      BY DEF DocumentThere
    <2> QED BY <2>1, <2>2, <2>3, DspAssumption DEF BackupThere, StartFindsDocument, Loads, DspAssumption
  <1> QED BY <1>1, Inductive, PTL

\* Once nothing is on its way, the replay-gain flags are those of the chain
\* in use, unless a stream was opened or a chain dropped meanwhile.
THEOREM FlagsCurrent == Spec => []FlagsAreCurrent
  <1>1. IInv => FlagsAreCurrent
    BY DEF IInv, FlagsFollow, Stages, FlagsAreCurrent, InUse
  <1> QED BY <1>1, Inductive, PTL
=============================================================================

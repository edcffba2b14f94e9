---------------------------- MODULE ClientProofs ----------------------------
(***************************************************************************)
(* What a phone remembers, for every set of machines, any number of calls  *)
(* that overlap, and any number of times the app is killed.                *)
(***************************************************************************)
EXTENDS Client, TLAPS

\* A connection number that somebody holds is one that was given out, so the
\* next one is held by nobody.
ConnsGiven ==
    /\ live <= Len(peers) /\ pairing <= Len(peers)
    /\ \A t \in Calls : call[t].conn <= Len(peers)
    /\ \A c \in lost : c <= Len(peers)

\* A call that is going to write its record anywhere has a registered one.
Holding ==
    {"check", "connect_tear", "connect_torn", "announce", "dial", "adopt", "touch", "touched",
     "save", "cache", "touch_write", "touch_rename", "save_write", "save_rename"}

FramesRegistered ==
    \A t \in Calls :
        /\ call[t].pc \in Holding => call[t].rec \subseteq registered
        /\ call[t].pc \in Holding \union {"register"} => call[t].rec # {}

\* A request that is about to report its connection lost has taken it down.
TornDown == \A t \in Calls : call[t].pc = "torn" => call[t].conn = None \/ live # call[t].conn

\* Nothing a confirm_pairing wrote is at risk while it is free of an unpair.
UnpairClears == UnderWay(Unpairing) => clear = {} /\ ~told

Kept == told => daemonFile # {}

Saved == \A t \in clear : call[t].pc \in {"cache", "spent", "paired"} => daemonFile # {}

\* A file is open only in a call that is about to write it.
Writers == \A t \in Calls : call[t].file # "none" => call[t].pc \in {"touch_write", "save_write"}

\* The temporary file is torn only while somebody has it open, after a write that
\* failed, or when nobody is about to rename it.
TempTorn ==
    temp = Torn => cut \/ (\E u \in Calls : call[u].file = "temp") \/ ~UnderWay(Saving)

RecordTorn == daemonFile = Torn => cut \/ \E u \in Calls : call[u].file = "record"

Remembered == FramesRegistered /\ RememberedIsRegistered /\ temp \ Torn \subseteq registered
Corpses == ConnsGiven /\ TornDown /\ NoCorpse
Survives == UnpairClears /\ Saved /\ Kept
Files == Writers /\ TempTorn /\ RecordTorn

IInv == TypeOK /\ Remembered /\ Corpses /\ Survives /\ Files
-----------------------------------------------------------------------------
\* An Option holds nothing or one record.
LEMMA Options ==
  /\ {} \in Option
  /\ \A m \in Machines, k \in Keys : {<<m, k>>} \in Option
  /\ \A record \in Option : record \subseteq Machines \X Keys
BY DEF Option, IsOption

\* A whole record is not a torn one.
LEMMA Whole ==
  ASSUME NEW record \in Option
  PROVE  record # Torn /\ record \ Torn = record
<1>1. \A m \in Machines, k \in Keys : <<m, k>> # <<>>
  OBVIOUS
<1>2. <<>> \notin record
  BY <1>1, Options
<1> QED BY <1>2 DEF Torn

\* establish gives out the next connection number.
LEMMA Established ==
  ASSUME TypeOK, NEW c \in Conns, NEW m \in Machines, Establishes(c, m)
  PROVE  /\ peers' \in Seq(Machines) /\ Len(peers') = Len(peers) + 1 /\ Len(peers') <= MaxConns
         /\ c = Len(peers') /\ up' \subseteq Conns
<1>1. peers \in Seq(Machines) /\ Len(peers) < MaxConns /\ peers' = Append(peers, m)
      /\ c = Len(peers') /\ up' = up \union {c} /\ up \subseteq Conns
  BY DEF TypeOK, Establishes
<1>2. Len(peers) \in Nat /\ peers' \in Seq(Machines) /\ Len(peers') = Len(peers) + 1
  BY <1>1
<1>3. Len(peers') <= MaxConns
  BY <1>1, <1>2, ClientAssumption
<1> QED BY <1>1, <1>2, <1>3

\* The first state, with or without a pairing from an earlier run.
LEMMA InitInv ==
  Init => IInv
<1> SUFFICES ASSUME Init PROVE IInv
  OBVIOUS
<1>1. registered \subseteq Machines \X Keys
  BY ClientAssumption DEF Init, Keys
<1>2. daemonFile \in Option /\ daemonFile \subseteq registered
  BY <1>1 DEF Init, Option
<1>3. TypeOK
  <2>1. call \in [Calls -> [pc : Places, conn : Conns \union {None}, rec : Option,
                            file : {"none", "temp", "record", "gone"}]]
    BY Options DEF Init, Places, Idle
  <2>2. /\ key \in Keys /\ keys \in Keys /\ seedFile \in Keys /\ peers \in Seq(Machines) /\ Len(peers) <= MaxConns
    BY ClientAssumption DEF Init, Keys
  <2> QED BY <1>1, <1>2, <2>1, <2>2, Options DEF Init, TypeOK, Idling
<1>4. Remembered
  BY <1>2 DEF Init, Remembered, FramesRegistered, RememberedIsRegistered, Holding, Idle
<1>5. Corpses
  BY DEF Init, Corpses, ConnsGiven, TornDown, NoCorpse, Idle, None
<1>6. Survives
  BY DEF Init, Survives, UnpairClears, UnderWay, Unpairing, Saved, Kept, Idle
<1>7. Files
  BY <1>2, Whole DEF Init, Files, Writers, TempTorn, RecordTorn, UnderWay, Saving, Idle, Torn
<1> QED BY <1>3, <1>4, <1>5, <1>6, <1>7 DEF IInv

\* A frame that goes on or returns is still a frame.
Frames == [Calls -> [pc : Places, conn : Conns \union {None}, rec : Option,
                     file : {"none", "temp", "record", "gone"}]]

LEMMA FramesStay ==
  ASSUME TypeOK, NEW t \in Calls, (\E pc \in Places : Goto(t, pc)) \/ Return(t)
  PROVE  call' \in Frames
<1>1. CASE \E pc \in Places : Goto(t, pc)
  BY <1>1 DEF TypeOK, Frames, Goto
<1>2. Idle \in [pc : Places, conn : Conns \union {None}, rec : Option, file : {"none", "temp", "record", "gone"}]
  BY Options DEF Idle, Places
<1>3. CASE Return(t)
  BY <1>2, <1>3 DEF TypeOK, Frames, Return
<1> QED BY <1>1, <1>3

\* A frame whose place and file change.
LEMMA FrameChanges ==
  ASSUME TypeOK, NEW t \in Calls, NEW pc \in Places, NEW file \in {"none", "temp", "record", "gone"},
         call' = [call EXCEPT ![t].pc = pc, ![t].file = file]
  PROVE  /\ call' \in Frames /\ \A u \in Calls \ {t} : call'[u] = call[u]
         /\ call'[t].pc = pc /\ call'[t].file = file
         /\ call'[t].conn = call[t].conn /\ call'[t].rec = call[t].rec
<1>1. call \in Frames
  BY DEF TypeOK, Frames
<1> DEFINE f == [call[t] EXCEPT !.pc = pc, !.file = file]
<1>2. /\ f \in [pc : Places, conn : Conns \union {None}, rec : Option, file : {"none", "temp", "record", "gone"}]
      /\ f.pc = pc /\ f.file = file /\ f.conn = call[t].conn /\ f.rec = call[t].rec
  BY <1>1 DEF Frames
<1>3. call' = [call EXCEPT ![t] = f]
  BY <1>1 DEF Frames
<1>4. /\ call' \in [Calls -> [pc : Places, conn : Conns \union {None}, rec : Option,
                               file : {"none", "temp", "record", "gone"}]]
      /\ call'[t] = f /\ \A u \in Calls \ {t} : call'[u] = call[u]
  <2> DEFINE R == [pc : Places, conn : Conns \union {None}, rec : Option, file : {"none", "temp", "record", "gone"}]
  <2>1. call \in [Calls -> R] /\ f \in R
    BY <1>1, <1>2 DEF Frames
  <2> HIDE DEF f, R
  <2>2. call' \in [Calls -> R] /\ call'[t] = f /\ \A u \in Calls \ {t} : call'[u] = call[u]
    BY <1>3, <2>1
  <2> QED BY <2>2 DEF R
<1> QED BY <1>2, <1>4 DEF Frames

\* The frames after the steps of a save.
LEMMA Opening ==
  ASSUME TypeOK, NEW t \in Calls, SaveOpens(t)
  PROVE  /\ call' \in Frames /\ \A u \in Calls \ {t} : call'[u] = call[u]
         /\ \/ /\ temp' = Torn /\ call'[t].file = "temp"
               /\ call'[t].conn = call[t].conn /\ call'[t].rec = call[t].rec
               /\ \/ call[t].pc = "touch" /\ call'[t].pc = "touch_write"
                  \/ call[t].pc = "save" /\ call'[t].pc = "save_write"
            \/ call'[t] = Idle /\ UNCHANGED temp
<1>1. CASE Return(t) /\ UNCHANGED temp
  BY <1>1, FramesStay DEF Return, TypeOK
<1>2. CASE temp' = Torn /\ call' = [call EXCEPT ![t].pc = After(@), ![t].file = "temp"]
  <2>1. CASE call[t].pc = "touch"
    <3>1. call' = [call EXCEPT ![t].pc = "touch_write", ![t].file = "temp"]
      BY <1>2, <2>1 DEF After
    <3>2. "touch_write" \in Places
      BY DEF Places
    <3>3. /\ call' \in Frames /\ \A u \in Calls \ {t} : call'[u] = call[u]
          /\ call'[t].pc = "touch_write" /\ call'[t].file = "temp"
          /\ call'[t].conn = call[t].conn /\ call'[t].rec = call[t].rec
      BY <3>1, <3>2, FrameChanges
    <3> QED BY <1>2, <2>1, <3>3
  <2>2. CASE call[t].pc = "save"
    <3>1. call' = [call EXCEPT ![t].pc = "save_write", ![t].file = "temp"]
      BY <1>2, <2>2 DEF After
    <3>2. "save_write" \in Places
      BY DEF Places
    <3>3. /\ call' \in Frames /\ \A u \in Calls \ {t} : call'[u] = call[u]
          /\ call'[t].pc = "save_write" /\ call'[t].file = "temp"
          /\ call'[t].conn = call[t].conn /\ call'[t].rec = call[t].rec
      BY <3>1, <3>2, FrameChanges
    <3> QED BY <1>2, <2>2, <3>3
  <2> QED BY <2>1, <2>2 DEF SaveOpens
<1> QED BY <1>1, <1>2 DEF SaveOpens

LEMMA WritingFrames ==
  ASSUME TypeOK, NEW t \in Calls, SaveWrites(t)
  PROVE  /\ call' \in Frames /\ \A u \in Calls \ {t} : call'[u] = call[u]
         /\ call[t].pc \in {"touch_write", "save_write"}
         /\ \/ /\ Fills(call[t].file, call[t].rec) /\ UNCHANGED cut
               /\ call'[t].conn = call[t].conn /\ call'[t].rec = call[t].rec /\ call'[t].file = "none"
               /\ call'[t].pc \in {"touch_rename", "save_rename"}
            \/ /\ call'[t] = Idle
               /\ Fills(call[t].file, Torn) \/ UNCHANGED <<temp, daemonFile>>
               /\ cut' = (cut \/ call[t].file = "record" \/ \E u \in Calls \ {t} : call[u].pc \in Saving)
<1>1. CASE Return(t)
  <2>1. call' \in Frames /\ call'[t] = Idle /\ \A u \in Calls \ {t} : call'[u] = call[u]
    BY <1>1, FramesStay DEF Return, TypeOK
  <2>2. call'[t].pc = "idle"
    BY <2>1 DEF Idle
  <2>3. ~(call' = [call EXCEPT ![t].pc = After(@), ![t].file = "none"])
    BY <2>2 DEF TypeOK, SaveWrites, After
  <2> QED BY <2>1, <2>3 DEF SaveWrites
<1>2. CASE /\ Fills(call[t].file, call[t].rec) /\ UNCHANGED cut
           /\ call' = [call EXCEPT ![t].pc = After(@), ![t].file = "none"]
  <2>1. CASE call[t].pc = "touch_write"
    <3>1. call' = [call EXCEPT ![t].pc = "touch_rename", ![t].file = "none"]
      BY <1>2, <2>1 DEF After
    <3>2. "touch_rename" \in Places
      BY DEF Places
    <3>3. /\ call' \in Frames /\ \A u \in Calls \ {t} : call'[u] = call[u]
          /\ call'[t].pc = "touch_rename" /\ call'[t].file = "none"
          /\ call'[t].conn = call[t].conn /\ call'[t].rec = call[t].rec
      BY <3>1, <3>2, FrameChanges
    <3> QED BY <1>2, <2>1, <3>3
  <2>2. CASE call[t].pc = "save_write"
    <3>1. call' = [call EXCEPT ![t].pc = "save_rename", ![t].file = "none"]
      BY <1>2, <2>2 DEF After
    <3>2. "save_rename" \in Places
      BY DEF Places
    <3>3. /\ call' \in Frames /\ \A u \in Calls \ {t} : call'[u] = call[u]
          /\ call'[t].pc = "save_rename" /\ call'[t].file = "none"
          /\ call'[t].conn = call[t].conn /\ call'[t].rec = call[t].rec
      BY <3>1, <3>2, FrameChanges
    <3> QED BY <1>2, <2>2, <3>3
  <2> QED BY <2>1, <2>2 DEF SaveWrites
<1> QED BY <1>1, <1>2 DEF SaveWrites

\* Where another call's file is found after the record is replaced or removed.
Gone(file) == IF file = "record" THEN "gone" ELSE file
Moved(file) == IF file = "temp" THEN "record" ELSE Gone(file)

LEMMA MovedFrames ==
  ASSUME TypeOK
  PROVE  /\ Displaced \in Frames /\ Renamed \in Frames
         /\ \A u \in Calls :
              /\ Displaced[u].pc = call[u].pc /\ Renamed[u].pc = call[u].pc
              /\ Displaced[u].conn = call[u].conn /\ Renamed[u].conn = call[u].conn
              /\ Displaced[u].rec = call[u].rec /\ Renamed[u].rec = call[u].rec
              /\ Displaced[u].file = Gone(call[u].file) /\ Renamed[u].file = Moved(call[u].file)
<1>1. /\ Displaced \in Frames
      /\ \A u \in Calls : /\ Displaced[u].pc = call[u].pc /\ Displaced[u].conn = call[u].conn
                          /\ Displaced[u].rec = call[u].rec /\ Displaced[u].file = Gone(call[u].file)
  BY DEF TypeOK, Frames, Displaced, Gone
<1>2. /\ Renamed \in Frames
      /\ \A u \in Calls : /\ Renamed[u].pc = call[u].pc /\ Renamed[u].conn = call[u].conn
                          /\ Renamed[u].rec = call[u].rec /\ Renamed[u].file = Moved(call[u].file)
  BY <1>1 DEF Frames, Renamed, Moved, Gone
<1> QED BY <1>1, <1>2

LEMMA Renaming ==
  ASSUME TypeOK, NEW t \in Calls, SaveRenames(t)
  PROVE  /\ call' \in Frames /\ call[t].pc \in {"touch_rename", "save_rename"}
         /\ \/ /\ \A u \in Calls : /\ call'[u].conn = call[u].conn /\ call'[u].rec = call[u].rec
                                   /\ call'[u].file = Moved(call[u].file)
               /\ \A u \in Calls \ {t} : call'[u].pc = call[u].pc
               /\ \/ call[t].pc = "touch_rename" /\ call'[t].pc = "touched"
                  \/ call[t].pc = "save_rename" /\ call'[t].pc = "cache"
               /\ temp # {} /\ daemonFile' = temp /\ temp' = {}
               /\ cut' = (cut /\ (temp = Torn \/ \E u \in Calls \ {t} : call[u].pc \in Saving))
            \/ /\ call'[t] = Idle /\ \A u \in Calls \ {t} : call'[u] = call[u]
               /\ UNCHANGED <<daemonFile, temp, cut>>
<1>1. CASE Return(t) /\ UNCHANGED <<daemonFile, temp, cut>>
  BY <1>1, FramesStay DEF Return, TypeOK, SaveRenames
<1>2. CASE /\ temp # {} /\ daemonFile' = temp /\ temp' = {}
           /\ call' = [Renamed EXCEPT ![t].pc = After(@)]
           /\ cut' = (cut /\ (temp = Torn \/ \E u \in Calls \ {t} : call[u].pc \in Saving))
  <2>1. \E pc \in {"touched", "cache"} :
           /\ call' = [Renamed EXCEPT ![t].pc = pc]
           /\ \/ call[t].pc = "touch_rename" /\ pc = "touched"
              \/ call[t].pc = "save_rename" /\ pc = "cache"
    BY <1>2, MovedFrames DEF After, SaveRenames
  <2>2. PICK pc \in {"touched", "cache"} :
           /\ call' = [Renamed EXCEPT ![t].pc = pc]
           /\ \/ call[t].pc = "touch_rename" /\ pc = "touched"
              \/ call[t].pc = "save_rename" /\ pc = "cache"
    BY <2>1
  <2>3. /\ call' \in Frames /\ call'[t].pc = pc /\ \A u \in Calls \ {t} : call'[u].pc = Renamed[u].pc
        /\ \A u \in Calls : /\ call'[u].conn = Renamed[u].conn /\ call'[u].rec = Renamed[u].rec
                            /\ call'[u].file = Renamed[u].file
    BY <2>2, MovedFrames DEF Frames, Places
  <2> QED BY <1>2, <2>2, <2>3, MovedFrames DEF SaveRenames
<1> QED BY <1>1, <1>2 DEF SaveRenames

LEMMA Wiping ==
  ASSUME TypeOK, NEW t \in Calls, WipeDaemon(t)
  PROVE  /\ call' \in Frames /\ call[t].pc = "wipe_daemon" /\ call'[t].pc = "wipe_seed"
         /\ \A u \in Calls : call'[u].conn = call[u].conn /\ call'[u].rec = call[u].rec
         /\ \A u \in Calls \ {t} : call'[u].pc = call[u].pc
         /\ \/ daemonFile' = daemonFile /\ \A u \in Calls : call'[u].file = call[u].file
            \/ daemonFile' = {} /\ \A u \in Calls : call'[u].file = Gone(call[u].file)
<1>1. CASE Goto(t, "wipe_seed") /\ UNCHANGED daemonFile
  <2>1. call' \in Frames /\ call' = [call EXCEPT ![t].pc = "wipe_seed"]
    BY <1>1, FramesStay DEF Goto, Places, Unpairing
  <2> QED BY <1>1, <2>1 DEF WipeDaemon, TypeOK
<1>2. CASE daemonFile' = {} /\ call' = [Displaced EXCEPT ![t].pc = "wipe_seed"]
  <2>1. /\ call' \in Frames /\ call'[t].pc = "wipe_seed" /\ \A u \in Calls \ {t} : call'[u].pc = Displaced[u].pc
        /\ \A u \in Calls : /\ call'[u].conn = Displaced[u].conn /\ call'[u].rec = Displaced[u].rec
                            /\ call'[u].file = Displaced[u].file
    BY <1>2, MovedFrames DEF Frames, Places, Unpairing
  <2> QED BY <1>2, <2>1, MovedFrames DEF WipeDaemon
<1> QED BY <1>1, <1>2 DEF WipeDaemon

\* What each step does to each part of the invariant.
\* Every step keeps the types.
LEMMA TypeStep ==
  ASSUME IInv, [Next]_vars
  PROVE  TypeOK'
<1> USE DEF IInv, memory, disk, world, history, Goto, Return, Idle, TypeOK, Places, Unpairing
<1>1. ASSUME NEW t \in Calls, TearDown(t) PROVE TypeOK'
  <2>1. call' \in Frames
    BY <1>1, FramesStay DEF TearDown, Tearing
  <2> QED BY <1>1, <2>1 DEF TearDown, Frames
<1>2. ASSUME NEW t \in Calls, ShowTornDown(t) PROVE TypeOK'
  <2>1. call' \in Frames
    BY <1>2, FramesStay DEF ShowTornDown
  <2>2. lost' \subseteq Conns
    BY <1>2 DEF ShowTornDown
  <2>3. phase' \in {"unpaired", "disconnected", "connecting", "connected"}
    BY <1>2 DEF ShowTornDown
  <2> QED BY <1>2, <2>1, <2>2, <2>3 DEF ShowTornDown, Frames
<1>3. ASSUME NEW t \in Calls, Disconnect(t) PROVE TypeOK'
  <2>1. call' \in Frames
    BY <1>3, FramesStay DEF Disconnect
  <2> QED BY <1>3, <2>1 DEF Disconnect, Frames
<1>4. ASSUME NEW t \in Calls, Connect(t) PROVE TypeOK'
  BY <1>4, Options DEF Connect
<1>5. ASSUME NEW t \in Calls, NotPaired(t) PROVE TypeOK'
  <2>1. call' \in Frames
    BY <1>5, FramesStay DEF NotPaired
  <2> QED BY <1>5, <2>1 DEF NotPaired, Frames
<1>6. ASSUME NEW t \in Calls, CheckLive(t) PROVE TypeOK'
  <2>1. call' \in Frames
    BY <1>6, FramesStay DEF CheckLive
  <2> QED BY <1>6, <2>1 DEF CheckLive, Frames
<1>7. ASSUME NEW t \in Calls, Announce(t) PROVE TypeOK'
  <2>1. call' \in Frames
    BY <1>7, FramesStay DEF Announce
  <2> QED BY <1>7, <2>1 DEF Announce, Frames
<1>8. ASSUME NEW t \in Calls, Dial(t) PROVE TypeOK'
  <2>1. PICK c \in Conns, r \in call[t].rec : Establishes(c, r[1]) /\ live' = c
    BY <1>8 DEF Dial, Conns
  <2>2. r[1] \in Machines
    BY Options
  <2>3. peers' \in Seq(Machines) /\ Len(peers') <= MaxConns /\ up' \subseteq Conns
    BY <2>1, <2>2, Established
  <2>4. call' \in Frames
    BY <1>8, FramesStay DEF Dial
  <2> QED BY <1>8, <2>1, <2>3, <2>4 DEF Dial, Frames
<1>9. ASSUME NEW t \in Calls, DialFails(t) PROVE TypeOK'
  <2>1. call' \in Frames
    BY <1>9, FramesStay DEF DialFails
  <2> QED BY <1>9, <2>1 DEF DialFails, Idling, Frames
<1>10. ASSUME NEW t \in Calls, ShowConnected(t) PROVE TypeOK'
  <2>1. call' \in Frames
    BY <1>10, FramesStay DEF ShowConnected
  <2> QED BY <1>10, <2>1 DEF ShowConnected, Frames
<1>11. ASSUME NEW t \in Calls, SaveOpens(t) PROVE TypeOK'
  <2>1. call' \in Frames /\ temp' \in {temp, Torn}
    BY <1>11, Opening
  <2> QED BY <1>11, <2>1 DEF SaveOpens, Frames
<1>12. ASSUME NEW t \in Calls, Touched(t) PROVE TypeOK'
  <2>1. call' \in Frames
    BY <1>12, FramesStay DEF Touched
  <2> QED BY <1>12, <2>1 DEF Touched, Frames
<1>13. ASSUME NEW t \in Calls, Call(t) PROVE TypeOK'
  BY <1>13, Options DEF Call
<1>14. ASSUME NEW t \in Calls, Answered(t) PROVE TypeOK'
  <2>1. call' \in Frames
    BY <1>14, FramesStay DEF Answered
  <2> QED BY <1>14, <2>1 DEF Answered, Frames
<1>15. ASSUME NEW t \in Calls, Fails(t) PROVE TypeOK'
  <2>1. call' \in Frames
    BY <1>15, FramesStay DEF Fails
  <2> QED BY <1>15, <2>1 DEF Fails, Frames
<1>16. ASSUME NEW t \in Calls, NEW m \in Machines, BeginPairing(t, m) PROVE TypeOK'
  BY <1>16, Options DEF BeginPairing
<1>17. ASSUME NEW t \in Calls, DialPairing(t) PROVE TypeOK'
  <2>1. call' \in Frames
    BY <1>17, FramesStay DEF DialPairing
  <2>2. CASE UNCHANGED <<pairing, up, peers>>
    BY <1>17, <2>1, <2>2 DEF DialPairing, Idling, Frames
  <2>3. CASE \E c \in 1 .. MaxConns, r \in call[t].rec : Establishes(c, r[1]) /\ pairing' = c
    <3>1. PICK c \in Conns, r \in call[t].rec : Establishes(c, r[1]) /\ pairing' = c
      BY <2>3 DEF Conns
    <3>2. r[1] \in Machines
      BY Options
    <3>3. peers' \in Seq(Machines) /\ Len(peers') <= MaxConns /\ up' \subseteq Conns
      BY <3>1, <3>2, Established
    <3> QED BY <1>17, <2>1, <3>1, <3>3 DEF DialPairing, Idling, Frames
  <2> QED BY <1>17, <2>2, <2>3 DEF DialPairing
<1>18. ASSUME NEW t \in Calls, CancelPairing(t) PROVE TypeOK'
  BY <1>18, Options DEF CancelPairing
<1>19. ASSUME NEW t \in Calls, Confirm(t) PROVE TypeOK'
  <2>1. pairing \in 1 .. Len(peers)
    BY <1>19 DEF Confirm, Corpses, ConnsGiven, Conns, None
  <2>2. {<<peers[pairing], key>>} \in Option
    BY <2>1, Options
  <2>3. call' \in Frames
    BY <1>19, <2>2 DEF Confirm, Frames
  <2>4. clear' \subseteq Calls
    BY <1>19 DEF Confirm
  <2> QED BY <1>19, <2>3, <2>4 DEF Confirm, Frames
<1>20. ASSUME NEW t \in Calls, Registers(t) PROVE TypeOK'
  <2>1. call' \in Frames
    BY <1>20, FramesStay DEF Registers
  <2>2. registered' \subseteq Machines \X Keys
    BY <1>20, Options DEF Registers
  <2> QED BY <1>20, <2>1, <2>2 DEF Registers, Frames
<1>21. ASSUME NEW t \in Calls, Refuses(t) PROVE TypeOK'
  <2>1. call' \in Frames
    BY <1>21, FramesStay DEF Refuses
  <2> QED BY <1>21, <2>1 DEF Refuses, Frames
<1>22. ASSUME NEW t \in Calls, Refused(t) PROVE TypeOK'
  <2>1. call' \in Frames
    BY <1>22, FramesStay DEF Refused
  <2> QED BY <1>22, <2>1 DEF Refused, Frames
<1>23. ASSUME NEW t \in Calls, SaveWrites(t) PROVE TypeOK'
  <2>1. /\ call' \in Frames
        /\ temp' \in {temp, Torn, call[t].rec} /\ daemonFile' \in {daemonFile, Torn, call[t].rec}
        /\ cut' \in BOOLEAN
    BY <1>23, WritingFrames DEF Fills
  <2> QED BY <1>23, <2>1 DEF SaveWrites, Frames
<1>24. ASSUME NEW t \in Calls, CachePairing(t) PROVE TypeOK'
  <2>1. call' \in Frames
    BY <1>24, FramesStay DEF CachePairing
  <2>2. daemon' = call[t].rec /\ UNCHANGED <<key, live, pairing, phase, disk, world, history>>
    BY <1>24 DEF CachePairing
  <2> QED BY <2>1, <2>2 DEF Frames
<1>25. ASSUME NEW t \in Calls, Spent(t) PROVE TypeOK'
  <2>1. call' \in Frames
    BY <1>25, FramesStay DEF Spent
  <2> QED BY <1>25, <2>1 DEF Spent, Frames
<1>26. ASSUME NEW t \in Calls, Paired(t) PROVE TypeOK'
  <2>1. call' \in Frames
    BY <1>26, FramesStay DEF Paired
  <2> QED BY <1>26, <2>1 DEF Paired, Frames
<1>27. ASSUME NEW t \in Calls, Unpair(t) PROVE TypeOK'
  <2>1. call' \in Frames
    BY <1>27, FramesStay DEF Unpair
  <2> QED BY <1>27, <2>1 DEF Unpair, Frames
<1>28. ASSUME NEW t \in Calls, Forget(t) PROVE TypeOK'
  <2>1. call' \in Frames
    BY <1>28, FramesStay DEF Forget
  <2> QED BY <1>28, <2>1, Options DEF Forget, Frames
<1>29. ASSUME NEW t \in Calls, ShowUnpaired(t) PROVE TypeOK'
  <2>1. call' \in Frames
    BY <1>29, FramesStay DEF ShowUnpaired
  <2> QED BY <1>29, <2>1 DEF ShowUnpaired, Frames
<1>30. ASSUME NEW t \in Calls, WipeDaemon(t) PROVE TypeOK'
  <2>1. call' \in Frames /\ daemonFile' \in {daemonFile, {}}
    BY <1>30, Wiping
  <2> QED BY <1>30, <2>1, Options DEF WipeDaemon, Frames
<1>31. ASSUME NEW t \in Calls, WipeSeed(t) PROVE TypeOK'
  <2>1. call' \in Frames
    BY <1>31, FramesStay DEF WipeSeed
  <2> QED BY <1>31, <2>1 DEF WipeSeed, Frames
<1>32. ASSUME NEW c \in 1 .. MaxConns, LinkLost(c) PROVE TypeOK'
  BY <1>32 DEF LinkLost
<1>33. ASSUME Restart PROVE TypeOK'
  <2>1. key' \in Keys /\ keys' \in Keys /\ seedFile' \in Keys
    BY <1>33, ClientAssumption DEF Restart, Keys, None
  <2>2. call' \in Frames
    BY <1>33, Options DEF Restart, Frames
  <2> QED BY <1>33, <2>1, <2>2 DEF Restart, Idling, Frames
<1>34. ASSUME UNCHANGED vars PROVE TypeOK'
  BY <1>34 DEF vars
<1>35. ASSUME NEW t \in Calls, SaveRenames(t) PROVE TypeOK'
  <2>1. call' \in Frames /\ temp' \in {temp, {}} /\ daemonFile' \in {daemonFile, temp} /\ cut' \in BOOLEAN
    BY <1>35, Renaming
  <2> QED BY <1>35, <2>1, Options DEF SaveRenames, Frames
<1> QED
  BY <1>1, <1>2, <1>3, <1>4, <1>5, <1>6, <1>7, <1>8, <1>9, <1>10, <1>11, <1>12, <1>13, <1>14,
     <1>15, <1>16, <1>17, <1>18, <1>19, <1>20, <1>21, <1>22, <1>23, <1>24, <1>25, <1>26, <1>27,
     <1>28, <1>29, <1>30, <1>31, <1>32, <1>33, <1>34, <1>35 DEF Next

\* A record is written only by a call whose key is registered.
LEMMA RememberedStep ==
  ASSUME IInv, [Next]_vars
  PROVE  Remembered'
<1> USE DEF IInv, memory, disk, world, history, Goto, Return, Idle, TypeOK, Remembered,
      FramesRegistered, RememberedIsRegistered, Holding
<1>1. ASSUME NEW t \in Calls, TearDown(t) PROVE Remembered'
  BY <1>1 DEF TearDown, Tearing
<1>2. ASSUME NEW t \in Calls, ShowTornDown(t) PROVE Remembered'
  <2>1. CASE Return(t)
    BY <1>2, <2>1 DEF ShowTornDown
  <2>2. CASE call[t].pc = "connect_torn" /\ Goto(t, "announce")
    BY <1>2, <2>2 DEF ShowTornDown
  <2>3. CASE Goto(t, "forget")
    BY <1>2, <2>3 DEF ShowTornDown
  <2> QED BY <1>2, <2>1, <2>2, <2>3 DEF ShowTornDown
<1>3. ASSUME NEW t \in Calls, Disconnect(t) PROVE Remembered'
  BY <1>3 DEF Disconnect
<1>4. ASSUME NEW t \in Calls, Connect(t) PROVE Remembered'
  BY <1>4 DEF Connect
<1>5. ASSUME NEW t \in Calls, NotPaired(t) PROVE Remembered'
  BY <1>5 DEF NotPaired
<1>6. ASSUME NEW t \in Calls, CheckLive(t) PROVE Remembered'
  BY <1>6 DEF CheckLive
<1>7. ASSUME NEW t \in Calls, Announce(t) PROVE Remembered'
  BY <1>7 DEF Announce
<1>8. ASSUME NEW t \in Calls, Dial(t) PROVE Remembered'
  BY <1>8 DEF Dial
<1>9. ASSUME NEW t \in Calls, DialFails(t) PROVE Remembered'
  BY <1>9 DEF DialFails
<1>10. ASSUME NEW t \in Calls, ShowConnected(t) PROVE Remembered'
  BY <1>10 DEF ShowConnected
<1>11. ASSUME NEW t \in Calls, SaveOpens(t) PROVE Remembered'
  BY <1>11, Opening DEF SaveOpens
<1>12. ASSUME NEW t \in Calls, Touched(t) PROVE Remembered'
  BY <1>12 DEF Touched
<1>13. ASSUME NEW t \in Calls, Call(t) PROVE Remembered'
  BY <1>13 DEF Call
<1>14. ASSUME NEW t \in Calls, Answered(t) PROVE Remembered'
  BY <1>14 DEF Answered
<1>15. ASSUME NEW t \in Calls, Fails(t) PROVE Remembered'
  BY <1>15 DEF Fails
<1>16. ASSUME NEW t \in Calls, NEW m \in Machines, BeginPairing(t, m) PROVE Remembered'
  BY <1>16 DEF BeginPairing
<1>17. ASSUME NEW t \in Calls, DialPairing(t) PROVE Remembered'
  BY <1>17 DEF DialPairing
<1>18. ASSUME NEW t \in Calls, CancelPairing(t) PROVE Remembered'
  BY <1>18 DEF CancelPairing
<1>19. ASSUME NEW t \in Calls, Confirm(t) PROVE Remembered'
  BY <1>19 DEF Confirm
<1>20. ASSUME NEW t \in Calls, Registers(t) PROVE Remembered'
  BY <1>20 DEF Registers
<1>21. ASSUME NEW t \in Calls, Refuses(t) PROVE Remembered'
  BY <1>21 DEF Refuses
<1>22. ASSUME NEW t \in Calls, Refused(t) PROVE Remembered'
  BY <1>22 DEF Refused
<1>23. ASSUME NEW t \in Calls, SaveWrites(t) PROVE Remembered'
  <2>1. call[t].rec \subseteq registered
    BY <1>23, WritingFrames
  <2>2. temp' \in {temp, Torn, call[t].rec} /\ daemonFile' \in {daemonFile, Torn, call[t].rec}
    BY <1>23, WritingFrames DEF Fills
  <2>3. UNCHANGED <<daemon, registered>>
    BY <1>23 DEF SaveWrites
  <2>4. FramesRegistered'
    BY <1>23, <2>3, WritingFrames
  <2> QED BY <2>1, <2>2, <2>3, <2>4
<1>24. ASSUME NEW t \in Calls, CachePairing(t) PROVE Remembered'
  BY <1>24 DEF CachePairing
<1>25. ASSUME NEW t \in Calls, Spent(t) PROVE Remembered'
  BY <1>25 DEF Spent
<1>26. ASSUME NEW t \in Calls, Paired(t) PROVE Remembered'
  BY <1>26 DEF Paired
<1>27. ASSUME NEW t \in Calls, Unpair(t) PROVE Remembered'
  BY <1>27 DEF Unpair
<1>28. ASSUME NEW t \in Calls, Forget(t) PROVE Remembered'
  BY <1>28 DEF Forget
<1>29. ASSUME NEW t \in Calls, ShowUnpaired(t) PROVE Remembered'
  BY <1>29 DEF ShowUnpaired
<1>30. ASSUME NEW t \in Calls, WipeDaemon(t) PROVE Remembered'
  BY <1>30, Wiping DEF WipeDaemon
<1>31. ASSUME NEW t \in Calls, WipeSeed(t) PROVE Remembered'
  BY <1>31 DEF WipeSeed
<1>32. ASSUME NEW c \in 1 .. MaxConns, LinkLost(c) PROVE Remembered'
  BY <1>32 DEF LinkLost
<1>33. ASSUME Restart PROVE Remembered'
  <2>1. daemonFile \subseteq registered
    BY <1>33, Whole DEF Restart
  <2> QED BY <1>33, <2>1 DEF Restart, Idling
<1>34. ASSUME UNCHANGED vars PROVE Remembered'
  BY <1>34 DEF vars
<1>35. ASSUME NEW t \in Calls, SaveRenames(t) PROVE Remembered'
  <2>1. UNCHANGED <<daemon, registered>> /\ temp' \in {temp, {}} /\ daemonFile' \in {daemonFile, temp}
    BY <1>35, Renaming DEF SaveRenames
  <2>2. \A u \in Calls :
           \/ /\ call'[u].rec = call[u].rec
              /\ call'[u].pc \in Holding \union {"register"} => call[u].pc \in Holding \union {"register"}
              /\ call'[u].pc \in Holding => call[u].pc \in Holding
           \/ call'[u].pc = "idle"
    BY <1>35, Renaming
  <2>3. FramesRegistered'
    BY <2>1, <2>2
  <2> QED BY <2>1, <2>3
<1> QED
  BY <1>1, <1>2, <1>3, <1>4, <1>5, <1>6, <1>7, <1>8, <1>9, <1>10, <1>11, <1>12, <1>13, <1>14,
     <1>15, <1>16, <1>17, <1>18, <1>19, <1>20, <1>21, <1>22, <1>23, <1>24, <1>25, <1>26, <1>27,
     <1>28, <1>29, <1>30, <1>31, <1>32, <1>33, <1>34, <1>35 DEF Next

\* A connection is installed under a number nobody holds, and reported lost
\* only when it is not installed.
LEMMA CorpsesStep ==
  ASSUME IInv, [Next]_vars
  PROVE  Corpses'
<1> USE DEF IInv, memory, disk, world, history, Goto, Return, Idle, TypeOK, Corpses, ConnsGiven,
      TornDown, NoCorpse
<1>0. None <= Len(peers) /\ Len(peers) \in Nat
  BY DEF None
<1>1. ASSUME NEW t \in Calls, TearDown(t) PROVE Corpses'
  <2>1. live' = None /\ pairing' = pairing /\ peers' = peers /\ lost' = lost
    BY <1>1 DEF TearDown
  <2>2. \A u \in Calls : call'[u].conn = call[u].conn
    BY <1>1 DEF TearDown, Tearing
  <2>3. None \notin lost
    BY DEF None, Conns
  <2> QED BY <1>0, <2>1, <2>2, <2>3
<1>2. ASSUME NEW t \in Calls, ShowTornDown(t) PROVE Corpses'
  BY <1>2, <1>0 DEF ShowTornDown
<1>3. ASSUME NEW t \in Calls, Disconnect(t) PROVE Corpses'
  BY <1>3, <1>0 DEF Disconnect
<1>4. ASSUME NEW t \in Calls, Connect(t) PROVE Corpses'
  BY <1>4, <1>0 DEF Connect
<1>5. ASSUME NEW t \in Calls, NotPaired(t) PROVE Corpses'
  BY <1>5, <1>0 DEF NotPaired
<1>6. ASSUME NEW t \in Calls, CheckLive(t) PROVE Corpses'
  BY <1>6, <1>0 DEF CheckLive
<1>7. ASSUME NEW t \in Calls, Announce(t) PROVE Corpses'
  BY <1>7, <1>0 DEF Announce
<1>8. ASSUME NEW t \in Calls, Dial(t) PROVE Corpses'
  <2>1. PICK c \in Conns, r \in call[t].rec : Establishes(c, r[1]) /\ live' = c
    BY <1>8 DEF Dial, Conns
  <2>2. r[1] \in Machines
    BY Options
  <2>3. Len(peers') = Len(peers) + 1 /\ live' = Len(peers')
    BY <2>1, <2>2, Established
  <2>4. pairing' = pairing /\ lost' = lost
    BY <1>8 DEF Dial
  <2>5. \A u \in Calls : call'[u].conn = call[u].conn
    BY <1>8 DEF Dial
  <2>6. ConnsGiven'
    BY <1>0, <2>3, <2>4, <2>5 DEF Conns, None
  <2>7. TornDown'
    BY <1>0, <2>3, <2>5
  <2>8. NoCorpse'
    BY <1>0, <2>3, <2>4
  <2> QED BY <2>6, <2>7, <2>8
<1>9. ASSUME NEW t \in Calls, DialFails(t) PROVE Corpses'
  BY <1>9, <1>0 DEF DialFails
<1>10. ASSUME NEW t \in Calls, ShowConnected(t) PROVE Corpses'
  BY <1>10, <1>0 DEF ShowConnected
<1>11. ASSUME NEW t \in Calls, SaveOpens(t) PROVE Corpses'
  BY <1>11, <1>0, Opening DEF SaveOpens
<1>12. ASSUME NEW t \in Calls, Touched(t) PROVE Corpses'
  BY <1>12, <1>0 DEF Touched
<1>13. ASSUME NEW t \in Calls, Call(t) PROVE Corpses'
  BY <1>13, <1>0 DEF Call
<1>14. ASSUME NEW t \in Calls, Answered(t) PROVE Corpses'
  BY <1>14, <1>0 DEF Answered
<1>15. ASSUME NEW t \in Calls, Fails(t) PROVE Corpses'
  BY <1>15, <1>0 DEF Fails
<1>16. ASSUME NEW t \in Calls, NEW m \in Machines, BeginPairing(t, m) PROVE Corpses'
  BY <1>16, <1>0 DEF BeginPairing
<1>17. ASSUME NEW t \in Calls, DialPairing(t) PROVE Corpses'
  <2>1. live' = live /\ lost' = lost /\ (pairing' = pairing \/ pairing' = Len(peers'))
    BY <1>17 DEF DialPairing, Establishes
  <2>2. Len(peers') \in Nat /\ Len(peers) <= Len(peers')
    <3>1. CASE peers' = peers
      BY <1>0, <3>1
    <3>2. CASE \E c \in 1 .. MaxConns, r \in call[t].rec : Establishes(c, r[1])
      <4>1. PICK c \in Conns, r \in call[t].rec : Establishes(c, r[1])
        BY <3>2 DEF Conns
      <4>2. r[1] \in Machines
        BY Options
      <4> QED BY <1>0, <4>1, <4>2, Established
    <3> QED BY <1>17, <3>1, <3>2 DEF DialPairing
  <2>3. \A u \in Calls : /\ call'[u].conn \in {None, call[u].conn}
                        /\ call'[u].pc \in {"idle", call[u].pc}
    BY <1>17 DEF DialPairing
  <2>4. /\ live <= Len(peers') /\ pairing <= Len(peers')
        /\ \A u \in Calls : call[u].conn <= Len(peers') /\ \A c \in lost : c <= Len(peers')
    BY <1>0, <2>2 DEF Conns, None
  <2>5. TornDown'
    BY <1>17, <2>1, <2>3 DEF DialPairing
  <2>6. ConnsGiven'
    BY <2>1, <2>2, <2>3, <2>4 DEF None
  <2>7. NoCorpse'
    BY <2>1
  <2> QED BY <2>5, <2>6, <2>7
<1>18. ASSUME NEW t \in Calls, CancelPairing(t) PROVE Corpses'
  BY <1>18, <1>0 DEF CancelPairing
<1>19. ASSUME NEW t \in Calls, Confirm(t) PROVE Corpses'
  BY <1>19, <1>0 DEF Confirm
<1>20. ASSUME NEW t \in Calls, Registers(t) PROVE Corpses'
  <2>1. UNCHANGED <<live, pairing, peers, lost>>
    BY <1>20 DEF Registers
  <2>2. \A u \in Calls : call'[u].conn = call[u].conn /\ (call'[u].pc = "torn" => call[u].pc = "torn")
    BY <1>20 DEF Registers
  <2> QED BY <2>1, <2>2
<1>21. ASSUME NEW t \in Calls, Refuses(t) PROVE Corpses'
  BY <1>21, <1>0 DEF Refuses
<1>22. ASSUME NEW t \in Calls, Refused(t) PROVE Corpses'
  BY <1>22, <1>0 DEF Refused
<1>23. ASSUME NEW t \in Calls, SaveWrites(t) PROVE Corpses'
  BY <1>23, <1>0, WritingFrames DEF SaveWrites
<1>24. ASSUME NEW t \in Calls, CachePairing(t) PROVE Corpses'
  BY <1>24, <1>0 DEF CachePairing
<1>25. ASSUME NEW t \in Calls, Spent(t) PROVE Corpses'
  BY <1>25, <1>0 DEF Spent
<1>26. ASSUME NEW t \in Calls, Paired(t) PROVE Corpses'
  BY <1>26, <1>0 DEF Paired
<1>27. ASSUME NEW t \in Calls, Unpair(t) PROVE Corpses'
  BY <1>27, <1>0 DEF Unpair
<1>28. ASSUME NEW t \in Calls, Forget(t) PROVE Corpses'
  BY <1>28, <1>0 DEF Forget
<1>29. ASSUME NEW t \in Calls, ShowUnpaired(t) PROVE Corpses'
  BY <1>29, <1>0 DEF ShowUnpaired
<1>30. ASSUME NEW t \in Calls, WipeDaemon(t) PROVE Corpses'
  BY <1>30, <1>0, Wiping DEF WipeDaemon
<1>31. ASSUME NEW t \in Calls, WipeSeed(t) PROVE Corpses'
  BY <1>31, <1>0 DEF WipeSeed
<1>32. ASSUME NEW c \in 1 .. MaxConns, LinkLost(c) PROVE Corpses'
  BY <1>32 DEF LinkLost
<1>33. ASSUME Restart PROVE Corpses'
  <2>1. live' = None /\ pairing' = None /\ peers' = peers /\ lost' = lost
    BY <1>33 DEF Restart
  <2>2. \A u \in Calls : call'[u].conn = None
    BY <1>33 DEF Restart
  <2>3. None \notin lost
    BY DEF None, Conns
  <2> QED BY <1>0, <2>1, <2>2, <2>3
<1>34. ASSUME UNCHANGED vars PROVE Corpses'
  BY <1>34 DEF vars
<1>35. ASSUME NEW t \in Calls, SaveRenames(t) PROVE Corpses'
  <2>1. UNCHANGED <<live, pairing, peers, lost>>
    BY <1>35 DEF SaveRenames
  <2>2. \A u \in Calls : call'[u].conn \in {call[u].conn, None} /\ (call'[u].pc = "torn" => call'[u].conn = call[u].conn /\ call[u].pc = "torn")
    BY <1>35, Renaming
  <2> QED BY <1>0, <2>1, <2>2
<1> QED
  BY <1>1, <1>2, <1>3, <1>4, <1>5, <1>6, <1>7, <1>8, <1>9, <1>10, <1>11, <1>12, <1>13, <1>14,
     <1>15, <1>16, <1>17, <1>18, <1>19, <1>20, <1>21, <1>22, <1>23, <1>24, <1>25, <1>26, <1>27,
     <1>28, <1>29, <1>30, <1>31, <1>32, <1>33, <1>34, <1>35 DEF Next

\* Only an unpair removes the record, and it takes back what was promised.
LEMMA SurvivesStep ==
  ASSUME IInv, [Next]_vars
  PROVE  Survives'
<1> USE DEF IInv, memory, disk, world, history, Goto, Return, Idle, TypeOK, Survives,
      UnpairClears, UnderWay, Unpairing, Saved, Kept
<1>1. ASSUME NEW t \in Calls, TearDown(t) PROVE Survives'
  BY <1>1 DEF TearDown, Tearing
<1>2. ASSUME NEW t \in Calls, ShowTornDown(t) PROVE Survives'
  BY <1>2 DEF ShowTornDown
<1>3. ASSUME NEW t \in Calls, Disconnect(t) PROVE Survives'
  BY <1>3 DEF Disconnect
<1>4. ASSUME NEW t \in Calls, Connect(t) PROVE Survives'
  BY <1>4 DEF Connect
<1>5. ASSUME NEW t \in Calls, NotPaired(t) PROVE Survives'
  BY <1>5 DEF NotPaired
<1>6. ASSUME NEW t \in Calls, CheckLive(t) PROVE Survives'
  BY <1>6 DEF CheckLive
<1>7. ASSUME NEW t \in Calls, Announce(t) PROVE Survives'
  BY <1>7 DEF Announce
<1>8. ASSUME NEW t \in Calls, Dial(t) PROVE Survives'
  BY <1>8 DEF Dial
<1>9. ASSUME NEW t \in Calls, DialFails(t) PROVE Survives'
  BY <1>9 DEF DialFails
<1>10. ASSUME NEW t \in Calls, ShowConnected(t) PROVE Survives'
  BY <1>10 DEF ShowConnected
<1>11. ASSUME NEW t \in Calls, SaveOpens(t) PROVE Survives'
  BY <1>11, Opening DEF SaveOpens
<1>12. ASSUME NEW t \in Calls, Touched(t) PROVE Survives'
  BY <1>12 DEF Touched
<1>13. ASSUME NEW t \in Calls, Call(t) PROVE Survives'
  BY <1>13 DEF Call
<1>14. ASSUME NEW t \in Calls, Answered(t) PROVE Survives'
  BY <1>14 DEF Answered
<1>15. ASSUME NEW t \in Calls, Fails(t) PROVE Survives'
  BY <1>15 DEF Fails
<1>16. ASSUME NEW t \in Calls, NEW m \in Machines, BeginPairing(t, m) PROVE Survives'
  BY <1>16 DEF BeginPairing
<1>17. ASSUME NEW t \in Calls, DialPairing(t) PROVE Survives'
  BY <1>17 DEF DialPairing
<1>18. ASSUME NEW t \in Calls, CancelPairing(t) PROVE Survives'
  BY <1>18 DEF CancelPairing
<1>19. ASSUME NEW t \in Calls, Confirm(t) PROVE Survives'
  BY <1>19 DEF Confirm
<1>20. ASSUME NEW t \in Calls, Registers(t) PROVE Survives'
  BY <1>20 DEF Registers
<1>21. ASSUME NEW t \in Calls, Refuses(t) PROVE Survives'
  BY <1>21 DEF Refuses
<1>22. ASSUME NEW t \in Calls, Refused(t) PROVE Survives'
  BY <1>22 DEF Refused
<1>23. ASSUME NEW t \in Calls, SaveWrites(t) PROVE Survives'
  <2>1. call[t].rec # {} /\ Torn # {}
    BY <1>23, WritingFrames DEF Remembered, FramesRegistered, Holding, Torn
  <2>2. daemonFile' \in {daemonFile, Torn, call[t].rec}
    BY <1>23, WritingFrames DEF Fills
  <2>3. UNCHANGED <<clear, told>>
    BY <1>23 DEF SaveWrites
  <2> QED BY <1>23, <2>1, <2>2, <2>3, WritingFrames
<1>24. ASSUME NEW t \in Calls, CachePairing(t) PROVE Survives'
  BY <1>24 DEF CachePairing
<1>25. ASSUME NEW t \in Calls, Spent(t) PROVE Survives'
  BY <1>25 DEF Spent
<1>26. ASSUME NEW t \in Calls, Paired(t) PROVE Survives'
  BY <1>26 DEF Paired
<1>27. ASSUME NEW t \in Calls, Unpair(t) PROVE Survives'
  BY <1>27 DEF Unpair
<1>28. ASSUME NEW t \in Calls, Forget(t) PROVE Survives'
  BY <1>28 DEF Forget
<1>29. ASSUME NEW t \in Calls, ShowUnpaired(t) PROVE Survives'
  BY <1>29 DEF ShowUnpaired
<1>30. ASSUME NEW t \in Calls, WipeDaemon(t) PROVE Survives'
  BY <1>30, Wiping DEF WipeDaemon
<1>31. ASSUME NEW t \in Calls, WipeSeed(t) PROVE Survives'
  BY <1>31 DEF WipeSeed
<1>32. ASSUME NEW c \in 1 .. MaxConns, LinkLost(c) PROVE Survives'
  BY <1>32 DEF LinkLost
<1>33. ASSUME Restart PROVE Survives'
  BY <1>33 DEF Restart, Idling
<1>34. ASSUME UNCHANGED vars PROVE Survives'
  BY <1>34 DEF vars
<1>35. ASSUME NEW t \in Calls, SaveRenames(t) PROVE Survives'
  <2>1. UNCHANGED <<clear, told>>
    BY <1>35 DEF SaveRenames
  <2>2. daemonFile' = daemonFile \/ daemonFile' # {}
    BY <1>35, Renaming
  <2>3. \A u \in Calls : call'[u].pc = call[u].pc \/ call'[u].pc \notin Unpairing
    BY <1>35, Renaming
  <2>4. \A u \in Calls : call'[u].pc \in {"cache", "spent", "paired"} =>
                           call[u].pc \in {"cache", "spent", "paired"} \/ daemonFile' # {}
    BY <1>35, Renaming
  <2> QED BY <2>1, <2>2, <2>3, <2>4
<1> QED
  BY <1>1, <1>2, <1>3, <1>4, <1>5, <1>6, <1>7, <1>8, <1>9, <1>10, <1>11, <1>12, <1>13, <1>14,
     <1>15, <1>16, <1>17, <1>18, <1>19, <1>20, <1>21, <1>22, <1>23, <1>24, <1>25, <1>26, <1>27,
     <1>28, <1>29, <1>30, <1>31, <1>32, <1>33, <1>34, <1>35 DEF Next

\* A step that leaves the two files and whoever writes them alone.
FilesAlone ==
    /\ UNCHANGED <<daemonFile, temp, cut>>
    /\ \A u \in Calls : /\ call'[u].file = call[u].file
                        /\ call[u].pc \in Saving \/ call'[u].pc \in Saving => call'[u].pc = call[u].pc

LEMMA AloneStep ==
  ASSUME Files, FilesAlone
  PROVE  Files'
<1>1. Writers'
  BY DEF Files, Writers, FilesAlone, Saving
<1>2. UnderWay(Saving)' => UnderWay(Saving)
  BY DEF FilesAlone, UnderWay
<1> QED BY <1>1, <1>2 DEF Files, FilesAlone, TempTorn, RecordTorn

\* The temporary file and the record are torn only as Files says.
LEMMA FilesStep ==
  ASSUME IInv, [Next]_vars
  PROVE  Files'
<1> USE DEF IInv, memory, disk, world, history, Goto, Return, Idle, TypeOK, Files
<1>1. ASSUME NEW t \in Calls, TearDown(t) PROVE Files'
  <2>1. FilesAlone
    BY <1>1 DEF TearDown, FilesAlone, Saving, Writers, Tearing
  <2> QED BY <2>1, AloneStep
<1>2. ASSUME NEW t \in Calls, ShowTornDown(t) PROVE Files'
  <2>1. FilesAlone
    BY <1>2 DEF ShowTornDown, FilesAlone, Saving, Writers
  <2> QED BY <2>1, AloneStep
<1>3. ASSUME NEW t \in Calls, Disconnect(t) PROVE Files'
  <2>1. FilesAlone
    BY <1>3 DEF Disconnect, FilesAlone, Saving, Writers
  <2> QED BY <2>1, AloneStep
<1>4. ASSUME NEW t \in Calls, Connect(t) PROVE Files'
  <2>1. FilesAlone
    BY <1>4 DEF Connect, FilesAlone, Saving, Writers
  <2> QED BY <2>1, AloneStep
<1>5. ASSUME NEW t \in Calls, NotPaired(t) PROVE Files'
  <2>1. FilesAlone
    BY <1>5 DEF NotPaired, FilesAlone, Saving, Writers
  <2> QED BY <2>1, AloneStep
<1>6. ASSUME NEW t \in Calls, CheckLive(t) PROVE Files'
  <2>1. FilesAlone
    BY <1>6 DEF CheckLive, FilesAlone, Saving, Writers
  <2> QED BY <2>1, AloneStep
<1>7. ASSUME NEW t \in Calls, Announce(t) PROVE Files'
  <2>1. FilesAlone
    BY <1>7 DEF Announce, FilesAlone, Saving, Writers
  <2> QED BY <2>1, AloneStep
<1>8. ASSUME NEW t \in Calls, Dial(t) PROVE Files'
  <2>1. FilesAlone
    BY <1>8 DEF Dial, FilesAlone, Saving, Writers
  <2> QED BY <2>1, AloneStep
<1>9. ASSUME NEW t \in Calls, DialFails(t) PROVE Files'
  <2>1. FilesAlone
    BY <1>9 DEF DialFails, FilesAlone, Saving, Writers
  <2> QED BY <2>1, AloneStep
<1>10. ASSUME NEW t \in Calls, ShowConnected(t) PROVE Files'
  <2>1. FilesAlone
    BY <1>10 DEF ShowConnected, FilesAlone, Saving, Writers
  <2> QED BY <2>1, AloneStep
<1>11. ASSUME NEW t \in Calls, Touched(t) PROVE Files'
  <2>1. FilesAlone
    BY <1>11 DEF Touched, FilesAlone, Saving, Writers
  <2> QED BY <2>1, AloneStep
<1>12. ASSUME NEW t \in Calls, Call(t) PROVE Files'
  <2>1. FilesAlone
    BY <1>12 DEF Call, FilesAlone, Saving, Writers
  <2> QED BY <2>1, AloneStep
<1>13. ASSUME NEW t \in Calls, Answered(t) PROVE Files'
  <2>1. FilesAlone
    BY <1>13 DEF Answered, FilesAlone, Saving, Writers
  <2> QED BY <2>1, AloneStep
<1>14. ASSUME NEW t \in Calls, Fails(t) PROVE Files'
  <2>1. FilesAlone
    BY <1>14 DEF Fails, FilesAlone, Saving, Writers
  <2> QED BY <2>1, AloneStep
<1>15. ASSUME NEW t \in Calls, DialPairing(t) PROVE Files'
  <2>1. FilesAlone
    BY <1>15 DEF DialPairing, FilesAlone, Saving, Writers
  <2> QED BY <2>1, AloneStep
<1>16. ASSUME NEW t \in Calls, CancelPairing(t) PROVE Files'
  <2>1. FilesAlone
    BY <1>16 DEF CancelPairing, FilesAlone, Saving, Writers
  <2> QED BY <2>1, AloneStep
<1>17. ASSUME NEW t \in Calls, Confirm(t) PROVE Files'
  <2>1. FilesAlone
    BY <1>17 DEF Confirm, FilesAlone, Saving, Writers
  <2> QED BY <2>1, AloneStep
<1>18. ASSUME NEW t \in Calls, Registers(t) PROVE Files'
  <2>1. FilesAlone
    BY <1>18 DEF Registers, FilesAlone, Saving, Writers
  <2> QED BY <2>1, AloneStep
<1>19. ASSUME NEW t \in Calls, Refuses(t) PROVE Files'
  <2>1. FilesAlone
    BY <1>19 DEF Refuses, FilesAlone, Saving, Writers
  <2> QED BY <2>1, AloneStep
<1>20. ASSUME NEW t \in Calls, Refused(t) PROVE Files'
  <2>1. FilesAlone
    BY <1>20 DEF Refused, FilesAlone, Saving, Writers
  <2> QED BY <2>1, AloneStep
<1>21. ASSUME NEW t \in Calls, CachePairing(t) PROVE Files'
  <2>1. FilesAlone
    BY <1>21 DEF CachePairing, FilesAlone, Saving, Writers
  <2> QED BY <2>1, AloneStep
<1>22. ASSUME NEW t \in Calls, Spent(t) PROVE Files'
  <2>1. FilesAlone
    BY <1>22 DEF Spent, FilesAlone, Saving, Writers
  <2> QED BY <2>1, AloneStep
<1>23. ASSUME NEW t \in Calls, Paired(t) PROVE Files'
  <2>1. FilesAlone
    BY <1>23 DEF Paired, FilesAlone, Saving, Writers
  <2> QED BY <2>1, AloneStep
<1>24. ASSUME NEW t \in Calls, Unpair(t) PROVE Files'
  <2>1. FilesAlone
    BY <1>24 DEF Unpair, FilesAlone, Saving, Writers
  <2> QED BY <2>1, AloneStep
<1>25. ASSUME NEW t \in Calls, Forget(t) PROVE Files'
  <2>1. FilesAlone
    BY <1>25 DEF Forget, FilesAlone, Saving, Writers
  <2> QED BY <2>1, AloneStep
<1>26. ASSUME NEW t \in Calls, ShowUnpaired(t) PROVE Files'
  <2>1. FilesAlone
    BY <1>26 DEF ShowUnpaired, FilesAlone, Saving, Writers
  <2> QED BY <2>1, AloneStep
<1>27. ASSUME NEW t \in Calls, WipeSeed(t) PROVE Files'
  <2>1. FilesAlone
    BY <1>27 DEF WipeSeed, FilesAlone, Saving, Writers
  <2> QED BY <2>1, AloneStep
<1>28. ASSUME NEW t \in Calls, NEW m \in Machines, BeginPairing(t, m) PROVE Files'
  <2>1. FilesAlone
    BY <1>28 DEF BeginPairing, FilesAlone, Saving, Writers
  <2> QED BY <2>1, AloneStep
<1>29. ASSUME NEW c \in 1 .. MaxConns, LinkLost(c) PROVE Files'
  <2>1. FilesAlone
    BY <1>29 DEF LinkLost, FilesAlone
  <2> QED BY <2>1, AloneStep
<1>30. ASSUME UNCHANGED vars PROVE Files'
  <2>1. FilesAlone
    BY <1>30 DEF vars, FilesAlone
  <2> QED BY <2>1, AloneStep
<1>31. ASSUME NEW t \in Calls, SaveOpens(t) PROVE Files'
  <2> USE DEF Writers, TempTorn, RecordTorn, UnderWay, Saving
  <2>1. UNCHANGED <<daemonFile, cut>> /\ \A u \in Calls \ {t} : call'[u] = call[u]
    BY <1>31, Opening DEF SaveOpens
  <2>2. call[t].file # "record" /\ call[t].file # "temp" /\ call[t].pc \notin Saving
    BY <1>31 DEF SaveOpens
  <2>3. CASE temp' = Torn /\ call'[t].file = "temp" /\ call'[t].pc \in {"touch_write", "save_write"}
    BY <2>1, <2>2, <2>3
  <2>4. CASE call'[t] = Idle /\ UNCHANGED temp
    BY <2>1, <2>2, <2>4
  <2> QED BY <1>31, <2>3, <2>4, Opening
<1>32. ASSUME NEW t \in Calls, SaveWrites(t) PROVE Files'
  <2> USE DEF Writers, TempTorn, RecordTorn, UnderWay, Saving
  <2>1. call[t].rec # Torn
    BY Whole
  <2>2. CASE UNCHANGED cut /\ Fills(call[t].file, call[t].rec) /\ call'[t].pc \in {"touch_rename", "save_rename"} /\ call'[t].file = "none"
    BY <1>32, <2>1, <2>2, WritingFrames DEF Fills
  <2>3. CASE /\ call'[t] = Idle
             /\ cut' = (cut \/ call[t].file = "record" \/ \E u \in Calls \ {t} : call[u].pc \in Saving)
    <3>1. \A u \in Calls \ {t} : call'[u] = call[u]
      BY <1>32, WritingFrames
    <3>2. call'[t].file = "none" /\ call'[t].pc = "idle"
      BY <2>3
    <3>3. Writers'
      BY <3>1, <3>2
    <3>4. CASE cut'
      BY <3>3, <3>4
    <3>5. CASE ~cut'
      <4>1. ~cut /\ call[t].file # "record" /\ \A u \in Calls : call'[u].pc \notin Saving
        BY <2>3, <3>1, <3>2, <3>5
      <4>2. UNCHANGED daemonFile
        BY <1>32, <4>1, WritingFrames DEF Fills
      <4>3. \A u \in Calls : call[u].file = "record" => call'[u].file = "record"
        BY <3>1, <4>1
      <4> QED BY <3>3, <4>1, <4>2, <4>3
    <3> QED BY <3>4, <3>5
  <2> QED BY <1>32, <2>2, <2>3, WritingFrames
<1>33. ASSUME NEW t \in Calls, SaveRenames(t) PROVE Files'
  <2> USE DEF Writers, TempTorn, RecordTorn, UnderWay, Saving
  <2>1. CASE /\ \A u \in Calls : call'[u].file = Moved(call[u].file)
             /\ \A u \in Calls \ {t} : call'[u].pc = call[u].pc
             /\ daemonFile' = temp /\ temp' = {}
             /\ cut' = (cut /\ (temp = Torn \/ \E u \in Calls \ {t} : call[u].pc \in Saving))
    <3>1. Writers'
      BY <1>33, <2>1, Renaming DEF Moved, Gone
    <3>2. TempTorn'
      BY <2>1 DEF Torn
    <3>3. RecordTorn'
      BY <1>33, <2>1, Renaming DEF Moved
    <3> QED BY <3>1, <3>2, <3>3
  <2>2. CASE /\ call'[t] = Idle /\ \A u \in Calls \ {t} : call'[u] = call[u]
             /\ UNCHANGED <<daemonFile, temp, cut>>
    BY <1>33, <2>2, Renaming
  <2> QED BY <1>33, <2>1, <2>2, Renaming
<1>34. ASSUME NEW t \in Calls, WipeDaemon(t) PROVE Files'
  <2>1. UNCHANGED <<temp, cut>>
    BY <1>34 DEF WipeDaemon
  <2> USE DEF Writers, TempTorn, RecordTorn, UnderWay, Saving
  <2>2. Writers'
    BY <1>34, Wiping DEF Gone
  <2>3. TempTorn'
    <3>1. \A u \in Calls : call[u].file = "temp" => call'[u].file = "temp"
      BY <1>34, Wiping DEF Gone
    <3>2. call'[t].pc \notin Saving /\ \A u \in Calls \ {t} : call'[u].pc = call[u].pc
      BY <1>34, Wiping
    <3> QED BY <2>1, <3>1, <3>2
  <2>4. RecordTorn'
    BY <1>34, <2>1, Wiping DEF Torn
  <2> QED BY <2>2, <2>3, <2>4
<1>35. ASSUME Restart PROVE Files'
  BY <1>35 DEF Restart, Writers, TempTorn, RecordTorn, UnderWay, Saving
<1> QED BY <1>1, <1>2, <1>3, <1>4, <1>5, <1>6, <1>7, <1>8, <1>9, <1>10, <1>11, <1>12, <1>13, <1>14, <1>15, <1>16, <1>17, <1>18, <1>19, <1>20, <1>21, <1>22, <1>23, <1>24, <1>25, <1>26, <1>27, <1>28, <1>29, <1>30, <1>31, <1>32, <1>33, <1>34, <1>35 DEF Next

-----------------------------------------------------------------------------
\* The parts hold together, and each step keeps them.
THEOREM Invariance == Spec => []IInv
<1>1. IInv /\ [Next]_vars => IInv'
  BY TypeStep, RememberedStep, CorpsesStep, SurvivesStep, FilesStep DEF IInv
<1> QED BY InitInv, <1>1, PTL DEF Spec

\* The phone's memory, its files and the frames of its calls keep their shape.
THEOREM TypeCorrect == Spec => []TypeOK
<1>1. IInv => TypeOK
  BY DEF IInv
<1> QED BY <1>1, Invariance, PTL

\* However the calls overlap, and wherever the app is killed, the phone never
\* remembers a daemon under a key that the daemon has not registered
\* (save_pairing only after sys.register, touch_last_seen only on an old record).
THEOREM OnlyRegisteredIsRemembered == Spec => []RememberedIsRegistered
<1>1. IInv => RememberedIsRegistered
  BY DEF IInv, Remembered
<1> QED BY <1>1, Invariance, PTL

\* A connection that a call has reported lost is never the live one again
\* (tear_down before ConnectionLost, for any number of calls that fail at once).
THEOREM LostStaysDown == Spec => []NoCorpse
<1>1. IInv => NoCorpse
  BY DEF IInv, Corpses
<1> QED BY <1>1, Invariance, PTL

\* What the app was told is paired is on disk until unpair is called, and whole
\* unless two saves used the temporary file at once (confirm_pairing returns
\* after save_daemon, and only wipe removes the record).
THEOREM ToldIsKept == Spec => []PairingSurvives
<1>1. IInv => PairingSurvives
  BY DEF IInv, Survives, Kept, Files, RecordTorn, PairingSurvives
<1> QED BY <1>1, Invariance, PTL
=============================================================================

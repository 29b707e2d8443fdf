------------------------------ MODULE Signals -------------------------------
(* The way of a signal's value: CanSignalEncoder puts it into the frame of   *)
(* its message and sends that, at once or with the message's cycle; the      *)
(* device puts the frame on the bus and reports it back, as it does with the *)
(* frames of others; CanSignalDecoder sends the values that changed to       *)
(* CanSignalViewer.  The three nodes run in the GUI thread and work with the *)
(* same database, which a user may edit or change at any time (SignalDb).    *)
EXTENDS SignalCodec, Sequences

CONSTANTS Messages,   \* ids of messages
          Names,      \* names of signals, each with its message's id
          Databases,  \* what _db.getDb() may be: a function from their names
          Given(_),   \* the values that may be given to a signal
          Foreign,    \* frames that others put on the bus
          MaxWire,    \* a bound for the frames on their way
          None        \* no value was given

NoPayload == [bytes |-> 0, ones |-> {}]

(* Messages have up to 8 bytes, as many as beTransTable has bits for.        *)
Payloads == {p \in [bytes : 0 .. 8, ones : SUBSET (0 .. 63)] :
               p.ones \subseteq 0 .. 8 * p.bytes - 1}
Wired == [id : Messages, payload : Payloads]

ASSUME DatabasesAssumption ==
  \A d \in DOMAIN Databases : \A m \in DOMAIN Databases[d] :
    LET msg == Databases[d][m]
    IN /\ m \in Messages
       /\ msg.bytes \in 0 .. 8 /\ msg.init \in Payloads
       /\ \A n \in DOMAIN msg.signals :
            n \in Names /\ n.id = m /\ msg.signals[n] \in ExactSignals
ASSUME ConstantsAssumption ==
  /\ Foreign \subseteq Wired /\ MaxWire \in Nat
  /\ \A n \in Names : /\ Given(n) \subseteq -MaxExact .. MaxExact
                      /\ None \notin Given(n)

VARIABLES simStarted, \* the nodes' _simStarted: they start and stop together
          db,         \* the current database of encoder and decoder
          dbAtStart,  \* the timers that run, with the messages they captured
          rawCache,   \* the encoder's _rawCache
          wire,       \* frames that the device has been given or has received
          signalCache,\* the decoder's _signalCache
          newest,     \* the viewer's last row for each signal
          cleared,    \* history: rows that Clear removed and no other followed
          given,      \* history: the last value the encoder took for each
                      \* signal since the start or a change of the database
          unshown,    \* history: those of which it has not come back yet
          steady      \* history: the database is still that of the start

encoder == <<dbAtStart, rawCache>>
decoder == <<signalCache, newest, cleared>>
history == <<given, unshown, steady>>
vars == <<simStarted, db, encoder, wire, decoder, history>>

MessagesOf(d) == IF d = None THEN <<>> ELSE Databases[d]
Bytes(d, m) == MessagesOf(d)[m].bytes
Initial(d, m) == MessagesOf(d)[m].init
Periodic(d, m) == m \in DOMAIN MessagesOf(d) /\ MessagesOf(d)[m].cycle
SignalsOf(d, m) ==
  IF m \in DOMAIN MessagesOf(d) THEN MessagesOf(d)[m].signals ELSE <<>>

(* The cache is set up, or begun again for a message that became longer.     *)
Filled(payload, bytes) ==
  IF payload.bytes < bytes THEN [bytes |-> bytes, ones |-> {}] ELSE payload

(* initCacheAndTimers                                                        *)
InitCache(d) ==
  [m \in Messages |-> IF m \in DOMAIN MessagesOf(d) THEN Initial(d, m)
                      ELSE NoPayload]

(* The cache of the decoder, or the rows of the viewer, with new values.     *)
With(old, new) ==
  [n \in DOMAIN new \cup DOMAIN old |-> IF n \in DOMAIN new THEN new[n] ELSE old[n]]

Sent(m, payload) == Append(wire, [id |-> m, payload |-> payload])

-----------------------------------------------------------------------------
Init == /\ simStarted = FALSE
        /\ db \in DOMAIN Databases
        /\ dbAtStart = None
        /\ rawCache = [m \in Messages |-> NoPayload]
        /\ wire = <<>>
        /\ signalCache = <<>>
        /\ newest = <<>>
        /\ cleared = <<>>
        /\ given = [n \in Names |-> None]
        /\ unshown = {}
        /\ steady = TRUE

(* History begins anew.                                                      *)
NothingGiven == given' = [n \in Names |-> None] /\ unshown' = {}

(* A mutant: the decoder remembers what it sent in the last run.             *)
StartKeepingCache ==
  /\ ~simStarted
  /\ simStarted' = TRUE
  /\ dbAtStart' = db
  /\ rawCache' = InitCache(db)
  /\ newest' = <<>>
  /\ cleared' = <<>>
  /\ NothingGiven
  /\ steady' = TRUE
  /\ UNCHANGED <<db, wire, signalCache>>

(* startSimulation of the three nodes, in one broadcast.                     *)
Start ==
  /\ ~simStarted
  /\ simStarted' = TRUE
  /\ dbAtStart' = db
  /\ rawCache' = InitCache(db)
  /\ signalCache' = <<>>
  /\ newest' = <<>>
  /\ cleared' = <<>>
  /\ NothingGiven
  /\ steady' = TRUE
  /\ UNCHANGED <<db, wire>>

(* stopSimulation, which stops the timers for good; the device, in its own   *)
(* thread, drops what it still has, and what it has already reported will    *)
(* come.                                                                     *)
Stop ==
  /\ simStarted
  /\ simStarted' = FALSE
  /\ dbAtStart' = None
  /\ \E n \in 0 .. Len(wire) : wire' = SubSeq(wire, 1, n)
  /\ cleared' = <<>>
  /\ NothingGiven
  /\ steady' = TRUE
  /\ UNCHANGED <<db, rawCache, signalCache, newest>>

(* The Clear button of the viewer, of which the decoder does not hear.       *)
Clear ==
  /\ newest' = <<>>
  /\ cleared' = IF simStarted THEN With(cleared, newest) ELSE <<>>
  /\ UNCHANGED <<simStarted, db, encoder, wire, signalCache, history>>

(* A database comes, changes or goes, or another is chosen.                  *)
ChangeDb ==
  /\ db' \in DOMAIN Databases \ {db}
  /\ steady' = ~simStarted
  /\ NothingGiven
  /\ UNCHANGED <<simStarted, encoder, wire, decoder>>

(* rcvSignal, with encodeSignal: of a signal that the database has, as       *)
(* others are ignored.                                                       *)
RcvSignal(n, val) ==
  /\ simStarted
  /\ n \in DOMAIN SignalsOf(db, n.id)
  /\ LET sig == SignalsOf(db, n.id)[n]
         cache == Filled(rawCache[n.id], Bytes(db, n.id))
         payload == SignalToRaw(cache, sig, val)
     IN IF Fits(sig, cache) /\ sig.factor # 0
        THEN /\ rawCache' = [rawCache EXCEPT ![n.id] = payload]
             /\ given' = [given EXCEPT ![n] = val]
             /\ unshown' = unshown \cup {n}
             /\ IF Periodic(db, n.id) THEN UNCHANGED wire
                ELSE /\ Len(wire) < MaxWire
                     /\ wire' = Sent(n.id, payload)
        ELSE /\ rawCache' = [rawCache EXCEPT ![n.id] = cache]
             /\ UNCHANGED <<given, unshown, wire>>
  /\ UNCHANGED <<simStarted, db, dbAtStart, steady, decoder>>

(* A mutant: the message is sent with its initial value, not with the cache. *)
TimeoutInitial(m) ==
  /\ simStarted /\ Periodic(dbAtStart, m) /\ Len(wire) < MaxWire
  /\ wire' = Sent(m, Filled(Initial(dbAtStart, m), Bytes(dbAtStart, m)))
  /\ UNCHANGED <<simStarted, db, encoder, decoder, history>>

(* The timer of a message, as the message was at the start.                  *)
Timeout(m) ==
  /\ simStarted /\ Periodic(dbAtStart, m) /\ Len(wire) < MaxWire
  /\ LET payload == Filled(rawCache[m], Bytes(dbAtStart, m))
     IN /\ rawCache' = [rawCache EXCEPT ![m] = payload]
        /\ wire' = Sent(m, payload)
  /\ UNCHANGED <<simStarted, db, dbAtStart, decoder, history>>

ReceiveForeign ==
  /\ simStarted /\ Len(wire) < MaxWire
  /\ \E frame \in Foreign : wire' = Sent(frame.id, frame.payload)
  /\ UNCHANGED <<simStarted, db, encoder, decoder, history>>

(* decodeFrame, which does not ask whether the simulation is started, and    *)
(* addSignal, which the viewer calls if it is.  What changes is sent on, be  *)
(* the frame our own or another's.                                           *)
DecodeFrame ==
  /\ wire # <<>>
  /\ LET frame == Head(wire)
         sigs == SignalsOf(db, frame.id)
         read == {n \in DOMAIN sigs : Fits(sigs[n], frame.payload)}
         value == [n \in read |-> Decoded(frame.payload, sigs[n])]
         changed == {n \in read : n \in DOMAIN signalCache =>
                                    signalCache[n] # value[n]}
     IN /\ signalCache' = With(signalCache, value)
        /\ IF simStarted
           THEN /\ newest' = With(newest, [n \in changed |-> value[n]])
                /\ cleared' = [n \in DOMAIN cleared \ changed |-> cleared[n]]
           ELSE UNCHANGED <<newest, cleared>>
        /\ unshown' = {n \in unshown : n \in read =>
                                        value[n] # Wrapped(sigs[n], given[n])}
  /\ wire' = Tail(wire)
  /\ UNCHANGED <<simStarted, db, encoder, given, steady>>

Next ==
  \/ Start \/ Stop \/ Clear \/ ChangeDb
  \/ \E n \in Names : \E val \in Given(n) : RcvSignal(n, val)
  \/ \E m \in Messages : Timeout(m)
  \/ ReceiveForeign \/ DecodeFrame

(* Queued frames are delivered: only DecodeFrame takes the first one, or a   *)
(* Stop that drops it.  A QTimer that runs goes off again and again, and     *)
(* only the bound on the wire disables it.                                   *)
Delivered == wire # <<>> /\ wire' = Tail(wire)
Fairness == WF_wire(Delivered) /\ \A m \in Messages : SF_wire(Timeout(m))

Spec == Init /\ [][Next]_vars /\ Fairness
-----------------------------------------------------------------------------
(* The state has its types; what was decoded is of signals that some         *)
(* database has, and only a running encoder has been given anything.         *)
TypeOK ==
  /\ simStarted \in BOOLEAN /\ steady \in BOOLEAN
  /\ db \in DOMAIN Databases /\ dbAtStart \in DOMAIN Databases \cup {None}
  /\ rawCache \in [Messages -> Payloads]
  /\ wire \in Seq(Wired) /\ Len(wire) <= MaxWire
  /\ DOMAIN signalCache \subseteq Names
  /\ DOMAIN newest \subseteq Names /\ DOMAIN cleared \subseteq Names
  /\ DOMAIN given = Names
  /\ unshown \subseteq {n \in Names : given[n] # None}
  /\ \A n \in Names : given[n] # None => given[n] \in Given(n)

(* As long as the database stays as it was at the start, the encoder's cache *)
(* holds, for every signal that fits, the last value given to it, and for    *)
(* the others the initial one: no signal's bits disturb another's, whatever  *)
(* their order, and no timer begins a cache anew.                            *)
CacheHoldsGiven ==
  simStarted /\ steady =>
    \A n \in Names :
      LET sigs == SignalsOf(db, n.id)
          cache == rawCache[n.id]
      IN n \in DOMAIN sigs /\ cache.bytes >= Bytes(db, n.id) /\ Fits(sigs[n], cache) =>
           Decoded(cache, sigs[n]) =
             IF given[n] # None THEN Wrapped(sigs[n], given[n])
             ELSE Decoded(Filled(Initial(db, n.id), Bytes(db, n.id)), sigs[n])

(* The viewer's last row for a signal has the value that the decoder decoded *)
(* last, though the decoder sends only what changed, goes on decoding while  *)
(* it is stopped and the viewer does not: no value is lost over a restart.   *)
(* A signal that the decoder knows has no row only after Clear, and then its *)
(* value is still that of the row removed, as the decoder sends it not again *)
(* until it changes.                                                         *)
RowsAreDecoded == simStarted => With(cleared, newest) = signalCache

(* A value that is given comes to the decoder, at once or in a cycle, over   *)
(* the bus and among frames of others, unless another one is given before,   *)
(* the simulation stops or the database changes.                             *)
GivenIsDecoded ==
  \A n \in Names : \A val \in Given(n) :
    LET Waiting == simStarted /\ steady /\ n \in unshown /\ given[n] = val
    IN Waiting ~> ~Waiting

(* "if signal is a part of periodic message its value will be updated in a   *)
(* next cycle" (README.md:293), also of a message that is periodic only      *)
(* since a time after the start.                                             *)
PeriodicIsUpdated ==
  \A n \in Names : \A val \in Given(n) :
    ~<>[](simStarted /\ Periodic(db, n.id) /\ n \in unshown /\ given[n] = val)
=============================================================================

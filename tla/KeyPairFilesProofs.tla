------------------------- MODULE KeyPairFilesProofs -------------------------
(***************************************************************************)
(* Proofs about KeyPairFiles, for any handlers, versions and faults.       *)
(*                                                                         *)
(* The argument: a writer that nobody disturbed is alone in its store, and *)
(* one that somebody did has its store marked as broken.  So what an       *)
(* undisturbed writer has written is still there when it writes the rest,  *)
(* and the store is whole when it is done (WriterOK).  An undisturbed      *)
(* reader has seen a store that was whole, at rest, and unchanged since    *)
(* (ReaderOK), hence the key of the certificate and the same certificate   *)
(* twice.                                                                  *)
(***************************************************************************)
EXTENDS KeyPairFiles, TLAPS

Reading(g) == g.pc \in {"crt", "key", "chain", "root", "reply"}

ShapeOK(g) ==
    /\ IsWriter(g) => /\ g.store \in Stores
                      /\ g.store = "root" => g.crt \in RootBytes
                      /\ g.store # "root" => g.crt \in Versions /\ g.key = g.crt
    /\ g.pc \in {"openKey", "writeKey"} => g.store # "root"
    /\ Reading(g) => g.kind \in Readers
    /\ g.pc \in {"key", "chain", "root", "reply"} => g.crt \in Versions
    /\ g.pc \in {"chain", "root"} => g.kind \in Certifiers
    /\ g.pc = "reply" => g.kind \in Signers

ValidityOK(g) ==
    g.kind \in Certifiers =>
        /\ g.pc \in {"chain", "root", "reply"} => g.days = Certified(g.kind, g.asked)
        /\ g.pc = "reply" => g.told = Corrected(g.kind, g.asked)

ReaderOK(g) ==
    Reading(g) /\ g.quiet =>
        /\ \A s \in Needs(g.kind) : ~ Busy(s) /\ s \notin broken
        /\ g.pc \in {"key", "chain", "root", "reply"} => g.crt = crtFile[CrtStore(g.kind)]
        /\ g.pc \in {"chain", "root", "reply"} => g.key = g.crt
        /\ g.kind \in Certifiers =>
              /\ g.pc \in {"root", "reply"} => g.chain = g.crt
              /\ g.pc = "reply" => g.root = crtFile["root"] /\ g.root \in RootBytes

WriterOK(g) ==
    IsWriter(g) =>
        /\ ~ g.quiet => g.store \in broken
        /\ g.quiet /\ g.pc = "openCrt" /\ g.store \notin broken => Whole(g.store)
        /\ g.quiet /\ g.pc \in {"openKey", "writeKey"} => crtFile[g.store] = g.crt

Alone ==
    \A g, h \in Handlers :
        /\ g # h
        /\ IsWriter(handler[g]) /\ IsWriter(handler[h])
        /\ handler[g].store = handler[h].store
        => ~ handler[g].quiet

RootOK == crtFile["root"] \in RootBytes \cup {Absent, Truncated}

IntOK == crtFile["int"] \in Versions \cup {Absent, Truncated}

IInv ==
    /\ TypeOK
    /\ RootOK /\ IntOK
    /\ \A h \in Handlers : ShapeOK(handler[h])
    /\ \A h \in Handlers : ValidityOK(handler[h])
    /\ \A h \in Handlers : ReaderOK(handler[h])
    /\ \A h \in Handlers : WriterOK(handler[h])
    /\ Alone
    /\ PairsMatch
-----------------------------------------------------------------------------
(* Handlers and faults.                                                    *)

LEMMA FaultType == ASSUME TypeOK, Fault PROVE faults' \in 0..MaxFaults
    BY FilesAssumption DEF TypeOK, Fault

LEMMA IdleOK ==
    /\ Idle \in Handler /\ Idle.pc = "idle"
    /\ ~ IsWriter(Idle) /\ ~ Reading(Idle)
    /\ ShapeOK(Idle) /\ ValidityOK(Idle) /\ ReaderOK(Idle) /\ WriterOK(Idle)
<1>1. Idle \in Handler
    BY DEF Idle, Handler, Days
<1>2. Idle.pc = "idle"
    BY DEF Idle
<1>3. ~ IsWriter(Idle) /\ ~ Reading(Idle)
    BY <1>2 DEF IsWriter, Reading
<1> QED
    BY <1>1, <1>2, <1>3 DEF ShapeOK, ValidityOK, ReaderOK, WriterOK

LEMMA HandlerType == ASSUME IInv, NEW h \in Handlers PROVE handler[h] \in Handler
    BY DEF IInv, TypeOK

LEMMA InitOK == Init => IInv
<1> SUFFICES ASSUME Init PROVE IInv
    OBVIOUS
<1>1. \A h \in Handlers : handler[h] = Idle
    BY DEF Init
<1>2. TypeOK
    BY IdleOK, FilesAssumption DEF Init, TypeOK
<1>3. RootOK
    BY DEF Init, RootOK, Stores
<1>6. IntOK
    BY DEF Init, IntOK, Stores
<1>4. Alone
    BY <1>1, IdleOK DEF Alone
<1>5. PairsMatch
    BY FilesAssumption DEF Init, PairsMatch, Whole
<1> QED
    BY <1>1, <1>2, <1>3, <1>4, <1>5, <1>6, IdleOK DEF IInv

-----------------------------------------------------------------------------
(* Steps of signers: the files stay, and one handler that is no writer     *)
(* moves.                                                                  *)

LEMMA OneReader ==
    ASSUME IInv,
           NEW h \in Handlers, NEW g \in Handler,
           handler' = [handler EXCEPT ![h] = g],
           UNCHANGED << crtFile, keyFile, broken >>,
           faults' \in 0..MaxFaults,
           ~ IsWriter(handler[h]), ~ IsWriter(g),
           ShapeOK(g), ValidityOK(g), ReaderOK(g)
    PROVE  IInv'
<1>1. \A k \in Handlers : handler'[k] = IF k = h THEN g ELSE handler[k]
    BY DEF IInv, TypeOK
<1>2. TypeOK'
    BY DEF IInv, TypeOK
<1>3. RootOK' /\ IntOK'
    BY DEF IInv, RootOK, IntOK
<1>4. \A s \in Stores : Busy(s)' <=> Busy(s)
    BY <1>1 DEF Busy, IsWriter
<1>5. \A k \in Handlers : ShapeOK(handler[k])' /\ ValidityOK(handler[k])'
    BY <1>1 DEF IInv, ShapeOK, ValidityOK, IsWriter, Reading
<1>6. ASSUME NEW k \in Handlers PROVE ReaderOK(handler[k])'
    <2>1. ReaderOK(handler'[k])
        BY <1>1 DEF IInv
    <2>2. \A s : Busy(s)' <=> Busy(s)
        BY <1>1 DEF Busy, IsWriter
    <2> QED
        BY <2>1, <2>2 DEF ReaderOK, Reading
<1>7. ASSUME NEW k \in Handlers PROVE WriterOK(handler[k])'
    <2>1. WriterOK(handler'[k])
        BY <1>1 DEF IInv, WriterOK
    <2> QED
        BY <2>1 DEF WriterOK, IsWriter, Whole
<1>8. Alone'
    BY <1>1 DEF IInv, Alone, IsWriter
<1>9. PairsMatch'
    BY <1>4 DEF IInv, PairsMatch, Whole
<1> QED
    BY <1>2, <1>3, <1>5, <1>6, <1>7, <1>8, <1>9 DEF IInv

LEMMA Finished ==
    ASSUME IInv, NEW h \in Handlers, Finish(h), ~ IsWriter(handler[h]),
           UNCHANGED << crtFile, keyFile, broken >>,
           faults' \in 0..MaxFaults
    PROVE  IInv'
<1>1. handler' = [handler EXCEPT ![h] = Idle]
    BY DEF Finish
<1> QED
    BY <1>1, IdleOK, OneReader

LEMMA StepBegin == ASSUME IInv, NEW h \in Handlers, Begin(h) PROVE IInv'
<1>1. PICK k \in Readers : \E a \in IF k \in Certifiers THEN Asked ELSE {0} :
          handler' = [handler EXCEPT ![h] =
              [Idle EXCEPT !.pc = "crt", !.kind = k, !.asked = a,
                           !.quiet = \A s \in Needs(k) : ~ Busy(s) /\ s \notin broken]]
    BY DEF Begin
<1>2. PICK a \in Days :
          handler' = [handler EXCEPT ![h] =
              [Idle EXCEPT !.pc = "crt", !.kind = k, !.asked = a,
                           !.quiet = \A s \in Needs(k) : ~ Busy(s) /\ s \notin broken]]
    BY <1>1 DEF Days
<1> DEFINE q == \A s \in Needs(k) : ~ Busy(s) /\ s \notin broken
           g == [Idle EXCEPT !.pc = "crt", !.kind = k, !.asked = a, !.quiet = q]
<1>3. g.pc = "crt" /\ g.kind = k /\ g.quiet = q
    BY DEF Idle
<1>4. g \in Handler
    <2>1. q \in BOOLEAN
        OBVIOUS
    <2> QED
        BY <2>1, IdleOK DEF Handler
<1>5. handler' = [handler EXCEPT ![h] = g]
    BY <1>2
<1> HIDE DEF g
<1>6. ShapeOK(g) /\ ValidityOK(g) /\ ~ IsWriter(g)
    BY <1>3 DEF ShapeOK, ValidityOK, IsWriter, Reading
<1>7. ReaderOK(g)
    BY <1>3 DEF ReaderOK
<1>8. ~ IsWriter(handler[h]) /\ UNCHANGED << crtFile, keyFile, broken, faults >>
    BY DEF Begin, IsWriter
<1>9. faults' \in 0..MaxFaults
    BY <1>8 DEF IInv, TypeOK
<1> QED
    BY <1>4, <1>5, <1>6, <1>7, <1>8, <1>9, OneReader

(* What the stores a signer needs are.                                     *)
LEMMA NeedsOf ==
    ASSUME NEW k \in Readers
    PROVE  /\ Needs(k) \subseteq Stores
           /\ CrtStore(k) \in Needs(k) /\ KeyStore(k) = CrtStore(k)
           /\ CrtStore(k) # "root"
           /\ k \in Certifiers => Needs(k) = {"int", "root"} /\ CrtStore(k) = "int"
           /\ k = "generate" => Needs(k) = {"int"} /\ CrtStore(k) = "int"
    BY DEF Readers, Signers, Certifiers, Needs, CrtStore, KeyStore, Stores

(* An undisturbed reader's stores are whole.                               *)
LEMMA QuietReader ==
    ASSUME IInv, NEW h \in Handlers, Reading(handler[h]), handler[h].quiet
    PROVE  /\ keyFile[CrtStore(handler[h].kind)] = crtFile[CrtStore(handler[h].kind)]
           /\ handler[h].kind \in Certifiers => crtFile["root"] \in RootBytes \cup {Absent}
<1> DEFINE k == handler[h].kind
<1>1. k \in Readers
    BY DEF IInv, ShapeOK
<1>2. \A s \in Needs(k) : ~ Busy(s) /\ s \notin broken
    BY DEF IInv, ReaderOK
<1>3. \A s \in Needs(k) : Whole(s)
    BY <1>1, <1>2, NeedsOf DEF IInv, PairsMatch
<1>4. keyFile[CrtStore(k)] = crtFile[CrtStore(k)]
    BY <1>1, <1>3, NeedsOf DEF Whole
<1>5. k \in Certifiers => crtFile["root"] # Truncated
    BY <1>1, <1>3, NeedsOf DEF Whole
<1> QED
    BY <1>4, <1>5 DEF IInv, RootOK

LEMMA StepReadCrt == ASSUME IInv, NEW h \in Handlers, ReadCrt(h) PROVE IInv'
<1> DEFINE o == handler[h]
           crt == crtFile[CrtStore(o.kind)]
           g == [o EXCEPT !.pc = "key", !.crt = crt]
<1>1. /\ o.pc = "crt" /\ o \in Handler
      /\ UNCHANGED << crtFile, keyFile, broken, faults >>
    BY HandlerType DEF ReadCrt
<1>2. ~ IsWriter(o) /\ faults' \in 0..MaxFaults
    BY <1>1 DEF IInv, TypeOK, IsWriter
<1>3. CASE ~ Readable(crt)
    BY <1>1, <1>2, <1>3, Finished DEF ReadCrt
<1>4. CASE Readable(crt)
    <2>1. handler' = [handler EXCEPT ![h] = g]
        BY <1>1, <1>4 DEF ReadCrt
    <2>2. crt \in Versions
        BY <1>4 DEF Readable
    <2>3. g.pc = "key" /\ g.crt = crt /\ g.kind = o.kind /\ g.quiet = o.quiet
        BY <1>1 DEF Handler
    <2>4. g \in Handler
        BY <1>1, <2>2 DEF Handler
    <2> HIDE DEF g
    <2>5. Reading(o) /\ ShapeOK(o) /\ ReaderOK(o)
        BY <1>1 DEF IInv, Reading
    <2>6. ShapeOK(g) /\ ~ IsWriter(g)
        BY <2>2, <2>3, <2>5 DEF ShapeOK, IsWriter, Reading
    <2>7. ValidityOK(g)
        BY <2>3 DEF ValidityOK
    <2>8. ReaderOK(g)
        BY <2>3, <2>5 DEF ReaderOK
    <2> QED
        BY <1>1, <1>2, <2>1, <2>4, <2>6, <2>7, <2>8, OneReader
<1> QED
    BY <1>3, <1>4

LEMMA CorrectedType ==
    ASSUME NEW k \in Certifiers, NEW a \in Days
    PROVE  Corrected(k, a) \in Days /\ Certified(k, a) \in Days
    BY FilesAssumption DEF Days, Certifiers, Corrected, Certified

LEMMA StepReadKey == ASSUME IInv, NEW h \in Handlers, ReadKey(h) PROVE IInv'
<1> DEFINE o == handler[h]
           key == keyFile[KeyStore(o.kind)]
           a == [o EXCEPT !.pc = "reply", !.key = key]
           c == [o EXCEPT !.pc = "chain", !.key = key, !.days = Certified(o.kind, o.asked)]
<1>1. /\ o.pc = "key" /\ o.kind # "generate" /\ o \in Handler
      /\ UNCHANGED << crtFile, keyFile, broken, faults >>
    BY HandlerType DEF ReadKey
<1>2. ~ IsWriter(o) /\ faults' \in 0..MaxFaults
    BY <1>1 DEF IInv, TypeOK, IsWriter
<1>3. Reading(o) /\ ShapeOK(o) /\ ReaderOK(o) /\ o.kind \in Readers
    BY <1>1 DEF IInv, Reading, ShapeOK
<1>4. o.quiet => key = o.crt
    BY <1>1, <1>3, QuietReader, NeedsOf DEF ReaderOK
<1>5. CASE Finish(h)
    BY <1>1, <1>2, <1>5, Finished
<1>6. CASE /\ Readable(key) /\ o.kind \notin Certifiers
           /\ handler' = [handler EXCEPT ![h] = a]
    <2>1. a.pc = "reply" /\ a.key = key /\ a.crt = o.crt /\ a.kind = o.kind /\ a.quiet = o.quiet
        BY <1>1 DEF Handler
    <2>2. a \in Handler
        BY <1>1, <1>6 DEF Handler, Readable
    <2> HIDE DEF a
    <2>3. ShapeOK(a) /\ ~ IsWriter(a)
        BY <1>1, <1>3, <2>1 DEF ShapeOK, IsWriter, Reading, Readers
    <2>4. ValidityOK(a)
        BY <1>6, <2>1 DEF ValidityOK
    <2>5. ReaderOK(a)
        BY <1>1, <1>3, <1>4, <1>6, <2>1 DEF ReaderOK
    <2> QED
        BY <1>1, <1>2, <1>6, <2>2, <2>3, <2>4, <2>5, OneReader
<1>7. CASE /\ Readable(key) /\ key = o.crt /\ o.kind \in Certifiers
           /\ handler' = [handler EXCEPT ![h] = c]
    <2>1. /\ c.pc = "chain" /\ c.key = key /\ c.crt = o.crt
          /\ c.kind = o.kind /\ c.quiet = o.quiet /\ c.asked = o.asked
          /\ c.days = Certified(o.kind, o.asked)
        BY <1>1 DEF Handler
    <2>2. Certified(o.kind, o.asked) \in Days
        BY <1>1, <1>7, CorrectedType DEF Handler
    <2>3. c \in Handler
        BY <1>1, <1>7, <2>2 DEF Handler, Readable
    <2> HIDE DEF c
    <2>4. ShapeOK(c) /\ ~ IsWriter(c)
        BY <1>1, <1>3, <1>7, <2>1 DEF ShapeOK, IsWriter, Reading
    <2>5. ValidityOK(c)
        BY <2>1 DEF ValidityOK
    <2>6. ReaderOK(c)
        BY <1>1, <1>3, <1>7, <2>1 DEF ReaderOK
    <2> QED
        BY <1>1, <1>2, <1>7, <2>3, <2>4, <2>5, <2>6, OneReader
<1> QED
    BY <1>5, <1>6, <1>7 DEF ReadKey

LEMMA StepReadChain == ASSUME IInv, NEW h \in Handlers, ReadChain(h) PROVE IInv'
<1> DEFINE o == handler[h]
           g == [o EXCEPT !.pc = "root", !.chain = crtFile["int"]]
<1>1. /\ o.pc = "chain" /\ o \in Handler
      /\ handler' = [handler EXCEPT ![h] = g]
      /\ UNCHANGED << crtFile, keyFile, broken, faults >>
    BY HandlerType DEF ReadChain
<1>2. ~ IsWriter(o) /\ faults' \in 0..MaxFaults
    BY <1>1 DEF IInv, TypeOK, IsWriter
<1>3. Reading(o) /\ ShapeOK(o) /\ ValidityOK(o) /\ ReaderOK(o) /\ o.kind \in Certifiers
    BY <1>1 DEF IInv, Reading, ShapeOK
<1>4. /\ g.pc = "root" /\ g.chain = crtFile["int"] /\ g.crt = o.crt /\ g.key = o.key
      /\ g.kind = o.kind /\ g.quiet = o.quiet /\ g.days = o.days /\ g.asked = o.asked
    BY <1>1 DEF Handler
<1>5. crtFile["int"] \in Versions \cup {Absent, Truncated}
    BY DEF IInv, IntOK
<1>6. g \in Handler
    BY <1>1, <1>5 DEF Handler
<1> HIDE DEF g
<1>7. ShapeOK(g) /\ ~ IsWriter(g)
    BY <1>1, <1>3, <1>4 DEF ShapeOK, IsWriter, Reading
<1>8. ValidityOK(g)
    BY <1>1, <1>3, <1>4 DEF ValidityOK
<1>9. CrtStore(o.kind) = "int"
    BY <1>3, NeedsOf DEF Readers, Signers
<1>10. ReaderOK(g)
    BY <1>1, <1>3, <1>4, <1>9 DEF ReaderOK, Reading
<1> QED
    BY <1>1, <1>2, <1>6, <1>7, <1>8, <1>10, OneReader

LEMMA StepReadRoot == ASSUME IInv, NEW h \in Handlers, ReadRoot(h) PROVE IInv'
<1> DEFINE o == handler[h]
           g == [o EXCEPT !.pc = "reply", !.root = crtFile["root"],
                          !.told = Corrected(o.kind, o.asked)]
<1>1. /\ o.pc = "root" /\ o \in Handler
      /\ UNCHANGED << crtFile, keyFile, broken, faults >>
    BY HandlerType DEF ReadRoot
<1>2. ~ IsWriter(o) /\ faults' \in 0..MaxFaults
    BY <1>1 DEF IInv, TypeOK, IsWriter
<1>3. Reading(o) /\ ShapeOK(o) /\ ValidityOK(o) /\ ReaderOK(o) /\ o.kind \in Certifiers
    BY <1>1 DEF IInv, Reading, ShapeOK
<1>4. CASE crtFile["root"] = Absent
    BY <1>1, <1>2, <1>4, Finished DEF ReadRoot
<1>5. CASE crtFile["root"] # Absent
    <2>1. handler' = [handler EXCEPT ![h] = g]
        BY <1>1, <1>5 DEF ReadRoot
    <2>2. /\ g.pc = "reply" /\ g.root = crtFile["root"] /\ g.crt = o.crt /\ g.key = o.key
          /\ g.kind = o.kind /\ g.quiet = o.quiet /\ g.days = o.days /\ g.asked = o.asked
          /\ g.chain = o.chain /\ g.told = Corrected(o.kind, o.asked)
        BY <1>1 DEF Handler
    <2>3. crtFile["root"] \in RootBytes \cup {Truncated}
        BY <1>5 DEF IInv, RootOK
    <2>4. Corrected(o.kind, o.asked) \in Days
        BY <1>1, <1>3, CorrectedType DEF Handler
    <2>5. g \in Handler
        BY <1>1, <2>3, <2>4 DEF Handler
    <2> HIDE DEF g
    <2>6. ShapeOK(g) /\ ~ IsWriter(g)
        BY <1>1, <1>3, <2>2 DEF ShapeOK, IsWriter, Reading, Readers, Signers
    <2>7. ValidityOK(g)
        BY <1>1, <1>3, <2>2 DEF ValidityOK
    <2>8. o.quiet => crtFile["root"] \in RootBytes
        BY <1>3, <1>5, QuietReader
    <2>9. ReaderOK(g)
        BY <1>1, <1>3, <2>2, <2>8 DEF ReaderOK, Reading
    <2> QED
        BY <1>1, <1>2, <2>1, <2>5, <2>6, <2>7, <2>9, OneReader
<1> QED
    BY <1>4, <1>5

LEMMA StepOut == ASSUME IInv, NEW h \in Handlers, SignerFails(h) \/ Reply(h) PROVE IInv'
<1>1. ~ IsWriter(handler[h]) /\ Finish(h) /\ UNCHANGED << crtFile, keyFile, broken >>
    BY DEF SignerFails, Reply, IsWriter
<1>2. faults' \in 0..MaxFaults
    BY FaultType DEF SignerFails, Reply, IInv, TypeOK
<1> QED
    BY <1>1, <1>2, Finished
-----------------------------------------------------------------------------
(* Steps of writers.  The files of its store change under the hands of     *)
(* handler h; every other handler that is undisturbed has nothing to do    *)
(* with that store.                                                        *)

Elsewhere(s) ==
    \A t \in Stores \ {s} : crtFile'[t] = crtFile[t] /\ keyFile'[t] = keyFile[t]

LEMMA OthersUndisturbed ==
    ASSUME IInv, NEW h \in Handlers, IsWriter(handler[h]),
           NEW k \in Handlers, k # h, handler[k].quiet
    PROVE  /\ Reading(handler[k]) =>
                  handler[h].store \notin Needs(handler[k].kind)
           /\ IsWriter(handler[k]) => handler[k].store # handler[h].store
<1>1. ASSUME Reading(handler[k]) PROVE handler[h].store \notin Needs(handler[k].kind)
    BY <1>1 DEF IInv, ReaderOK, Busy
<1>2. ASSUME IsWriter(handler[k]) PROVE handler[k].store # handler[h].store
    BY <1>2 DEF IInv, Alone
<1> QED
    BY <1>1, <1>2

(* The others after a step of h that leaves no store busier than it was.   *)
LEMMA OthersOK ==
    ASSUME IInv, NEW h \in Handlers, IsWriter(handler[h]),
           NEW k \in Handlers, k # h, handler'[k] = handler[k],
           Elsewhere(handler[h].store),
           \A t \in Stores : Busy(t)' => Busy(t),
           \A t \in Stores \ {handler[h].store} : t \in broken' <=> t \in broken,
           ~ handler[h].quiet /\ handler[h].store \in broken => handler[h].store \in broken'
    PROVE  ReaderOK(handler[k])' /\ WriterOK(handler[k])'
<1> DEFINE s == handler[h].store
           g == handler[k]
<1>1. ShapeOK(g) /\ ReaderOK(g) /\ WriterOK(g) /\ s \in Stores
    BY DEF IInv, ShapeOK
<1>2. ASSUME Reading(g), g.quiet PROVE ReaderOK(g)'
    <2>1. g.kind \in Readers /\ s \notin Needs(g.kind)
        BY <1>1, <1>2, OthersUndisturbed DEF ShapeOK
    <2>2. \A t \in Needs(g.kind) : t \in Stores \ {s}
        BY <2>1, NeedsOf
    <2>3. \A t \in Needs(g.kind) : ~ Busy(t)' /\ t \notin broken'
        BY <1>1, <1>2, <2>2 DEF ReaderOK
    <2>4. crtFile'[CrtStore(g.kind)] = crtFile[CrtStore(g.kind)]
        BY <2>1, <2>2, NeedsOf DEF Elsewhere
    <2>5. g.kind \in Certifiers => crtFile'["root"] = crtFile["root"]
        BY <2>1, <2>2, NeedsOf DEF Elsewhere
    <2> QED
        BY <1>1, <1>2, <2>3, <2>4, <2>5 DEF ReaderOK, Reading
<1>3. ReaderOK(g)'
    <2>1. CASE Reading(g) /\ g.quiet
        BY <1>2, <2>1
    <2>2. CASE ~ (Reading(g) /\ g.quiet)
        BY <2>2 DEF ReaderOK, Reading
    <2> QED
        BY <2>1, <2>2
<1>4. ASSUME IsWriter(g), g.quiet PROVE WriterOK(g)'
    <2>1. g.store \in Stores \ {s}
        BY <1>1, <1>4, OthersUndisturbed DEF ShapeOK
    <2>2. crtFile'[g.store] = crtFile[g.store] /\ keyFile'[g.store] = keyFile[g.store]
        BY <2>1 DEF Elsewhere
    <2>3. g.store \in broken' <=> g.store \in broken
        BY <2>1
    <2> QED
        BY <1>1, <1>4, <2>2, <2>3 DEF WriterOK, IsWriter, Whole
<1>5. ASSUME IsWriter(g), ~ g.quiet PROVE WriterOK(g)'
    <2>1. g.store \in Stores /\ g.store \in broken
        BY <1>1, <1>5 DEF ShapeOK, WriterOK
    <2>2. g.store \in broken'
        <3>1. CASE g.store # s
            BY <2>1, <3>1
        <3>2. CASE g.store = s
            <4>1. ~ handler[h].quiet
                BY <1>5, <3>2 DEF IInv, Alone
            <4> QED
                BY <2>1, <3>2, <4>1
        <3> QED
            BY <3>1, <3>2
    <2> QED
        BY <1>5, <2>2 DEF WriterOK, IsWriter
<1>6. WriterOK(g)'
    <2>1. CASE ~ IsWriter(g)
        BY <2>1 DEF WriterOK, IsWriter
    <2> QED
        BY <1>4, <1>5, <2>1
<1> QED
    BY <1>3, <1>6

(* h writes on.                                                            *)
LEMMA Continues ==
    ASSUME IInv, NEW h \in Handlers, NEW g \in Handler,
           IsWriter(handler[h]), IsWriter(g),
           g.store = handler[h].store, g.quiet = handler[h].quiet,
           handler' = [handler EXCEPT ![h] = g],
           UNCHANGED << broken, faults >>,
           Elsewhere(handler[h].store),
           crtFile' \in [Stores -> Versions \cup RootBytes \cup {Absent, Truncated}],
           keyFile' \in [Stores -> Versions \cup {Absent, Truncated}],
           RootOK', IntOK',
           ShapeOK(g), WriterOK(g)'
    PROVE  IInv'
<1>1. \A k \in Handlers : handler'[k] = IF k = h THEN g ELSE handler[k]
    BY DEF IInv, TypeOK
<1>2. TypeOK'
    BY DEF IInv, TypeOK
<1>3. \A t \in Stores : Busy(t)' <=> Busy(t)
    BY <1>1 DEF Busy, IsWriter
<1>4. handler[h].store \in Stores
    BY DEF IInv, ShapeOK
<1>5. \A k \in Handlers : ShapeOK(handler[k])'
    BY <1>1 DEF IInv, ShapeOK, IsWriter, Reading
<1>6. ~ Reading(g) /\ g.pc \notin {"chain", "root", "reply"}
    BY DEF IsWriter, Reading
<1>7. \A k \in Handlers : ValidityOK(handler[k])'
    BY <1>1, <1>6 DEF IInv, ValidityOK
<1>8. \A k \in Handlers : k # h => ReaderOK(handler[k])' /\ WriterOK(handler[k])'
    BY <1>1, <1>3, OthersOK
<1>9. ReaderOK(handler[h])' /\ WriterOK(handler[h])'
    BY <1>1, <1>6 DEF ReaderOK, Reading, WriterOK, IsWriter
<1>10. Alone'
    BY <1>1 DEF IInv, Alone, IsWriter
<1>11. PairsMatch'
    <2> SUFFICES ASSUME NEW t \in Stores, t \notin broken', ~ Busy(t)' PROVE Whole(t)'
        BY DEF PairsMatch
    <2>1. ~ Busy(t) /\ t \notin broken
        BY <1>3
    <2>2. t # handler[h].store
        BY <2>1 DEF Busy
    <2> QED
        BY <2>1, <2>2 DEF IInv, PairsMatch, Whole, Elsewhere
<1> QED
    BY <1>2, <1>5, <1>7, <1>8, <1>9, <1>10, <1>11 DEF IInv

(* h is done, or gives up.                                                 *)
LEMMA Ends ==
    ASSUME IInv, NEW h \in Handlers, IsWriter(handler[h]), Finish(h),
           NEW s \in Stores, s = handler[h].store,
           broken' \subseteq Stores, faults' \in 0..MaxFaults,
           \A t \in Stores \ {handler[h].store} : t \in broken' <=> t \in broken,
           ~ handler[h].quiet => handler[h].store \in broken',
           s \notin broken' => Whole(s)',
           Elsewhere(handler[h].store),
           crtFile' \in [Stores -> Versions \cup RootBytes \cup {Absent, Truncated}],
           keyFile' \in [Stores -> Versions \cup {Absent, Truncated}],
           RootOK', IntOK'
    PROVE  IInv'
<1>1. \A k \in Handlers : handler'[k] = IF k = h THEN Idle ELSE handler[k]
    BY DEF IInv, TypeOK, Finish
<1>2. handler' \in [Handlers -> Handler]
    BY IdleOK DEF IInv, TypeOK, Finish
<1>3. TypeOK'
    BY <1>2 DEF TypeOK
<1>4. \A t \in Stores : Busy(t)' => Busy(t)
    BY <1>1, IdleOK DEF Busy, IsWriter
<1>5. \A k \in Handlers : ShapeOK(handler[k])' /\ ValidityOK(handler[k])'
    BY <1>1, IdleOK DEF IInv, ShapeOK, ValidityOK, IsWriter, Reading
<1>6. \A k \in Handlers : k # h => ReaderOK(handler[k])' /\ WriterOK(handler[k])'
    BY <1>1, <1>4, OthersOK
<1>7. ReaderOK(handler[h])' /\ WriterOK(handler[h])'
    BY <1>1, IdleOK DEF ReaderOK, Reading, WriterOK, IsWriter
<1>8. Alone'
    BY <1>1, IdleOK DEF IInv, Alone, IsWriter
<1>9. PairsMatch'
    <2> SUFFICES ASSUME NEW t \in Stores, t \notin broken', ~ Busy(t)' PROVE Whole(t)'
        BY DEF PairsMatch
    <2>1. CASE t = s
        BY <2>1
    <2>2. CASE t # s
        <3>1. ~ Busy(t)
            BY <1>1, <2>2 DEF Busy, IsWriter
        <3>2. Whole(t)
            BY <2>2, <3>1 DEF IInv, PairsMatch
        <3> QED
            BY <2>2, <3>2 DEF Whole, Elsewhere
    <2> QED
        BY <2>1, <2>2
<1> QED
    BY <1>3, <1>5, <1>6, <1>7, <1>8, <1>9 DEF IInv

LEMMA StoreFiles ==
    ASSUME IInv, NEW s \in Stores, NEW c \in Versions \cup RootBytes \cup {Truncated},
           s = "root" => c \in RootBytes \cup {Truncated},
           s # "root" => c \in Versions \cup {Truncated},
           crtFile' = [crtFile EXCEPT ![s] = c]
    PROVE  /\ crtFile' \in [Stores -> Versions \cup RootBytes \cup {Absent, Truncated}]
           /\ crtFile'[s] = c
           /\ \A t \in Stores \ {s} : crtFile'[t] = crtFile[t]
           /\ RootOK' /\ IntOK'
<1>1. crtFile \in [Stores -> Versions \cup RootBytes \cup {Absent, Truncated}]
    BY DEF IInv, TypeOK
<1>2. /\ crtFile' \in [Stores -> Versions \cup RootBytes \cup {Absent, Truncated}]
      /\ crtFile'[s] = c
      /\ \A t \in Stores \ {s} : crtFile'[t] = crtFile[t]
    BY <1>1
<1>3. RootOK' /\ IntOK'
    BY <1>2 DEF IInv, RootOK, IntOK, Stores
<1> QED
    BY <1>2, <1>3

LEMMA KeyFiles ==
    ASSUME IInv, NEW s \in Stores, NEW c \in Versions \cup {Truncated},
           keyFile' = [keyFile EXCEPT ![s] = c], UNCHANGED crtFile
    PROVE  /\ keyFile' \in [Stores -> Versions \cup {Absent, Truncated}]
           /\ crtFile' \in [Stores -> Versions \cup RootBytes \cup {Absent, Truncated}]
           /\ keyFile'[s] = c
           /\ \A t \in Stores \ {s} : keyFile'[t] = keyFile[t]
           /\ RootOK' /\ IntOK'
    BY DEF IInv, TypeOK, RootOK, IntOK

LEMMA StepOpenCrt == ASSUME IInv, NEW h \in Handlers, OpenCrt(h) PROVE IInv'
<1> DEFINE o == handler[h]
           s == o.store
<1>1. /\ o.pc = "openCrt" /\ o \in Handler
      /\ crtFile' = [crtFile EXCEPT ![s] = Truncated]
      /\ handler' = [handler EXCEPT ![h] = [o EXCEPT !.pc = "writeCrt"]]
      /\ UNCHANGED << keyFile, broken, faults >>
    BY HandlerType DEF OpenCrt
<1>2. IsWriter(o) /\ ShapeOK(o) /\ WriterOK(o) /\ s \in Stores
    BY <1>1 DEF IInv, IsWriter, ShapeOK
<1>3. PICK g \in Handler :
          /\ handler' = [handler EXCEPT ![h] = g]
          /\ g.pc = "writeCrt" /\ g.store = s /\ g.quiet = o.quiet
          /\ g.crt = o.crt /\ g.key = o.key
    <2>1. [o EXCEPT !.pc = "writeCrt"] \in Handler
        BY <1>1 DEF Handler
    <2> QED
        BY <1>1, <2>1 DEF Handler
<1>4. /\ crtFile' \in [Stores -> Versions \cup RootBytes \cup {Absent, Truncated}]
      /\ Elsewhere(s) /\ RootOK' /\ IntOK'
    BY <1>1, <1>2, StoreFiles DEF Elsewhere
<1>5. IsWriter(g) /\ ShapeOK(g)
    BY <1>2, <1>3 DEF IsWriter, ShapeOK, Reading
<1>6. WriterOK(g)'
    BY <1>1, <1>2, <1>3 DEF WriterOK, IsWriter
<1>7. keyFile' \in [Stores -> Versions \cup {Absent, Truncated}]
    BY <1>1 DEF IInv, TypeOK
<1> QED
    BY <1>1, <1>2, <1>3, <1>4, <1>5, <1>6, <1>7, Continues

LEMMA StepWriteCrt == ASSUME IInv, NEW h \in Handlers, WriteCrt(h) PROVE IInv'
<1> DEFINE o == handler[h]
<1>1. PICK s \in Stores : s = o.store
    BY DEF IInv, ShapeOK, IsWriter, WriteCrt
<1>2. /\ o.pc = "writeCrt" /\ o \in Handler
      /\ crtFile' = [crtFile EXCEPT ![s] = o.crt]
      /\ UNCHANGED << keyFile, faults >>
    BY <1>1, HandlerType DEF WriteCrt
<1>3. IsWriter(o) /\ ShapeOK(o) /\ WriterOK(o)
    BY <1>2 DEF IInv, IsWriter
<1>4. /\ o.crt \in Versions \cup RootBytes
      /\ s = "root" => o.crt \in RootBytes
      /\ s # "root" => o.crt \in Versions
    BY <1>1, <1>3 DEF ShapeOK
<1>5. /\ crtFile' \in [Stores -> Versions \cup RootBytes \cup {Absent, Truncated}]
      /\ crtFile'[s] = o.crt /\ RootOK' /\ IntOK'
      /\ \A t \in Stores \ {s} : crtFile'[t] = crtFile[t]
    BY <1>2, <1>4, StoreFiles
<1>6. Elsewhere(s) /\ keyFile' \in [Stores -> Versions \cup {Absent, Truncated}]
    BY <1>2, <1>5 DEF Elsewhere, IInv, TypeOK
<1>7. CASE s = "root" /\ Finish(h) /\ Stored(o)
    <2>1. Whole(s)'
        BY <1>4, <1>5, <1>7, FilesAssumption DEF Whole
    <2>2. /\ broken' \subseteq Stores
          /\ \A t \in Stores \ {s} : t \in broken' <=> t \in broken
          /\ ~ o.quiet => s \in broken'
        BY <1>1, <1>3, <1>7 DEF Stored, IInv, TypeOK, WriterOK
    <2>3. faults' \in 0..MaxFaults
        BY <1>2 DEF IInv, TypeOK
    <2> QED
        BY <1>1, <1>3, <1>5, <1>6, <1>7, <2>1, <2>2, <2>3, Ends
<1>8. CASE /\ s # "root" /\ UNCHANGED broken
           /\ handler' = [handler EXCEPT ![h] = [o EXCEPT !.pc = "openKey"]]
    <2>1. PICK g \in Handler :
              /\ handler' = [handler EXCEPT ![h] = g]
              /\ g.pc = "openKey" /\ g.store = s /\ g.quiet = o.quiet
              /\ g.crt = o.crt /\ g.key = o.key
        <3>1. [o EXCEPT !.pc = "openKey"] \in Handler
            BY <1>2 DEF Handler
        <3> QED
            BY <1>1, <1>2, <1>8, <3>1 DEF Handler
    <2>2. IsWriter(g) /\ ShapeOK(g)
        BY <1>1, <1>3, <1>8, <2>1 DEF IsWriter, ShapeOK, Reading
    <2>3. WriterOK(g)'
        BY <1>1, <1>3, <1>5, <1>8, <2>1 DEF WriterOK, IsWriter
    <2> QED
        BY <1>1, <1>2, <1>3, <1>5, <1>6, <1>8, <2>1, <2>2, <2>3, Continues
<1> QED
    BY <1>1, <1>7, <1>8 DEF WriteCrt

LEMMA StepOpenKey == ASSUME IInv, NEW h \in Handlers, OpenKey(h) PROVE IInv'
<1> DEFINE o == handler[h]
           s == o.store
<1>1. /\ o.pc = "openKey" /\ o \in Handler
      /\ keyFile' = [keyFile EXCEPT ![s] = Truncated]
      /\ handler' = [handler EXCEPT ![h] = [o EXCEPT !.pc = "writeKey"]]
      /\ UNCHANGED << crtFile, broken, faults >>
    BY HandlerType DEF OpenKey
<1>2. IsWriter(o) /\ ShapeOK(o) /\ WriterOK(o) /\ s \in Stores
    BY <1>1 DEF IInv, IsWriter, ShapeOK
<1>3. PICK g \in Handler :
          /\ handler' = [handler EXCEPT ![h] = g]
          /\ g.pc = "writeKey" /\ g.store = s /\ g.quiet = o.quiet
          /\ g.crt = o.crt /\ g.key = o.key
    <2>1. [o EXCEPT !.pc = "writeKey"] \in Handler
        BY <1>1 DEF Handler
    <2> QED
        BY <1>1, <2>1 DEF Handler
<1>4. /\ keyFile' \in [Stores -> Versions \cup {Absent, Truncated}]
      /\ crtFile' \in [Stores -> Versions \cup RootBytes \cup {Absent, Truncated}]
      /\ Elsewhere(s) /\ RootOK' /\ IntOK'
    BY <1>1, <1>2, KeyFiles DEF Elsewhere
<1>5. IsWriter(g) /\ ShapeOK(g)
    BY <1>1, <1>2, <1>3 DEF IsWriter, ShapeOK, Reading
<1>6. WriterOK(g)'
    BY <1>1, <1>2, <1>3 DEF WriterOK, IsWriter
<1> QED
    BY <1>1, <1>2, <1>3, <1>4, <1>5, <1>6, Continues

LEMMA StepWriteKey == ASSUME IInv, NEW h \in Handlers, WriteKey(h) PROVE IInv'
<1> DEFINE o == handler[h]
<1>1. PICK s \in Stores : s = o.store
    BY DEF IInv, ShapeOK, IsWriter, WriteKey
<1>2. /\ o.pc = "writeKey" /\ Finish(h) /\ Stored(o)
      /\ keyFile' = [keyFile EXCEPT ![s] = o.key]
      /\ UNCHANGED << crtFile, faults >>
    BY <1>1 DEF WriteKey
<1>3. IsWriter(o) /\ ShapeOK(o) /\ WriterOK(o)
    BY <1>2 DEF IInv, IsWriter
<1>4. s # "root" /\ o.crt \in Versions /\ o.key = o.crt
    BY <1>1, <1>2, <1>3 DEF ShapeOK
<1>5. /\ keyFile' \in [Stores -> Versions \cup {Absent, Truncated}]
      /\ crtFile' \in [Stores -> Versions \cup RootBytes \cup {Absent, Truncated}]
      /\ keyFile'[s] = o.key /\ RootOK' /\ IntOK'
      /\ \A t \in Stores \ {s} : keyFile'[t] = keyFile[t]
    BY <1>2, <1>4, KeyFiles
<1>6. Elsewhere(s)
    BY <1>2, <1>5 DEF Elsewhere
<1>7. o.quiet => Whole(s)'
    BY <1>1, <1>2, <1>3, <1>4, <1>5, FilesAssumption DEF WriterOK, Whole
<1>8. /\ broken' \subseteq Stores
      /\ \A t \in Stores \ {s} : t \in broken' <=> t \in broken
      /\ ~ o.quiet => s \in broken'
    BY <1>1, <1>2, <1>3 DEF Stored, IInv, TypeOK, WriterOK
<1>9. faults' \in 0..MaxFaults
    BY <1>2 DEF IInv, TypeOK
<1> QED
    BY <1>1, <1>2, <1>3, <1>5, <1>6, <1>7, <1>8, <1>9, Ends

LEMMA StepWriteFails == ASSUME IInv, NEW h \in Handlers, WriteFails(h) PROVE IInv'
<1> DEFINE o == handler[h]
<1>1. PICK s \in Stores : s = o.store
    BY DEF IInv, ShapeOK, WriteFails
<1>2. /\ IsWriter(o) /\ Finish(h) /\ UNCHANGED << crtFile, keyFile >>
      /\ broken' = IF o.pc = "openCrt" THEN broken ELSE broken \cup {s}
    BY <1>1 DEF WriteFails
<1>3. ShapeOK(o) /\ WriterOK(o)
    BY DEF IInv
<1>4. s \notin broken' => Whole(s)'
    BY <1>1, <1>2, <1>3 DEF WriterOK, Whole
<1>5. /\ broken' \subseteq Stores
      /\ \A t \in Stores \ {s} : t \in broken' <=> t \in broken
      /\ ~ o.quiet => s \in broken'
    BY <1>1, <1>2, <1>3 DEF IInv, TypeOK, WriterOK
<1>6. Elsewhere(s) /\ RootOK' /\ IntOK'
    BY <1>2 DEF Elsewhere, IInv, RootOK, IntOK
<1>7. /\ crtFile' \in [Stores -> Versions \cup RootBytes \cup {Absent, Truncated}]
      /\ keyFile' \in [Stores -> Versions \cup {Absent, Truncated}]
    BY <1>2 DEF IInv, TypeOK
<1>8. faults' \in 0..MaxFaults
    BY FaultType DEF IInv, WriteFails
<1> QED
    BY <1>1, <1>2, <1>4, <1>5, <1>6, <1>7, <1>8, Ends
-----------------------------------------------------------------------------
(* The beginning of a store, and the end of the process.                   *)

(* How another handler is left.                                            *)
Disturbed(g, s) == [g EXCEPT !.quiet = @ /\ s \notin Uses(g)]

LEMMA BeginsStore ==
    ASSUME IInv, NEW h \in Handlers, ~ IsWriter(handler[h]),
           NEW s \in Stores, NEW crt \in Versions \cup RootBytes,
           NEW key \in Versions \cup {None},
           s = "root" => crt \in RootBytes,
           s # "root" => crt \in Versions /\ key = crt,
           BeginStore(h, s, crt, key),
           UNCHANGED << crtFile, keyFile, faults >>
    PROVE  IInv'
<1> DEFINE g == [Idle EXCEPT !.pc = "openCrt", !.kind = "import", !.store = s,
                             !.crt = crt, !.key = key, !.quiet = ~ Busy(s)]
<1>1. /\ g.pc = "openCrt" /\ g.store = s /\ g.crt = crt /\ g.key = key
      /\ g.quiet = ~ Busy(s) /\ g.kind = "import"
    BY DEF Idle
<1>2. g \in Handler
    <2>1. (~ Busy(s)) \in BOOLEAN
        BY DEF Busy
    <2> QED
        BY <2>1, IdleOK DEF Handler
<1>3. handler' = [k \in Handlers |-> IF k = h THEN g ELSE Disturbed(handler[k], s)]
    BY DEF BeginStore, Disturbed
<1> HIDE DEF g
<1>4. ASSUME NEW k \in Handlers
      PROVE  /\ Disturbed(handler[k], s) \in Handler
             /\ Disturbed(handler[k], s).quiet = (handler[k].quiet /\ s \notin Uses(handler[k]))
             /\ Disturbed(handler[k], s).pc = handler[k].pc
             /\ Disturbed(handler[k], s).kind = handler[k].kind
             /\ Disturbed(handler[k], s).store = handler[k].store
             /\ Disturbed(handler[k], s).crt = handler[k].crt
             /\ Disturbed(handler[k], s).key = handler[k].key
             /\ Disturbed(handler[k], s).chain = handler[k].chain
             /\ Disturbed(handler[k], s).root = handler[k].root
             /\ Disturbed(handler[k], s).asked = handler[k].asked
             /\ Disturbed(handler[k], s).days = handler[k].days
             /\ Disturbed(handler[k], s).told = handler[k].told
    BY HandlerType DEF Disturbed, Handler
<1>5. handler'[h] = g /\ \A k \in Handlers : k # h => handler'[k] = Disturbed(handler[k], s)
    BY <1>3
<1>6. TypeOK'
    <2>1. handler' \in [Handlers -> Handler]
        BY <1>2, <1>3, <1>4
    <2>2. broken' \subseteq Stores
        BY DEF BeginStore, IInv, TypeOK
    <2> QED
        BY <2>1, <2>2 DEF IInv, TypeOK
<1>7. RootOK' /\ IntOK'
    BY DEF IInv, RootOK, IntOK
<1>8. IsWriter(g) /\ ~ Reading(g)
    BY <1>1 DEF IsWriter, Reading
<1>9. ASSUME NEW k \in Handlers PROVE ShapeOK(handler[k])' /\ ValidityOK(handler[k])'
    <2>1. CASE k = h
        BY <1>1, <1>5, <1>8, <2>1 DEF ShapeOK, ValidityOK, IsWriter, Reading, Certifiers
    <2>2. CASE k # h
        BY <1>4, <1>5, <2>2 DEF IInv, ShapeOK, ValidityOK, IsWriter, Reading
    <2> QED
        BY <2>1, <2>2
<1>10. Busy(s)'
    BY <1>1, <1>5, <1>8 DEF Busy, IsWriter
<1>11. \A t \in Stores \ {s} : Busy(t)' <=> Busy(t)
    BY <1>1, <1>4, <1>5 DEF Busy, IsWriter
<1>12. \A t \in Stores \ {s} : t \in broken' <=> t \in broken
    BY DEF BeginStore
<1>13. Busy(s) => s \in broken'
    BY DEF BeginStore
<1>14. broken \subseteq broken'
    BY DEF BeginStore
<1>15. ASSUME NEW k \in Handlers PROVE ReaderOK(handler[k])'
    <2>1. CASE k = h
        BY <1>5, <1>8, <2>1 DEF ReaderOK, Reading
    <2>2. CASE k # h
        <3> DEFINE d == handler'[k]
        <3>1. SUFFICES ASSUME Reading(handler[k]), handler[k].quiet, s \notin Uses(handler[k])
                       PROVE  ReaderOK(handler[k])'
            BY <1>4, <1>5, <2>2 DEF ReaderOK, Reading
        <3>2. s \notin Needs(handler[k].kind) /\ handler[k].kind \in Readers
            BY <3>1 DEF Uses, Reading, IsWriter, IInv, ShapeOK
        <3>3. \A t \in Needs(handler[k].kind) : t \in Stores \ {s}
            BY <3>2, NeedsOf
        <3>4. ReaderOK(handler[k])
            BY DEF IInv
        <3>5. \A t \in Needs(handler[k].kind) : ~ Busy(t)' /\ t \notin broken'
            BY <1>11, <1>12, <3>1, <3>3, <3>4 DEF ReaderOK
        <3> QED
            BY <1>4, <1>5, <2>2, <3>1, <3>4, <3>5 DEF ReaderOK, Reading
    <2> QED
        BY <2>1, <2>2
<1>16. ASSUME NEW k \in Handlers PROVE WriterOK(handler[k])'
    <2>1. CASE k = h
        <3>1. ~ g.quiet => s \in broken'
            BY <1>1, <1>13
        <3>2. g.quiet /\ s \notin broken' => Whole(s)
            BY <1>1, <1>14 DEF IInv, PairsMatch
        <3> QED
            BY <1>1, <1>5, <2>1, <3>1, <3>2 DEF WriterOK, Whole
    <2>2. CASE k # h
        <3>1. SUFFICES ASSUME IsWriter(handler[k]) PROVE WriterOK(handler[k])'
            BY <1>4, <1>5, <2>2 DEF WriterOK, IsWriter
        <3>2. WriterOK(handler[k]) /\ handler[k].store \in Stores
            BY <3>1 DEF IInv, ShapeOK
        <3>3. CASE handler[k].store = s
            <4>1. ~ handler'[k].quiet /\ Busy(s)
                BY <1>4, <1>5, <2>2, <3>1, <3>3 DEF Uses, Busy
            <4> QED
                BY <1>4, <1>5, <1>13, <2>2, <3>3, <4>1 DEF WriterOK
        <3>4. CASE handler[k].store # s
            <4>1. handler'[k].quiet = handler[k].quiet
                BY <1>4, <1>5, <2>2, <3>1, <3>4, HandlerType DEF Uses, Handler
            <4>2. handler[k].store \in broken' <=> handler[k].store \in broken
                BY <1>12, <3>2, <3>4
            <4> QED
                BY <1>4, <1>5, <2>2, <3>1, <3>2, <4>1, <4>2 DEF WriterOK, IsWriter, Whole
        <3> QED
            BY <3>3, <3>4
    <2> QED
        BY <2>1, <2>2
<1>17. Alone'
    <2> SUFFICES ASSUME NEW k \in Handlers, NEW l \in Handlers, k # l,
                        IsWriter(handler'[k]), IsWriter(handler'[l]),
                        handler'[k].store = handler'[l].store
                 PROVE  ~ handler'[k].quiet
        BY DEF Alone, IsWriter
    <2>1. CASE k = h
        <3>1. Busy(s)
            BY <1>1, <1>4, <1>5, <2>1 DEF Busy, IsWriter
        <3> QED
            BY <1>1, <1>5, <2>1, <3>1
    <2>2. CASE l = h
        <3>1. handler'[k].quiet = (handler[k].quiet /\ s \notin Uses(handler[k]))
            BY <1>4, <1>5, <2>2
        <3>2. IsWriter(handler[k]) /\ handler[k].store = s
            BY <1>1, <1>4, <1>5, <2>2 DEF IsWriter
        <3> QED
            BY <3>1, <3>2 DEF Uses
    <2>3. CASE k # h /\ l # h
        <3>1. handler'[k].quiet = (handler[k].quiet /\ s \notin Uses(handler[k]))
            BY <1>4, <1>5, <2>3
        <3>2. /\ IsWriter(handler[k]) /\ IsWriter(handler[l])
              /\ handler[k].store = handler[l].store
            BY <1>4, <1>5, <2>3 DEF IsWriter
        <3>3. ~ handler[k].quiet
            BY <3>2 DEF IInv, Alone
        <3> QED
            BY <3>1, <3>3
    <2> QED
        BY <2>1, <2>2, <2>3
<1>18. PairsMatch'
    <2> SUFFICES ASSUME NEW t \in Stores, t \notin broken', ~ Busy(t)' PROVE Whole(t)'
        BY DEF PairsMatch
    <2>1. t # s
        BY <1>10
    <2>2. Whole(t)
        BY <1>11, <1>12, <2>1 DEF IInv, PairsMatch
    <2> QED
        BY <2>2 DEF Whole
<1> QED
    BY <1>6, <1>7, <1>9, <1>15, <1>16, <1>17, <1>18 DEF IInv

LEMMA StepImport == ASSUME IInv, NEW h \in Handlers, Import(h) PROVE IInv'
<1>1. ~ IsWriter(handler[h]) /\ UNCHANGED << crtFile, keyFile, faults >>
    BY DEF Import, IsWriter
<1>2. ASSUME NEW crt \in Versions, NEW key \in Versions, KeyMatches(crt, key),
             BeginStore(h, "int", crt, key)
      PROVE  IInv'
    BY <1>1, <1>2, BeginsStore DEF KeyMatches, Stores
<1>3. ASSUME NEW bytes \in RootBytes, BeginStore(h, "root", bytes, None) PROVE IInv'
    BY <1>1, <1>3, BeginsStore DEF Stores
<1> QED
    BY <1>2, <1>3 DEF Import

LEMMA StepGenerateTsa == ASSUME IInv, NEW h \in Handlers, GenerateTsa(h) PROVE IInv'
<1>1. ~ IsWriter(handler[h]) /\ UNCHANGED << crtFile, keyFile, faults >>
    BY DEF GenerateTsa, IsWriter
<1>2. CASE Finish(h) /\ UNCHANGED broken
    BY <1>1, <1>2, Finished DEF IInv, TypeOK
<1>3. ASSUME NEW v \in Versions, BeginStore(h, "tsa", v, v) PROVE IInv'
    BY <1>1, <1>3, BeginsStore DEF Stores
<1> QED
    BY <1>2, <1>3 DEF GenerateTsa

LEMMA StepRestart == ASSUME IInv, Restart PROVE IInv'
<1>1. /\ broken' = broken \cup {s \in Stores : Busy(s)}
      /\ handler' = [h \in Handlers |-> Idle]
      /\ UNCHANGED << crtFile, keyFile >>
    BY DEF Restart
<1>2. faults' \in 0..MaxFaults
    BY FaultType DEF Restart, IInv
<1>3. TypeOK'
    BY <1>1, <1>2, IdleOK DEF IInv, TypeOK
<1>4. RootOK' /\ IntOK'
    BY <1>1 DEF IInv, RootOK, IntOK
<1>5. \A h \in Handlers : handler'[h] = Idle
    BY <1>1
<1>6. \A h \in Handlers : ShapeOK(handler[h])' /\ ValidityOK(handler[h])'
    BY <1>5, IdleOK DEF ShapeOK, ValidityOK, IsWriter, Reading
<1>7. \A h \in Handlers : ReaderOK(handler[h])' /\ WriterOK(handler[h])'
    BY <1>5, IdleOK DEF ReaderOK, WriterOK, IsWriter, Reading
<1>8. Alone'
    BY <1>5, IdleOK DEF Alone, IsWriter
<1>9. PairsMatch'
    BY <1>1 DEF IInv, PairsMatch, Whole
<1> QED
    BY <1>3, <1>4, <1>6, <1>7, <1>8, <1>9 DEF IInv

LEMMA Stutter == ASSUME IInv, UNCHANGED vars PROVE IInv'
<1>1. UNCHANGED << crtFile, keyFile, handler, broken, faults >>
    BY DEF vars
<1>2. TypeOK' /\ RootOK' /\ IntOK'
    BY <1>1 DEF IInv, TypeOK, RootOK, IntOK
<1>3. \A h \in Handlers : ShapeOK(handler[h])' /\ ValidityOK(handler[h])'
    BY <1>1 DEF IInv, ShapeOK, ValidityOK, IsWriter, Reading
<1>4. \A h \in Handlers : ReaderOK(handler[h])' /\ WriterOK(handler[h])'
    BY <1>1 DEF IInv, ReaderOK, WriterOK, IsWriter, Reading, Busy, Whole
<1>5. Alone' /\ PairsMatch'
    BY <1>1 DEF IInv, Alone, PairsMatch, Busy, Whole, IsWriter
<1> QED
    BY <1>2, <1>3, <1>4, <1>5 DEF IInv
-----------------------------------------------------------------------------
LEMMA Invariance == Spec => []IInv
<1>1. ASSUME IInv, [Next]_vars PROVE IInv'
    BY <1>1, StepImport, StepOpenCrt, StepWriteCrt, StepOpenKey, StepWriteKey, StepWriteFails,
       StepBegin, StepReadCrt, StepReadKey, StepGenerateTsa, StepReadChain, StepReadRoot,
       StepOut, StepRestart, Stutter DEF Next
<1> QED
    BY <1>1, InitOK, PTL DEF Spec

(* The files and the handlers have their types.                            *)
THEOREM TypeCorrect == Spec => []TypeOK
<1>1. IInv => TypeOK
    BY DEF IInv
<1> QED
    BY <1>1, Invariance, PTL

(* A store at rest that no overlap and no failure has broken is whole      *)
(* (intermediate.go:23-32, storage_tsa.go:27-37).                          *)
THEOREM PairsAlwaysMatch == Spec => []PairsMatch
<1>1. IInv => PairsMatch
    BY DEF IInv
<1> QED
    BY <1>1, Invariance, PTL

(* A signature whose stores were whole and left alone verifies; the chain  *)
(* leads over the intermediate that made it to what is stored as the root, *)
(* which has signed that intermediate if the stores agree                  *)
(* (chain.go:10-37, timestamp_handler.go:36-66, import_handler.go:57).     *)
THEOREM AnswersAlwaysVerify == Spec => []AnswersVerify
<1>1. ASSUME IInv PROVE AnswersVerify
    <2> SUFFICES ASSUME NEW h \in Handlers, handler[h].pc = "reply", handler[h].quiet
                 PROVE  /\ handler[h].crt = handler[h].key
                        /\ handler[h].kind \in Certifiers
                           => /\ handler[h].chain = handler[h].crt
                              /\ handler[h].root \in RootBytes
                              /\ RootFits => handler[h].root = Issuer[handler[h].crt]
        BY DEF AnswersVerify
    <2>1. ReaderOK(handler[h]) /\ Reading(handler[h])
        BY <1>1 DEF IInv, Reading
    <2>2. handler[h].kind \in Certifiers => CrtStore(handler[h].kind) = "int"
        BY DEF Certifiers, CrtStore
    <2> QED
        BY <2>1, <2>2 DEF ReaderOK, RootFits
<1> QED
    BY <1>1, Invariance, PTL

(* The validity that is told is the certificate's, but for forms that ask  *)
(* for no days (sign_handler.go:74-77, 135).                               *)
THEOREM ToldAlwaysCertified == Spec => []ToldIsCertified
<1>1. ASSUME IInv PROVE ToldIsCertified
    <2> SUFFICES ASSUME NEW h \in Handlers, handler[h].pc = "reply",
                        handler[h].kind \in Certifiers, handler[h].told # handler[h].days
                 PROVE  handler[h].kind = "csr" /\ handler[h].asked <= 0
        BY DEF ToldIsCertified
    <2> DEFINE k == handler[h].kind
               a == handler[h].asked
    <2>1. handler[h].told = Corrected(k, a) /\ handler[h].days = Certified(k, a)
        BY <1>1 DEF IInv, ValidityOK
    <2>2. a \in Int
        <3>1. a \in Days
            BY <1>1, HandlerType DEF Handler
        <3>2. Days \subseteq Int
            BY FilesAssumption DEF Days
        <3> QED
            BY <3>1, <3>2
    <2> QED
        BY <2>1, <2>2 DEF Corrected, Certified, Certifiers
<1> QED
    BY <1>1, Invariance, PTL
=============================================================================

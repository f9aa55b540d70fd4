-------------------------- MODULE CredentialsProofs --------------------------
(* Proofs about the server's credentials, for every set of processes and   *)
(* every number of generations.                                            *)
EXTENDS Credentials, TLAPS

PairMaker(p) == pc[p] \in {<<"empty", "cert">>, <<"write", "cert">>,
                           <<"empty", "key">>, <<"write", "key">>}
CodeMaker(p) == pc[p] \in {<<"empty", "code">>, <<"write", "code">>}
GoodPair     == IsValid(disk.cert) /\ disk.cert = disk.key

(* As long as no creation was seen by another process: one process makes   *)
(* the code, from an invalid file, and all that are up have the file's.    *)
CodeInv ==
  /\ \A p, q \in Procs : CodeMaker(p) /\ CodeMaker(q) => p = q
  /\ \A p \in Procs : CodeMaker(p) => ~IsValid(disk.code) /\ IsValid(mem[p].code)
  /\ \A p \in Procs :
       pc[p] = <<"up", "code">> => IsValid(disk.code) /\ mem[p].code = disk.code
  /\ tablet # Absent => IsValid(disk.code) /\ tablet = disk.code
  /\ refused = FALSE

(* If moreover no key was torn: one process makes the pair, and the key's  *)
(* file does not exist before the certificate's holds its other half.      *)
MakerInv ==
  /\ \A p, q \in Procs : PairMaker(p) /\ PairMaker(q) => p = q
  /\ \A p \in Procs : PairMaker(p) => IsValid(mem[p].cert) /\ mem[p].cert = mem[p].key
  /\ \A p \in Procs :
       pc[p] \in {<<"empty", "cert">>, <<"write", "cert">>, <<"empty", "key">>}
         => disk.key = Absent
  /\ \A p \in Procs : pc[p] = <<"write", "cert">> => disk.cert = Empty
  /\ \A p \in Procs :
       pc[p] \in {<<"empty", "key">>, <<"write", "key">>} => disk.cert = mem[p].cert
  /\ \A p \in Procs : pc[p] = <<"write", "key">> => disk.key = Empty

LoaderInv ==
  /\ disk.key # Absent => GoodPair \/ \E p \in Procs : pc[p] = <<"write", "key">>
  /\ disk.cert = Absent => disk.key = Absent
  /\ \A p \in Procs : pc[p] = <<"read", "cert">> => GoodPair
  /\ \A p \in Procs : pc[p] = <<"read", "key">> => GoodPair /\ mem[p].cert = disk.cert
  /\ \A p \in Procs :
       pc[p] = <<"build", "cert">> => IsValid(mem[p].cert) /\ mem[p].cert = mem[p].key
  /\ \A p \in Procs : pc[p][1] # "failed" /\ pc[p] # <<"exists", "code">>

IInv ==
  /\ TypeOK
  /\ overlap = FALSE => CodeInv
  /\ overlap = FALSE /\ torn = FALSE => MakerInv /\ LoaderInv

LEMMA InitGood == Init => IInv
<1> SUFFICES ASSUME Init PROVE IInv
  OBVIOUS
<1> USE DEF Init, Off, Absent, Empty, IsValid
<1>1. TypeOK
  <2>1. -1 \in Content /\ 0 \in 0 .. MaxMade
    BY MaxMadeAssumption DEF Content
  <2>. QED BY <2>1 DEF TypeOK, File, Stage
<1>2. disk.cert = -1 /\ disk.key = -1
  BY DEF File
<1>3. \A p \in Procs : pc[p] = <<"off", "cert">> /\ pc[p][1] = "off"
  OBVIOUS
<1>4. CodeInv /\ MakerInv /\ LoaderInv
  BY <1>2, <1>3 DEF CodeInv, MakerInv, LoaderInv, PairMaker, CodeMaker
<1>. QED BY <1>1, <1>4 DEF IInv

(* What the stages of the specification mean here. *)
LEMMA SeesFacts ==
  ASSUME TypeOK, NEW p \in Procs
  PROVE  /\ ~SeesCreation(p, "code") => \A q \in Procs \ {p} : ~CodeMaker(q)
         /\ \A f \in {"cert", "key"} :
              ~SeesCreation(p, f) => \A q \in Procs \ {p} : ~PairMaker(q)
BY DEF TypeOK, Stage, File, SeesCreation, Creates, Writing, CodeMaker, PairMaker

(* A step of process p leaves the others alone. *)
Elsewhere(p) == \A q \in Procs \ {p} : pc'[q] = pc[q] /\ mem'[q] = mem[q]

(* Steps that neither write nor create: what p reads it keeps, what it has *)
(* decided is in its next stage.                                           *)
LEMMA ReadStep ==
  ASSUME IInv, NEW p \in Procs, Start(p) \/ BuildTls(p) \/ \E f \in File : ReadPair(p, f)
  PROVE  IInv'
<1> USE DEF IInv, Goto, history
<1>1. /\ UNCHANGED <<disk, made, tablet, refused, torn, overlap>>
      /\ Elsewhere(p)
      /\ \/ mem' = mem /\ pc'[p] = <<"exists", "cert">>
         \/ mem' = mem /\ pc'[p] = <<"read", "code">>
         \/ mem' = mem /\ pc'[p] = <<"failed", "cert">> /\ pc[p] = <<"build", "cert">>
            /\ ~(IsValid(mem[p].cert) /\ mem[p].cert = mem[p].key)
         \/ pc[p] = <<"read", "cert">> /\ pc'[p] = <<"read", "key">>
            /\ mem' = [mem EXCEPT ![p] = [@ EXCEPT !["cert"] = disk["cert"]]]
         \/ pc[p] = <<"read", "key">> /\ pc'[p] = <<"build", "cert">>
            /\ mem' = [mem EXCEPT ![p] = [@ EXCEPT !["key"] = disk["key"]]]
  BY DEF TypeOK, Start, BuildTls, ReadPair, At, File, Elsewhere, Off
<1>2. TypeOK'
  BY DEF TypeOK, Start, BuildTls, ReadPair, At, File, Stage
<1>3. ~CodeMaker(p)' /\ ~PairMaker(p)' /\ pc'[p] # <<"up", "code">>
  BY <1>1 DEF CodeMaker, PairMaker
<1>4. CodeInv => CodeInv'
  BY <1>1, <1>3 DEF CodeInv, Elsewhere, CodeMaker
<1>5. MakerInv => MakerInv'
  BY <1>1, <1>3 DEF MakerInv, Elsewhere, PairMaker
<1>6. LoaderInv => LoaderInv'
  <2> SUFFICES ASSUME LoaderInv PROVE LoaderInv'
    OBVIOUS
  <2>1. pc[p] # <<"write", "key">>
    BY DEF Start, BuildTls, ReadPair, At, Off
  <2>2. GoodPair' = GoodPair
    BY <1>1 DEF GoodPair
  <2>3. pc'[p] = <<"read", "key">> => GoodPair /\ mem'[p].cert = disk.cert
    BY <1>1 DEF LoaderInv, TypeOK, File
  <2>4. pc'[p] = <<"build", "cert">> => IsValid(mem'[p].cert) /\ mem'[p].cert = mem'[p].key
    BY <1>1 DEF LoaderInv, TypeOK, File, GoodPair
  <2>5. pc'[p][1] # "failed" /\ pc'[p] # <<"exists", "code">> /\ pc'[p] # <<"read", "cert">>
    BY <1>1 DEF LoaderInv
  <2>6. disk.key # Absent => GoodPair \/ \E q \in Procs : pc'[q] = <<"write", "key">>
    BY <1>1, <2>1 DEF LoaderInv, Elsewhere
  <2>. QED BY <1>1, <2>2, <2>3, <2>4, <2>5, <2>6 DEF LoaderInv, Elsewhere
<1>. QED BY <1>1, <1>2, <1>4, <1>5, <1>6

(* A process that ends drops what it had; torn records the one place where *)
(* that matters.                                                           *)
LEMMA StopStep ==
  ASSUME IInv, NEW p \in Procs, Stop(p)
  PROVE  IInv'
<1> USE DEF IInv
<1>1. /\ UNCHANGED <<disk, made, tablet, refused, overlap>>
      /\ Elsewhere(p) /\ pc'[p] = <<"off", "cert">>
      /\ torn' = (torn \/ pc[p] = <<"write", "key">>)
  BY DEF TypeOK, Stop, At, Elsewhere, Off
<1>2. TypeOK'
  <2>1. Off \in Stage \X File /\ Absent \in Content /\ torn' \in BOOLEAN
    BY <1>1, MaxMadeAssumption DEF Off, Stage, File, Absent, Content, TypeOK
  <2>. QED BY <2>1 DEF TypeOK, Stop
<1>3. ~CodeMaker(p)' /\ ~PairMaker(p)' /\ pc'[p][1] = "off"
  BY <1>1 DEF CodeMaker, PairMaker
<1>4. CodeInv => CodeInv'
  BY <1>1, <1>3 DEF CodeInv, Elsewhere, CodeMaker
<1>5. MakerInv => MakerInv'
  BY <1>1, <1>3 DEF MakerInv, Elsewhere, PairMaker
<1>6. LoaderInv /\ pc[p] # <<"write", "key">> => LoaderInv'
  BY <1>1, <1>3 DEF LoaderInv, Elsewhere, GoodPair
<1>7. torn' = FALSE => torn = FALSE /\ pc[p] # <<"write", "key">>
  BY <1>1 DEF TypeOK
<1>. QED BY <1>1, <1>2, <1>4, <1>5, <1>6, <1>7

(* The user's and the tablet's steps. *)
LEMMA UserStep ==
  ASSUME IInv, NEW p \in Procs, EnterCode(p) \/ Handshake(p)
  PROVE  IInv'
<1> USE DEF IInv
<1>1. /\ UNCHANGED <<disk, pc, mem, made, torn, overlap>>
      /\ pc[p] = <<"up", "code">>
      /\ \/ tablet' = mem[p].code /\ refused' = refused
         \/ tablet # Absent /\ tablet' = tablet /\ refused' = (refused \/ tablet # mem[p].code)
  BY DEF EnterCode, Handshake, At, Mac
<1>2. TypeOK'
  <2>1. mem[p].code \in Content /\ refused' \in BOOLEAN
    BY <1>1 DEF TypeOK, File
  <2>. QED BY <1>1, <2>1 DEF TypeOK
<1>3. CodeInv => CodeInv'
  BY <1>1 DEF CodeInv, CodeMaker
<1>4. MakerInv /\ LoaderInv => MakerInv' /\ LoaderInv'
  BY <1>1 DEF MakerInv, LoaderInv, PairMaker, GoodPair
<1>. QED BY <1>1, <1>2, <1>3, <1>4

LEMMA NextGeneration ==
  ASSUME TypeOK, made < MaxMade
  PROVE  made + 1 \in 0 .. MaxMade /\ made + 1 \in Content /\ IsValid(made + 1)
<1>1. made \in 0 .. MaxMade /\ made < MaxMade /\ MaxMade \in Nat
  BY MaxMadeAssumption DEF TypeOK
<1>. QED BY <1>1 DEF Content, Absent, IsValid, Empty

LEMMA GenerateFacts ==
  ASSUME TypeOK, NEW p \in Procs, GeneratePair(p)
  PROVE  /\ made' \in 0 .. MaxMade /\ mem' \in [Procs -> [File -> Content]]
         /\ pc' \in [Procs -> Stage \X File]
         /\ Elsewhere(p) /\ pc'[p] = <<"empty", "cert">>
         /\ mem'[p].code = mem[p].code
         /\ IsValid(mem'[p].cert) /\ mem'[p].cert = mem'[p].key
<1>1. made + 1 \in 0 .. MaxMade /\ made + 1 \in Content /\ IsValid(made + 1)
  BY NextGeneration DEF GeneratePair
<1>2. mem[p] \in [File -> Content]
  BY DEF TypeOK
<1> DEFINE m == [mem[p] EXCEPT !["cert"] = made + 1, !["key"] = made + 1]
<1>3. m \in [File -> Content] /\ m.code = mem[p].code /\ m.cert = made + 1 /\ m.key = made + 1
  BY <1>1, <1>2 DEF File
<1>4. mem' = [mem EXCEPT ![p] = m] /\ made' = made + 1
  BY DEF GeneratePair
<1> HIDE DEF m
<1>5. pc' = [pc EXCEPT ![p] = <<"empty", "cert">>]
  BY DEF GeneratePair, Goto
<1>. QED BY <1>1, <1>3, <1>4, <1>5 DEF TypeOK, Elsewhere, Stage, File

(* Looking for the pair: who finds a file missing makes both. *)
LEMMA ExistsStep ==
  ASSUME IInv, NEW p \in Procs, NEW f \in File, Exists(p, f)
  PROVE  IInv'
<1> USE DEF IInv, Goto, history
<1>1. /\ UNCHANGED <<disk, tablet, refused, torn>>
      /\ pc[p] = <<"exists", f>> /\ Elsewhere(p)
      /\ overlap' = (overlap \/ SeesCreation(p, f))
      /\ mem'[p].code = mem[p].code
      /\ \/ /\ disk[f] = Absent /\ pc'[p] = <<"empty", "cert">>
            /\ IsValid(mem'[p].cert) /\ mem'[p].cert = mem'[p].key
         \/ /\ disk[f] # Absent /\ mem' = mem
            /\ \/ f = "cert" /\ pc'[p] = <<"exists", "key">>
               \/ f # "cert" /\ pc'[p] = <<"read", "cert">>
  <2>1. CASE disk[f] = Absent
    BY <2>1, GenerateFacts DEF Exists, At
  <2>2. CASE disk[f] # Absent
    BY <2>2 DEF TypeOK, Exists, At, Elsewhere
  <2>. QED BY <2>1, <2>2
<1>2. TypeOK'
  <2>1. overlap' \in BOOLEAN
    BY <1>1 DEF TypeOK, SeesCreation
  <2>2. /\ made' \in 0 .. MaxMade /\ mem' \in [Procs -> [File -> Content]]
        /\ pc' \in [Procs -> Stage \X File]
    <3>1. CASE disk[f] = Absent
      BY <3>1, GenerateFacts DEF Exists
    <3>2. CASE disk[f] # Absent
      BY <3>2 DEF Exists, TypeOK, Stage, File
    <3>. QED BY <3>1, <3>2
  <2>. QED BY <1>1, <2>1, <2>2 DEF TypeOK
<1>3. overlap' = FALSE => overlap = FALSE /\ ~SeesCreation(p, f)
  BY <1>1 DEF TypeOK
<1>4. CodeInv => CodeInv'
  <2>1. ~CodeMaker(p)' /\ pc'[p] # <<"up", "code">>
    BY <1>1 DEF CodeMaker
  <2>. QED BY <1>1, <2>1 DEF CodeInv, Elsewhere, CodeMaker
<1>5. ASSUME MakerInv, LoaderInv, ~SeesCreation(p, f)
      PROVE  MakerInv' /\ LoaderInv'
  <2>1. f \in {"cert", "key"}
    <3>1. pc[p] # <<"exists", "code">>
      BY <1>5 DEF LoaderInv
    <3>. QED BY <1>1, <3>1 DEF File
  <2>2. \A q \in Procs : ~PairMaker(q)
    BY <1>1, <1>5, <2>1, SeesFacts DEF PairMaker
  <2>3. \A q \in Procs \ {p} : ~PairMaker(q)'
    BY <1>1, <2>2 DEF Elsewhere, PairMaker
  <2>4. \A q \in Procs : pc[q] # <<"write", "key">>
    BY <2>2 DEF PairMaker
  <2>5. disk[f] = Absent => disk.key = Absent
    BY <1>5, <2>1 DEF LoaderInv
  <2>6. MakerInv'
    <3>1. PairMaker(p)' => pc'[p] = <<"empty", "cert">> /\ disk'.key = Absent
      BY <1>1, <2>1, <2>5 DEF PairMaker
    <3>2. PairMaker(p)' => IsValid(mem'[p].cert) /\ mem'[p].cert = mem'[p].key
      BY <1>1 DEF PairMaker
    <3>3. \A q \in Procs : PairMaker(q)' => q = p
      BY <2>3
    <3>. QED BY <3>1, <3>2, <3>3 DEF MakerInv, PairMaker
  <2>7. pc'[p] = <<"read", "cert">> => GoodPair
    BY <1>1, <1>5, <2>1, <2>4 DEF LoaderInv
  <2>8. GoodPair' = GoodPair
    BY <1>1 DEF GoodPair
  <2>9. LoaderInv'
    BY <1>1, <1>5, <2>4, <2>7, <2>8 DEF LoaderInv, Elsewhere
  <2>. QED BY <2>6, <2>9
<1>. QED BY <1>1, <1>2, <1>3, <1>4, <1>5

(* Reading the code: who finds none, or an invalid one, makes one. *)
LEMMA ReadCodeStep ==
  ASSUME IInv, NEW p \in Procs, ReadCode(p)
  PROVE  IInv'
<1> USE DEF IInv, Goto, history
<1>1. /\ UNCHANGED <<disk, tablet, refused, torn>>
      /\ pc[p] = <<"read", "code">> /\ Elsewhere(p)
      /\ overlap' = (overlap \/ SeesCreation(p, "code"))
      /\ \/ /\ IsValid(disk.code) /\ mem'[p].code = disk.code
            /\ pc'[p] = <<"up", "code">>
         \/ /\ ~IsValid(disk.code) /\ IsValid(mem'[p].code)
            /\ pc'[p] = <<"empty", "code">>
  BY DEF TypeOK, ReadCode, IsValidCode, At, File, Elsewhere, IsValid, Empty
<1>2. TypeOK'
  <2>1. overlap' \in BOOLEAN
    BY <1>1 DEF TypeOK, SeesCreation
  <2>2. PICK c \in Content : mem' = [mem EXCEPT ![p] = [@ EXCEPT !["code"] = c]]
    <3>1. CASE IsValidCode(disk.code)
      <4>1. disk.code \in Content
        BY DEF TypeOK, File
      <4>. QED BY <3>1, <4>1 DEF ReadCode
    <3>2. CASE ~IsValidCode(disk.code)
      BY <3>2, NextGeneration DEF ReadCode
    <3>. QED BY <3>1, <3>2
  <2>3. /\ mem' \in [Procs -> [File -> Content]]
        /\ pc' \in [Procs -> Stage \X File]
        /\ made' \in 0 .. MaxMade
    <3>1. mem' \in [Procs -> [File -> Content]]
      BY <2>2 DEF TypeOK
    <3>2. PICK s \in Stage, f \in File : pc' = [pc EXCEPT ![p] = <<s, f>>]
      BY DEF ReadCode, Stage, File
    <3>3. pc' \in [Procs -> Stage \X File]
      BY <3>2 DEF TypeOK
    <3>4. made' \in 0 .. MaxMade
      BY NextGeneration DEF ReadCode, TypeOK
    <3>. QED BY <3>1, <3>3, <3>4
  <2>. QED BY <1>1, <2>1, <2>2, <2>3 DEF TypeOK
<1>3. overlap' = FALSE => overlap = FALSE /\ ~SeesCreation(p, "code")
  BY <1>1 DEF TypeOK
<1>4. ASSUME CodeInv, ~SeesCreation(p, "code") PROVE CodeInv'
  <2>1. \A q \in Procs \ {p} : ~CodeMaker(q) /\ ~CodeMaker(q)'
    BY <1>1, <1>4, SeesFacts DEF Elsewhere, CodeMaker
  <2>2. pc'[p] = <<"empty", "code">> => \A q \in Procs : pc'[q] # <<"up", "code">>
    BY <1>1, <1>4 DEF CodeInv, Elsewhere
  <2>. QED BY <1>1, <1>4, <2>1, <2>2 DEF CodeInv, Elsewhere, CodeMaker
<1>5. MakerInv /\ LoaderInv => MakerInv' /\ LoaderInv'
  <2>1. ~PairMaker(p)' /\ ~PairMaker(p)
    BY <1>1 DEF PairMaker
  <2>2. pc'[p][1] # "failed" /\ pc'[p][1] \notin {"read", "build", "exists"}
    BY <1>1
  <2>3. pc'[p] \notin {<<"read", "cert">>, <<"read", "key">>, <<"build", "cert">>,
                       <<"exists", "code">>}
    BY <1>1
  <2>4. MakerInv => MakerInv'
    BY <1>1, <2>1 DEF MakerInv, Elsewhere, PairMaker
  <2>5. LoaderInv => LoaderInv'
    BY <1>1, <2>2, <2>3 DEF LoaderInv, Elsewhere, GoodPair
  <2>. QED BY <2>4, <2>5
<1>. QED BY <1>1, <1>2, <1>3, <1>4, <1>5

(* Emptying a file: only the maker does it, and nobody relies on it.       *)
LEMMA TruncateStep ==
  ASSUME IInv, NEW p \in Procs, NEW f \in File, Truncate(p, f)
  PROVE  IInv'
<1> USE DEF IInv, Goto, history
<1>1. /\ UNCHANGED <<mem, made, tablet, refused, torn, overlap>>
      /\ pc[p] = <<"empty", f>> /\ pc'[p] = <<"write", f>> /\ Elsewhere(p)
      /\ disk'[f] = Empty /\ \A g \in File \ {f} : disk'[g] = disk[g]
  BY DEF TypeOK, Truncate, At, Elsewhere
<1>2. TypeOK'
  <2>1. Empty \in Content
    BY MaxMadeAssumption DEF Content, Empty, Absent
  <2>. QED BY <2>1 DEF TypeOK, Truncate, Stage
<1>3. ~IsValid(Empty) /\ Empty # Absent
  BY DEF IsValid, Empty, Absent
<1>4. CodeInv => CodeInv'
  <2>1. ASSUME f = "code", CodeInv PROVE CodeInv'
    <3>1. CodeMaker(p) /\ ~IsValid(disk.code) /\ IsValid(mem[p].code)
      BY <1>1, <2>1 DEF CodeInv, CodeMaker
    <3>2. disk'.code = Empty /\ pc'[p] = <<"write", "code">>
      BY <1>1, <2>1
    <3>3. \A q \in Procs : CodeMaker(q)' => q = p
      BY <1>1, <2>1, <3>1 DEF CodeInv, Elsewhere, CodeMaker
    <3>4. \A q \in Procs : pc'[q] # <<"up", "code">>
      BY <1>1, <2>1, <3>1, <3>2 DEF CodeInv, Elsewhere
    <3>5. tablet' = Absent /\ refused' = FALSE
      BY <1>1, <2>1, <3>1 DEF CodeInv
    <3>. QED BY <1>1, <1>3, <3>1, <3>2, <3>3, <3>4, <3>5 DEF CodeInv
  <2>2. CASE f # "code"
    <3>1. disk'.code = disk.code /\ ~CodeMaker(p)' /\ pc'[p] # <<"up", "code">>
      BY <1>1, <2>2 DEF CodeMaker, File
    <3>. QED BY <1>1, <3>1 DEF CodeInv, Elsewhere, CodeMaker
  <2>. QED BY <2>1, <2>2
<1>5. ASSUME MakerInv, LoaderInv PROVE MakerInv' /\ LoaderInv'
  <2>1. CASE f = "code"
    <3>1. disk'.cert = disk.cert /\ disk'.key = disk.key
      BY <1>1, <2>1 DEF File
    <3>2. ~PairMaker(p)' /\ pc'[p] = <<"write", "code">> /\ pc[p] = <<"empty", "code">>
      BY <1>1, <2>1 DEF PairMaker
    <3>3. MakerInv'
      BY <1>1, <1>5, <3>1, <3>2 DEF MakerInv, Elsewhere, PairMaker
    <3>4. LoaderInv'
      BY <1>1, <1>5, <3>1, <3>2 DEF LoaderInv, Elsewhere, GoodPair
    <3>. QED BY <3>3, <3>4
  <2>2. CASE f = "cert"
    <3>1. disk.key = Absent /\ disk'.key = Absent /\ disk'.cert = Empty /\ ~GoodPair
      <4>1. disk.key = Absent /\ pc'[p] = <<"write", "cert">>
        BY <1>1, <1>5, <2>2 DEF MakerInv
      <4>2. disk'.key = Absent /\ disk'.cert = Empty
        BY <1>1, <2>2, <4>1 DEF File
      <4>. QED BY <4>1, <4>2 DEF GoodPair, IsValid, Absent, Empty
    <3>2. PairMaker(p) /\ \A q \in Procs \ {p} : ~PairMaker(q)
      BY <1>1, <1>5, <2>2 DEF MakerInv, PairMaker
    <3>3. \A q \in Procs : PairMaker(q)' => q = p
      BY <1>1, <3>2 DEF Elsewhere, PairMaker
    <3>4. MakerInv'
      <4>1. pc'[p] = <<"write", "cert">> /\ IsValid(mem[p].cert) /\ mem[p].cert = mem[p].key
        BY <1>1, <1>5, <2>2, <3>2 DEF MakerInv
      <4>2. \A q \in Procs : pc'[q] # <<"empty", "key">> /\ pc'[q] # <<"write", "key">>
        BY <3>3, <4>1 DEF PairMaker
      <4>3. PairMaker(p)' => mem'[p] = mem[p]
        BY <1>1
      <4>. QED BY <1>1, <3>1, <3>3, <4>1, <4>2, <4>3 DEF MakerInv, PairMaker
    <3>5. \A q \in Procs : pc'[q] # <<"read", "cert">> /\ pc'[q] # <<"read", "key">>
      BY <1>1, <1>5, <2>2, <3>1 DEF LoaderInv, Elsewhere
    <3>6. LoaderInv'
      BY <1>1, <1>3, <1>5, <2>2, <3>1, <3>5 DEF LoaderInv, Elsewhere
    <3>. QED BY <3>4, <3>6
  <2>3. CASE f = "key"
    <3>1. disk.key = Absent /\ disk'.key = Empty /\ disk'.cert = disk.cert /\ ~GoodPair
      <4>1. disk.key = Absent /\ pc'[p] = <<"write", "key">>
        BY <1>1, <1>5, <2>3 DEF MakerInv
      <4>2. disk'.key = Empty /\ disk'.cert = disk.cert
        BY <1>1, <2>3, <4>1 DEF File
      <4>. QED BY <4>1, <4>2 DEF GoodPair, IsValid, Absent, Empty
    <3>2. PairMaker(p) /\ \A q \in Procs \ {p} : ~PairMaker(q)
      BY <1>1, <1>5, <2>3 DEF MakerInv, PairMaker
    <3>3. \A q \in Procs : PairMaker(q)' => q = p
      BY <1>1, <3>2 DEF Elsewhere, PairMaker
    <3>4. IsValid(disk.cert)
      BY <1>1, <1>5, <2>3, <3>2 DEF MakerInv
    <3>5. MakerInv'
      <4>1. /\ pc'[p] = <<"write", "key">> /\ disk.cert = mem[p].cert
            /\ IsValid(mem[p].cert) /\ mem[p].cert = mem[p].key
        BY <1>1, <1>5, <2>3, <3>2 DEF MakerInv
      <4>. QED BY <1>1, <3>1, <3>3, <4>1 DEF MakerInv, PairMaker
    <3>6. \A q \in Procs : pc'[q] # <<"read", "cert">> /\ pc'[q] # <<"read", "key">>
      BY <1>1, <1>5, <2>3, <3>1 DEF LoaderInv, Elsewhere
    <3>7. LoaderInv'
      BY <1>1, <1>3, <1>5, <2>3, <3>1, <3>4, <3>6
         DEF LoaderInv, Elsewhere, IsValid, Absent, Empty
    <3>. QED BY <3>5, <3>7
  <2>. QED BY <2>1, <2>2, <2>3 DEF File
<1>. QED BY <1>1, <1>2, <1>4, <1>5

(* Writing it: the code's file is not valid before and is after; the key's *)
(* completes the pair.                                                     *)
LEMMA WriteStep ==
  ASSUME IInv, NEW p \in Procs, NEW f \in File, Write(p, f)
  PROVE  IInv'
<1> USE DEF IInv, history
<1>1. PICK c \in {mem[p][f]} \cup (IF f # "code" /\ IsValid(disk[f]) THEN {Empty} ELSE {}) :
        disk' = [disk EXCEPT ![f] = c]
  BY DEF Write
<1>2. /\ UNCHANGED <<mem, made, tablet, refused, torn, overlap>>
      /\ pc[p] = <<"write", f>> /\ pc'[p] = AfterWrite(f) /\ Elsewhere(p)
      /\ disk'[f] = c /\ \A g \in File \ {f} : disk'[g] = disk[g]
  BY <1>1 DEF TypeOK, Write, At, Elsewhere
<1>3. TypeOK'
  <2>1. c \in Content
    BY <1>1, MaxMadeAssumption DEF Content, Empty, Absent, TypeOK
  <2>2. AfterWrite(f) \in Stage \X File
    BY DEF AfterWrite, Stage, File
  <2>. QED BY <1>1, <1>2, <2>1, <2>2 DEF TypeOK, Write
<1>4. f = "code" \/ ~IsValid(disk[f]) => c = mem[p][f]
  BY <1>1
<1>5. CodeInv => CodeInv'
  <2>1. CASE f = "code"
    <3>1. disk'.code = mem[p].code /\ pc'[p] = <<"up", "code">> /\ CodeMaker(p)
      BY <1>2, <1>4, <2>1 DEF AfterWrite, CodeMaker
    <3>2. ~CodeMaker(p)'
      BY <3>1 DEF CodeMaker
    <3>3. ASSUME CodeInv PROVE \A q \in Procs \ {p} : ~CodeMaker(q)' /\ pc'[q] # <<"up", "code">>
      BY <1>2, <3>1, <3>3 DEF CodeInv, Elsewhere, CodeMaker
    <3>. QED BY <1>2, <3>1, <3>2, <3>3 DEF CodeInv, Elsewhere
  <2>2. CASE f # "code"
    <3>1. disk'.code = disk.code /\ ~CodeMaker(p)' /\ pc'[p] # <<"up", "code">>
      BY <1>2, <2>2 DEF CodeMaker, File, AfterWrite
    <3>. QED BY <1>2, <3>1 DEF CodeInv, Elsewhere, CodeMaker
  <2>. QED BY <2>1, <2>2
<1>6. ASSUME MakerInv, LoaderInv PROVE MakerInv' /\ LoaderInv'
  <2>1. CASE f = "code"
    <3>1. disk'.cert = disk.cert /\ disk'.key = disk.key
      BY <1>2, <2>1 DEF File
    <3>2. ~PairMaker(p)' /\ pc'[p] = <<"up", "code">> /\ pc[p] = <<"write", "code">>
      BY <1>2, <2>1 DEF PairMaker, AfterWrite
    <3>3. MakerInv'
      BY <1>2, <1>6, <3>1, <3>2 DEF MakerInv, Elsewhere, PairMaker
    <3>4. LoaderInv'
      BY <1>2, <1>6, <3>1, <3>2 DEF LoaderInv, Elsewhere, GoodPair
    <3>. QED BY <3>3, <3>4
  <2>2. CASE f = "cert"
    <3>1. disk.cert = Empty /\ disk.key = Absent
      BY <1>2, <1>6, <2>2 DEF MakerInv
    <3>2. ~IsValid(Empty) /\ ~GoodPair
      BY <3>1 DEF IsValid, Empty, Absent, GoodPair
    <3>3. disk'.cert = mem[p].cert /\ disk'.key = Absent
      BY <1>2, <1>4, <2>2, <3>1, <3>2 DEF File
    <3>4. PairMaker(p) /\ \A q \in Procs \ {p} : ~PairMaker(q)
      BY <1>2, <1>6, <2>2 DEF MakerInv, PairMaker
    <3>5. \A q \in Procs : PairMaker(q)' => q = p
      BY <1>2, <3>4 DEF Elsewhere, PairMaker
    <3>6. pc'[p] = <<"empty", "key">> /\ IsValid(mem[p].cert) /\ mem[p].cert = mem[p].key
      BY <1>2, <1>6, <2>2, <3>4 DEF MakerInv, AfterWrite
    <3>7. MakerInv'
      BY <1>2, <3>3, <3>5, <3>6 DEF MakerInv, PairMaker
    <3>8. \A q \in Procs : pc'[q] # <<"read", "cert">> /\ pc'[q] # <<"read", "key">>
      BY <1>2, <1>6, <3>2, <3>6 DEF LoaderInv, Elsewhere
    <3>9. LoaderInv'
      BY <1>2, <1>6, <3>3, <3>6, <3>8 DEF LoaderInv, Elsewhere
    <3>. QED BY <3>7, <3>9
  <2>3. CASE f = "key"
    <3>1. disk.key = Empty /\ disk.cert = mem[p].cert
      BY <1>2, <1>6, <2>3 DEF MakerInv
    <3>2. ~IsValid(Empty)
      BY DEF IsValid, Empty
    <3>3. disk'.key = mem[p].key /\ disk'.cert = mem[p].cert
      BY <1>2, <1>4, <2>3, <3>1, <3>2 DEF File
    <3>4. PairMaker(p) /\ \A q \in Procs \ {p} : ~PairMaker(q)
      BY <1>2, <1>6, <2>3 DEF MakerInv, PairMaker
    <3>5. pc'[p] = <<"build", "cert">> /\ IsValid(mem[p].cert) /\ mem[p].cert = mem[p].key
      BY <1>2, <1>6, <2>3, <3>4 DEF MakerInv, AfterWrite
    <3>6. \A q \in Procs : ~PairMaker(q)'
      BY <1>2, <3>4, <3>5 DEF Elsewhere, PairMaker
    <3>7. MakerInv'
      BY <3>6 DEF MakerInv, PairMaker
    <3>8. GoodPair' /\ ~GoodPair
      BY <3>1, <3>3, <3>5 DEF GoodPair, IsValid, Empty
    <3>9. \A q \in Procs : pc'[q] # <<"read", "cert">> /\ pc'[q] # <<"read", "key">>
      BY <1>2, <1>6, <3>5, <3>8 DEF LoaderInv, Elsewhere
    <3>10. IsValid(disk'.cert) /\ disk'.cert # Absent
      BY <3>3, <3>5 DEF IsValid, Empty, Absent
    <3>11. LoaderInv'
      BY <1>2, <1>6, <3>5, <3>8, <3>9, <3>10 DEF LoaderInv, Elsewhere
    <3>. QED BY <3>7, <3>11
  <2>. QED BY <2>1, <2>2, <2>3 DEF File
<1>. QED BY <1>2, <1>3, <1>5, <1>6

LEMMA Inductive == IInv /\ [Next]_vars => IInv'
<1>1. IInv /\ UNCHANGED vars => IInv'
  BY DEF vars, IInv, TypeOK, CodeInv, MakerInv, LoaderInv, CodeMaker, PairMaker, GoodPair
<1>2. ASSUME IInv, Next PROVE IInv'
  BY <1>2, ReadStep, StopStep, UserStep, ExistsStep, ReadCodeStep, TruncateStep, WriteStep
     DEF Next, Load
<1>. QED BY <1>1, <1>2

(* The type invariant of the credentials' files and their loaders.         *)
THEOREM CredentialsTypeCorrect == Spec => []TypeOK
<1>1. IInv => TypeOK
  BY DEF IInv
<1>. QED BY <1>1, InitGood, Inductive, PTL DEF Spec

(* Once the tablet has been given a code no start of the server turns it   *)
(* away, unless two processes met at the creation.                         *)
THEOREM CredentialsNeverRefused == Spec => []NeverRefused
<1>1. IInv => NeverRefused
  BY DEF IInv, TypeOK, NeverRefused, CodeInv
<1>. QED BY <1>1, InitGood, Inductive, PTL DEF Spec

(* Only a key torn by a kill, or two first runs at once, make a start fail. *)
THEOREM CredentialsStartsAgain == Spec => []StartsAgain
<1>1. IInv => StartsAgain
  BY DEF IInv, TypeOK, StartsAgain, LoaderInv
<1>. QED BY <1>1, InitGood, Inductive, PTL DEF Spec
=============================================================================

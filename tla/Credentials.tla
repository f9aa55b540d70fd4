---------------------------- MODULE Credentials ----------------------------
(***************************************************************************)
(* The server's credentials in ~/.config/tabscreen: certificate, private   *)
(* key and pairing code, made on the first run and loaded by every later   *)
(* one (Credentials::load_or_create of security.rs).                       *)
(*                                                                         *)
(* Several processes may do so at the same time: the service, and          *)
(* `tabscreen-server --show-pair', which shows the code and exits.  Each   *)
(* may be killed between any two system calls and be started again.  Files *)
(* are written in place: std::fs::write empties the file first.            *)
(*                                                                         *)
(* A pair of certificate and key, and a code, is the number of the         *)
(* generation that made it.  Covered: kills, restarts, overlapping starts. *)
(* Left out: a full disk, and a power cut that loses finished writes.      *)
(***************************************************************************)
EXTENDS Integers

CONSTANTS
  Procs,      \* processes that load the credentials
  MaxMade     \* bound: generations of pairs and codes together

ASSUME MaxMadeAssumption == MaxMade \in Nat

VARIABLES
  disk,       \* file -> what it holds
  pc,         \* process -> the system call it makes next, on which file
  mem,        \* process -> what it has read or generated
  made,       \* generations so far
  tablet,     \* the code the user has entered, Absent before
  refused,    \* the tablet had a code and was turned away
  torn,       \* history: a process was killed while the key's file was empty
  overlap     \* history: one process looked while another one was creating

vars == <<disk, pc, mem, made, tablet, refused, torn, overlap>>

File    == {"cert", "key", "code"}
Absent  == -1                      \* no such file
Empty   == 0                       \* there, but not a certificate, key or code
Content == Absent .. MaxMade

Stage   == {"off", "exists", "read", "empty", "write", "build", "up", "failed"}
At(p, stage, f)   == pc[p] = <<stage, f>>
Goto(p, stage, f) == pc' = [pc EXCEPT ![p] = <<stage, f>>]

TypeOK ==
  /\ disk    \in [File -> Content]
  /\ pc      \in [Procs -> Stage \X File]
  /\ mem     \in [Procs -> [File -> Content]]
  /\ made    \in 0 .. MaxMade
  /\ tablet  \in Content
  /\ refused \in BOOLEAN /\ torn \in BOOLEAN /\ overlap \in BOOLEAN

Off  == <<"off", "cert">>
Init ==
  /\ disk = [f \in File |-> Absent]
  /\ pc   = [p \in Procs |-> Off]
  /\ mem  = [p \in Procs |-> [f \in File |-> Absent]]
  /\ made = 0 /\ tablet = Absent
  /\ refused = FALSE /\ torn = FALSE /\ overlap = FALSE

history == <<tablet, refused, torn>>

-----------------------------------------------------------------------------
(* Which files a process is between deciding to create and having written. *)

Writing(p)      == pc[p][1] \in {"empty", "write"}
Creates(p, f)   == Writing(p) /\ (pc[p][2] = "code" <=> f = "code")
SeesCreation(p, f) == \E q \in Procs \ {p} : Creates(q, f)

IsValid(c)   == c > Empty
IsValidCodeRaw(c) == FALSE         \* mutant: the length of the code before its last change
IsValidCode(c)    == c > Empty     \* trimmed and upper-cased before the test

-----------------------------------------------------------------------------
(* One system call of load_or_create each. *)

Start(p) ==
  /\ pc[p] = Off
  /\ Goto(p, "exists", "cert")
  /\ UNCHANGED <<disk, mem, made, history, overlap>>

(* rcgen makes a new pair; the certificate's file is emptied next. *)
GeneratePair(p) ==
  /\ made < MaxMade /\ made' = made + 1
  /\ mem' = [mem EXCEPT ![p] = [@ EXCEPT !.cert = made + 1, !.key = made + 1]]
  /\ Goto(p, "empty", "cert")

(* cert_path.exists() && key_path.exists(), short-circuit. *)
ExistsCertOnly(p, f) ==            \* mutant: a certificate is taken for the pair
  /\ At(p, "exists", f)
  /\ overlap' = (overlap \/ SeesCreation(p, f))
  /\ IF disk[f] = Absent THEN GeneratePair(p)
     ELSE Goto(p, "read", "cert") /\ UNCHANGED <<mem, made>>
  /\ UNCHANGED <<disk, history>>

Exists(p, f) ==
  /\ At(p, "exists", f)
  /\ overlap' = (overlap \/ SeesCreation(p, f))
  /\ IF disk[f] = Absent THEN GeneratePair(p)
     ELSE /\ IF f = "cert" THEN Goto(p, "exists", "key") ELSE Goto(p, "read", "cert")
          /\ UNCHANGED <<mem, made>>
  /\ UNCHANGED <<disk, history>>

ReadPair(p, f) ==
  /\ At(p, "read", f) /\ f # "code"
  /\ mem' = [mem EXCEPT ![p] = [@ EXCEPT ![f] = disk[f]]]
  /\ IF f = "cert" THEN Goto(p, "read", "key") ELSE Goto(p, "build", "cert")
  /\ UNCHANGED <<disk, made, history, overlap>>

(* open(O_CREAT | O_TRUNC) of std::fs::write. *)
Truncate(p, f) ==
  /\ At(p, "empty", f)
  /\ disk' = [disk EXCEPT ![f] = Empty]
  /\ Goto(p, "write", f)
  /\ UNCHANGED <<mem, made, history, overlap>>

(* The order of the files; the code is shown once it is on disk. *)
AfterWrite(f) == IF f = "cert" THEN <<"empty", "key">>
                 ELSE IF f = "key" THEN <<"build", "cert">> ELSE <<"up", "code">>

(* Over what another process has written meanwhile: two codes have the     *)
(* same length, but the tail of a longer certificate or key would remain.  *)
Write(p, f) ==
  /\ At(p, "write", f)
  /\ \E c \in {mem[p][f]} \cup (IF f # "code" /\ IsValid(disk[f]) THEN {Empty} ELSE {}) :
       disk' = [disk EXCEPT ![f] = c]
  /\ pc' = [pc EXCEPT ![p] = AfterWrite(f)]
  /\ UNCHANGED <<mem, made, history, overlap>>

(* with_single_cert: both have to parse and to belong together.  An error  *)
(* ends the process; systemd starts the service again.                     *)
BuildTls(p) ==
  /\ At(p, "build", "cert")
  /\ IF IsValid(mem[p].cert) /\ mem[p].cert = mem[p].key
     THEN Goto(p, "read", "code") ELSE Goto(p, "failed", "cert")
  /\ UNCHANGED <<disk, mem, made, history, overlap>>

ReadCode(p) ==
  /\ At(p, "read", "code")
  /\ overlap' = (overlap \/ SeesCreation(p, "code"))
  /\ \/ /\ IsValidCode(disk.code)
        /\ mem' = [mem EXCEPT ![p] = [@ EXCEPT !.code = disk.code]]
        /\ Goto(p, "up", "code")
        /\ UNCHANGED made
     \/ /\ ~IsValidCode(disk.code)
        /\ made < MaxMade /\ made' = made + 1
        /\ mem' = [mem EXCEPT ![p] = [@ EXCEPT !.code = made + 1]]
        /\ Goto(p, "empty", "code")
  /\ UNCHANGED <<disk, history>>

(* The end of a process, wherever it is: a signal, the logout, an error    *)
(* of load_or_create, or --show-pair that has shown its code.              *)
Stop(p) ==
  /\ pc[p] # Off
  /\ pc'   = [pc EXCEPT ![p] = Off]
  /\ mem'  = [mem EXCEPT ![p] = [f \in File |-> Absent]]
  /\ torn' = (torn \/ At(p, "write", "key"))
  /\ UNCHANGED <<disk, made, tablet, refused, overlap>>

-----------------------------------------------------------------------------
(* The user reads the code from the log, the tray or --show-pair and       *)
(* enters it in the app, once.                                             *)
EnterCode(p) ==
  /\ At(p, "up", "code") /\ tablet = Absent
  /\ tablet' = mem[p].code
  /\ UNCHANGED <<disk, pc, mem, made, refused, torn, overlap>>

(* server_handshake: the MAC of the tablet's code against that of the      *)
(* server's, over this connection's nonces and certificate.                *)
Mac(code)   == code
Handshake(p) ==
  /\ At(p, "up", "code") /\ tablet # Absent
  /\ refused' = (refused \/ Mac(tablet) # Mac(mem[p].code))
  /\ UNCHANGED <<disk, pc, mem, made, tablet, torn, overlap>>

-----------------------------------------------------------------------------
Load(p) ==
  \/ Start(p) \/ BuildTls(p) \/ ReadCode(p)
  \/ \E f \in File : Exists(p, f) \/ ReadPair(p, f) \/ Truncate(p, f) \/ Write(p, f)

Next == \E p \in Procs : Load(p) \/ Stop(p) \/ EnterCode(p) \/ Handshake(p)

Spec == Init /\ [][Next]_vars

-----------------------------------------------------------------------------

(* "Enter that code once": a tablet that has been given the code, by the   *)
(* service or by --show-pair, is never turned away for it, over any kills  *)
(* and restarts, as long as no two processes were there for the creation   *)
(* of the code or the pair at once.                                        *)
NeverRefused == ~overlap => ~refused

(* A start fails only after one of two accidents: a kill between the two   *)
(* system calls that write the key, or two first runs at once.  A kill     *)
(* anywhere else is made good by the next start.                           *)
StartsAgain == ~torn /\ ~overlap => \A p \in Procs : pc[p][1] # "failed"
=============================================================================

----------------------------- MODULE Invocation -----------------------------
(***************************************************************************)
(* From the arguments to an opened and hashed evidence: main,              *)
(* check_destination and the beginning of inspect in src/main.rs,          *)
(* EvidenceFile in src/evidence.rs and hash_reader in src/hash.rs.         *)
(*                                                                         *)
(* An argument is what the loop of main tells apart: the three flags, a    *)
(* path, a recorded digest, other text, and bytes that are not text.  The  *)
(* evidence is a file another program may lengthen or shorten meanwhile.   *)
(***************************************************************************)
EXTENDS Integers, Sequences, FiniteSets, SequencesExt

CONSTANTS
  MaxArgs,      \* bound on the arguments after the first
  MaxSize,      \* bound on the bytes of the evidence
  BufferLen     \* most bytes one read of hash_reader yields

ASSUME InvocationAssumption ==
  MaxArgs \in Nat /\ MaxSize \in Nat /\ BufferLen \in Nat \ {0}

VARIABLES
  args,         \* the arguments
  next,         \* the one main comes to next
  recover,      \* Options::recover
  output,       \* Options::output, as the argument it is
  reference,    \* Options::reference
  step,         \* where the program is
  exit,         \* its exit status
  size,         \* the bytes of the evidence file
  reported,     \* EvidenceFile::reported_size
  position,     \* where in the file the next read begins
  hashed,       \* the offset of every byte given to the hasher, in order
  warned        \* whether the digest was printed with its warning

options == <<recover, output, reference>>
invocation == <<args, next, recover, output, reference, step, exit, size, reported,
                position, hashed, warned>>

Arg == {"--recover", "--output", "--reference-digest", "directory", "digest", "text", "bytes"}

Absent == "absent"

InvocationTypeOK ==
  /\ Len(args) <= MaxArgs + 1 /\ Range(args) \subseteq Arg
  /\ next \in 2 .. MaxArgs + 2
  /\ recover \in BOOLEAN
  /\ output \in Arg \cup {Absent}
  /\ reference \in {"digest", Absent}
  /\ exit \in {"none", "success", "failure", "usage", "nothing_analysed"}
  /\ {size, reported, position} \subseteq 0 .. MaxSize
  /\ \A k \in DOMAIN hashed : hashed[k] \in 0 .. MaxSize - 1
  /\ warned \in BOOLEAN

----------------------------------------------------------------------------
(***************************************************************************)
(* The arguments.                                                          *)
(***************************************************************************)

Options(r, o, f) == recover' = r /\ output' = o /\ reference' = f
Elsewhere == UNCHANGED <<args, size, reported, position, hashed, warned>>

ExitWith(status) ==
  /\ step' = "exited"
  /\ exit' = status
  /\ UNCHANGED <<next, options>>
  /\ Elsewhere

NoPath == step = "arguments" /\ args = <<>> /\ ExitWith("usage")

More == step = "arguments" /\ next <= Len(args)

HasValue == next < Len(args)

\* The argument that follows the flag, whatever it looks like.
Value == args[next + 1]

Take(count) ==
  /\ next' = next + count
  /\ UNCHANGED <<step, exit>>
  /\ Elsewhere

TakeRecover ==
  /\ More /\ args[next] = "--recover"
  /\ Options(TRUE, output, reference)
  /\ Take(1)

\* Seeded fault: of two destinations the last one counts.
LastOneWins(value) == TRUE

\* A repeated flag is refused: which one was meant is not known.
NotYetGiven(value) == value = Absent

TakeOutput ==
  /\ More /\ args[next] = "--output"
  /\ NotYetGiven(output) /\ HasValue
  /\ Options(recover, Value, reference)
  /\ Take(2)

\* Sha256Digest::from_hex takes 64 hexadecimal characters and nothing else.
FromHex(value) == value = "digest"

TakeReference ==
  /\ More /\ args[next] = "--reference-digest"
  /\ NotYetGiven(reference) /\ HasValue /\ FromHex(Value)
  /\ Options(recover, output, Value)
  /\ Take(2)

RefuseArgument ==
  /\ More
  /\ \/ args[next] \notin {"--recover", "--output", "--reference-digest"}
     \/ args[next] = "--output" /\ ~(NotYetGiven(output) /\ HasValue)
     \/ args[next] = "--reference-digest" /\ ~(NotYetGiven(reference) /\ HasValue)
     \/ /\ args[next] = "--reference-digest" /\ NotYetGiven(reference) /\ HasValue
        /\ ~FromHex(Value)
  /\ ExitWith("usage")

AllTaken == step = "arguments" /\ args # <<>> /\ next > Len(args)

\* A digest has nothing to be compared with, and a destination nothing to hold,
\* unless content is read.
NeedsRecover == (reference # Absent \/ output # Absent) /\ ~recover

RefuseOptions == AllTaken /\ NeedsRecover /\ ExitWith("usage")

GoTo(place) ==
  /\ step' = place
  /\ UNCHANGED <<next, options, exit>>
  /\ Elsewhere

AcceptOptions ==
  /\ AllTaken /\ ~NeedsRecover
  /\ GoTo("destination")

\* It cannot be looked up, is no directory, or holds the evidence.
RefuseDestination ==
  /\ step = "destination" /\ output # Absent
  /\ ExitWith("usage")

\* Nobody comes back to the arguments; a destination names a directory.
AcceptDestination ==
  /\ step = "destination"
  /\ step' = "evidence"
  /\ args' = <<>> /\ next' = 2
  /\ output' = IF output = Absent THEN Absent ELSE "directory"
  /\ UNCHANGED <<recover, reference, exit, size, reported, position, hashed,
                 warned>>

----------------------------------------------------------------------------
(***************************************************************************)
(* The evidence.                                                           *)
(***************************************************************************)

\* It is not there, is no regular file, or may not be read.
EvidenceNotOpened == step = "evidence" /\ ExitWith("failure")

Open ==
  /\ step = "evidence"
  /\ reported' = size
  /\ step' = "hashing"
  /\ UNCHANGED <<args, next, options, exit, size, position, hashed, warned>>

\* Seeded fault: what an earlier read left in the buffer is hashed as well.
WholeBuffer(n) == [k \in 1 .. BufferLen |-> IF k <= n THEN position + k - 1 ELSE -1]

\* The bytes of the buffer a read has filled.
Filled(n) == [k \in 1 .. n |-> position + k - 1]

\* A read that yields n bytes; an interrupted one is repeated and yields none.
ReadChunk ==
  /\ step = "hashing"
  /\ \E n \in 1 .. BufferLen :
       /\ position + n <= size
       /\ hashed' = hashed \o Filled(n)
       /\ position' = position + n
  /\ UNCHANGED <<args, next, options, step, exit, size, reported, warned>>

ReadFails == step = "hashing" /\ ExitWith("failure")

\* Seeded fault: only an evidence that ended early is remarked on.
EndedEarly(bytes_read) == bytes_read < reported

Mismatch(bytes_read) == bytes_read # reported

EndOfFile ==
  /\ step = "hashing"
  /\ position >= size
  /\ step' = "hashed"
  /\ warned' = Mismatch(Len(hashed))
  /\ UNCHANGED <<args, next, options, exit, size, reported, position, hashed>>

\* Another program writes to the evidence.
Resize ==
  /\ step \in {"evidence", "hashing"}
  /\ size' \in 0 .. MaxSize
  /\ UNCHANGED <<args, next, options, step, exit, reported, position, hashed, warned>>

InvocationStart ==
  /\ next = 2
  /\ recover = FALSE /\ output = Absent /\ reference = Absent
  /\ step = "arguments" /\ exit = "none"
  /\ reported = 0 /\ position = 0 /\ hashed = <<>> /\ warned = FALSE

\* The path may be any text, and before the evidence is opened it has whatever
\* size Resize gives it.
InvocationInit ==
  /\ args \in {<<>>} \cup {<<"text">> \o rest : rest \in BoundedSeq(Arg, MaxArgs)}
  /\ size = 0
  /\ InvocationStart

InvocationNext ==
  \/ NoPath \/ TakeRecover \/ TakeOutput \/ TakeReference \/ RefuseArgument
  \/ RefuseOptions \/ AcceptOptions \/ RefuseDestination \/ AcceptDestination
  \/ EvidenceNotOpened \/ Open \/ ReadChunk \/ ReadFails \/ EndOfFile \/ Resize

----------------------------------------------------------------------------
(***************************************************************************)
(* Properties.                                                             *)
(***************************************************************************)

TakesValue(a) == a \in {"--output", "--reference-digest"}

\* The arguments read as a sequence of flags with their values: `flags' are the
\* places of the flags, from the second argument on, with no place between two
\* left over.
IsReading(flags) ==
  LET after(i) == IF TakesValue(args[i]) THEN i + 2 ELSE i + 1
      places == flags \cup {Len(args) + 1}
  IN /\ 2 \in places
     /\ \A i \in flags : after(i) \in places
     /\ \A i \in flags : args[i] \in {"--recover", "--output", "--reference-digest"}
     /\ \A i \in flags \ {2} : \E j \in flags : after(j) = i
     /\ \A i, j \in flags : args[i] = args[j] /\ TakesValue(args[i]) => i = j
     /\ \A i \in flags : args[i] = "--reference-digest" => args[i + 1] = "digest"
     /\ (\E i \in flags : TakesValue(args[i])) => \E i \in flags : args[i] = "--recover"

\* What the reading asks for.
ValueOf(flag, flags) ==
  IF \E i \in flags : args[i] = flag
  THEN args[1 + CHOOSE i \in flags : args[i] = flag] ELSE Absent

\* The run does what was asked for and nothing else: an invocation that is
\* accepted has one reading, with each value given once and content read on
\* request, and the options are that reading's; one that is refused has none,
\* unless it was refused for its destination.
AcceptedAsAsked ==
  LET readings == {flags \in SUBSET (2 .. Len(args)) : args # <<>> /\ IsReading(flags)} IN
  /\ step = "destination" =>
       \E flags \in readings :
         /\ readings = {flags}
         /\ recover <=> \E i \in flags : args[i] = "--recover"
         /\ output = ValueOf("--output", flags)
         /\ reference = ValueOf("--reference-digest", flags)
  /\ exit = "usage" =>
       \/ readings = {}
       \/ next = Len(args) + 1 /\ recover /\ output # Absent

\* However the reads are cut and the file resized meanwhile, the digest covers
\* the evidence from its first byte on, each byte once; and one that is printed
\* without a warning covers exactly the bytes the evidence had when opened.
DigestCoversWhatWasRead ==
  /\ hashed = [k \in 1 .. Len(hashed) |-> k - 1]
  /\ step = "hashed" /\ ~warned => hashed = [k \in 1 .. reported |-> k - 1]
=============================================================================

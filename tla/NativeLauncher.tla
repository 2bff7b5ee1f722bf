--------------------------- MODULE NativeLauncher ---------------------------
(***************************************************************************)
(* How the arguments of the engine cross from Kotlin to Node: the array of *)
(* strings is copied into one zeroed buffer in C (native-lib.cpp), and     *)
(* index.js looks for the port among the strings argv points to.           *)
(*                                                                         *)
(* A string is a sequence of bytes other than 0; a buffer is a function    *)
(* from the offsets that were allocated, or written, to bytes.             *)
(***************************************************************************)
EXTENDS Integers, Sequences, FiniteSets

CONSTANTS
    DefaultPort,  \* 3000
    Flag          \* the byte that stands for "--port="

MaxPort == 65535

ASSUME LauncherAssumption == DefaultPort \in 1 .. MaxPort /\ Flag \in Nat \ {0}

\* Mutated: no room for the terminators.
SizeOfLetters(args) ==
    LET size[n \in 0 .. Len(args)] == IF n = 0 THEN 0 ELSE size[n - 1] + Len(args[n])
    IN  size[Len(args)]

\* c_arguments_size, after each pass of the loop
Sizes(args) ==
    LET size[n \in 0 .. Len(args)] == IF n = 0 THEN 0 ELSE size[n - 1] + Len(args[n]) + 1
    IN  size

Size(args) == Sizes(args)[Len(args)]

Calloc(size) == [p \in 0 .. size - 1 |-> 0]

StrLen(buffer, at) ==
    CHOOSE n \in 0 .. Cardinality(DOMAIN buffer) :
        /\ at + n \in DOMAIN buffer => buffer[at + n] = 0
        /\ \A m \in 0 .. n - 1 : at + m \in DOMAIN buffer /\ buffer[at + m] # 0

CString(buffer, at) == [i \in 1 .. StrLen(buffer, at) |-> buffer[at + i - 1]]

\* strncpy(at, arg, strlen(arg)): without the terminator
StrNCpy(buffer, at, arg) ==
    [p \in DOMAIN buffer \cup at .. at + Len(arg) - 1 |->
        IF p \in at .. at + Len(arg) - 1 THEN arg[p - at + 1] ELSE buffer[p]]

Populate(memory, arg) ==
    LET buffer == StrNCpy(memory.buffer, memory.at, arg) IN
    [buffer |-> buffer,
     argv |-> Append(memory.argv, memory.at),
     at |-> memory.at + StrLen(buffer, memory.at) + 1]

\* args_buffer, argv and current_args_position, after each pass of the loop
Populated(args) ==
    LET memory[n \in 0 .. Len(args)] ==
            IF n = 0 THEN [buffer |-> Calloc(Size(args)), argv |-> <<>>, at |-> 0]
            ELSE Populate(memory[n - 1], args[n])
    IN  memory

StartNodeWithArguments(args) == Populated(args)[Len(args)]

\* process.argv
ProcessArgv(memory) == [i \in DOMAIN memory.argv |-> CString(memory.buffer, memory.argv[i])]

GetRequestedPort(argv) ==
    LET ports == {i \in DOMAIN argv : Len(argv[i]) = 2 /\ argv[i][1] = Flag
                                                      /\ argv[i][2] \in 1 .. MaxPort}
    IN  IF ports = {} THEN DefaultPort ELSE argv[CHOOSE i \in ports : \A j \in ports : i <= j][2]

\* Node reads the arguments Kotlin passed, and no byte is written or read
\* outside the buffer, for empty arguments too.
Arrives(args) ==
    LET memory == StartNodeWithArguments(args) IN
    /\ DOMAIN memory.buffer = 0 .. Size(args) - 1
    /\ ProcessArgv(memory) = args
    /\ \A i \in DOMAIN args : memory.argv[i] + Len(args[i]) \in DOMAIN memory.buffer

=============================================================================

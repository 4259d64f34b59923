------------------------------ MODULE Console ------------------------------
(***************************************************************************)
(* The serial line between the robot and the PC: what gameThd and photoThd *)
(* write to it (console.c, game.c, photo.c) and the program at its other   *)
(* end (2puck.py, Function.py), which answers the robot's prompts with     *)
(* what the user types and collects the picture.                           *)
(*                                                                         *)
(* A printed line is one item of the line's traffic: a print is over when  *)
(* the server has written it, and nobody else writes meanwhile.  A row of  *)
(* the picture is START, its size in two bytes and its bytes.  Lines are   *)
(* not lost; bytes of the picture may be.  The PC listens from the start.  *)
(***************************************************************************)
EXTENDS Integers, SequencesExt

CONSTANTS
    Typed,           \* the lines the user types
    width,           \* the pixels of a row, of two bytes each: 250
    RowBytes,        \* the contents a row may have
    ROWS,            \* the rows the robot sends: 352
    height,          \* the rows the PC takes: 350
    SERIAL_BUFFERS_SIZE,   \* the characters the robot's driver keeps: 16
    MaxAsks,         \* bound: the lines the user types
    MaxLost          \* bound: the bytes lost

ASSUME ConsoleAssumption ==
    /\ Typed \subseteq Seq({"w", "x"})
    /\ width \in 1..16383 /\ RowBytes \subseteq [1..2 * width -> 0..255]
    /\ height \in 1..ROWS /\ ROWS \in Nat
    /\ SERIAL_BUFFERS_SIZE \in Nat \ {0}
    /\ MaxAsks \in Nat /\ MaxLost \in Nat

\* The letters of START.
START == <<83, 84, 65, 82, 84>>

\* The lines the PC tells apart, as numbers that are none of a byte.
INPUT == -1
PROMPT == -2
TAKING_PHOTO == -3
OTHER_TEXT == -4

Text == {INPUT, PROMPT, TAKING_PHOTO, OTHER_TEXT}

VARIABLES
    robot,           \* where gameThd is, with photoThd for it
    toHost,          \* what is on the line to the PC: lines and bytes
    toRobot,         \* the robot's input queue
    host,            \* where 2puck.py is
    state,           \* readSyncMsg's
    read,            \* the bytes read since the loop at hand began
    size,
    data,            \* the rows the PC has, line = Len(data)
    picture,         \* history: the rows sent
    asks, typed,     \* history: the lines typed, the characters they brought
    lost             \* history: the bytes lost

reader == <<state, read, size, data>>
history == <<asks, typed, lost>>

vars == <<robot, toHost, toRobot, host, reader, picture, history>>

Init ==
    /\ robot = "input" /\ host = "readline"
    /\ toHost = << >> /\ toRobot = << >>
    /\ state = 0 /\ read = << >> /\ size = 0 /\ data = << >>
    /\ picture = << >>
    /\ asks = 0 /\ typed = 0 /\ lost = 0

-----------------------------------------------------------------------------
(***************************************************************************)
(* The robot.                                                              *)
(***************************************************************************)

\* console_send_string.
Say(from, line, to) ==
    /\ robot = from /\ robot' = to
    /\ toHost' = Append(toHost, line)
    /\ UNCHANGED <<toRobot, host, reader, picture, history>>

\* console_get_char: two prints ...
SayInput == Say("input", INPUT, "prompt")
SayPrompt == Say("prompt", PROMPT, "getchar")

\* Mutant of Rest: what else was typed is thrown away.
RestNone(queue) == << >>

Rest(queue) == Tail(queue)

\* ... and a character, of which only w does something.  A second game halts
\* the robot (MusicGame).
GetChar ==
    /\ robot = "getchar" /\ toRobot # << >>
    /\ toRobot' = Rest(toRobot)
    /\ robot' = IF Head(toRobot) # "w" THEN "input"
                ELSE IF picture = << >> THEN "game" ELSE "halted"
    /\ UNCHANGED <<toHost, host, reader, picture, history>>

\* The game, which prints what it does, and its photo.
PlayGame == Say("game", OTHER_TEXT, "photo")
SayPhoto == Say("photo", TAKING_PHOTO, "rows")

\* Mutant of Frame: the size in bytes is not what is sent.
FrameShort(bytes) ==
    START \o <<(Len(bytes) - 1) % 256, (Len(bytes) - 1) \div 256>> \o bytes

\* SendUint8ToComputer.
Frame(bytes) == START \o <<Len(bytes) % 256, Len(bytes) \div 256>> \o bytes

\* Mutant of RowsLeft: the last strip is not sent.
RowsLeftFew == Len(picture) < height - 1

RowsLeft == Len(picture) < ROWS

SendRow(bytes) ==
    /\ robot = "rows" /\ RowsLeft
    /\ toHost' = toHost \o Frame(bytes)
    /\ picture' = Append(picture, bytes)
    /\ UNCHANGED <<robot, toRobot, host, reader, history>>

SayTaken == ~RowsLeft /\ Say("rows", OTHER_TEXT, "input")

-----------------------------------------------------------------------------
(***************************************************************************)
(* The PC.                                                                 *)
(***************************************************************************)

\* The item that comes next is read.
Take(items) ==
    /\ toHost # << >> /\ Head(toHost) \in items
    /\ toHost' = Tail(toHost)

\* The loop of 2puck.py.
ReadLine ==
    /\ host = "readline"
    /\ \/ Take({INPUT}) /\ host' = "ask"
       \/ Take({TAKING_PHOTO}) /\ host' = "sync"
       \/ Take({OTHER_TEXT}) /\ host' = host
    /\ UNCHANGED <<robot, toRobot, reader, picture, history>>

\* The line after Input is the prompt, whatever it is.
Ask ==
    /\ host = "ask" /\ Take(Text)
    /\ host' = "input"
    /\ UNCHANGED <<robot, toRobot, reader, picture, history>>

\* Mutant of Received: nothing bounds the queue.
ReceivedAll(line) == toRobot \o line

\* The robot's queue when a line came in: what it does not hold is dropped.
Received(line) ==
    LET all == toRobot \o line
    IN  IF Len(all) <= SERIAL_BUFFERS_SIZE THEN all
        ELSE SubSeq(all, 1, SERIAL_BUFFERS_SIZE)

\* The user's line, without its end.
Answer(line) ==
    /\ host = "input" /\ asks < MaxAsks
    /\ host' = "readline"
    /\ toRobot' = Received(line)
    /\ asks' = asks + 1 /\ typed' = typed + Len(toRobot') - Len(toRobot)
    /\ UNCHANGED <<robot, toHost, reader, picture, lost>>

Item == Text \cup 0..255

\* Mutant of SyncNext: a letter that does not fit starts the search anew.
SyncNextForgetful(s, b) == IF b = START[s + 1] THEN s + 1 ELSE 0

\* readSyncMsg's automaton.
SyncNext(s, b) ==
    IF b = START[s + 1] THEN s + 1 ELSE IF b = START[1] THEN 1 ELSE 0

\* readSyncMsg reads a byte.
Sync ==
    /\ host = "sync" /\ state < 5
    /\ Take(Item)
    /\ read' = Append(read, Head(toHost))
    /\ state' = SyncNext(state, Head(toHost))
    /\ UNCHANGED <<robot, toRobot, host, size, data, picture, history>>

Synchronised ==
    /\ host = "sync" /\ state = 5
    /\ host' = "size" /\ state' = 0 /\ read' = << >>
    /\ UNCHANGED <<robot, toHost, toRobot, size, data, picture, history>>

ReadByte ==
    /\ \/ host = "size" /\ Len(read) < 2
       \/ host = "data" /\ Len(read) < size
    /\ Take(Item)
    /\ read' = Append(read, Head(toHost))
    /\ UNCHANGED <<robot, toRobot, host, state, size, data, picture, history>>

\* The greatest a short may be.
SHRT_MAX == 32767

\* struct.unpack('<h', ...): a line's text is taken for a printable byte.
Byte(item) == IF item \in Text THEN 48 ELSE item
Short(b) ==
    LET n == Byte(b[1]) + 256 * Byte(b[2])
    IN  IF n < 32768 THEN n ELSE n - 65536

\* With a negative size nothing is read and the search for START goes on; with
\* none at all unpack_from fails.
ReadSize ==
    /\ host = "size" /\ Len(read) = 2
    /\ size' = Short(read)
    /\ read' = << >>
    /\ host' = IF size' > 0 THEN "data" ELSE IF size' = 0 THEN "failed" ELSE "sync"
    /\ UNCHANGED <<robot, toHost, toRobot, state, data, picture, history>>

\* Once the PC has all its rows the picture is mailed, and the program ends.  If
\* bytes are lost the rows may hold too little for a picture, and none is made.
AfterRow(rows) ==
    IF Len(rows) < height THEN {"sync"}
    ELSE {"mailed"} \cup
         {f \in {"failed"} : \E r \in DOMAIN rows : Len(rows[r]) # 2 * width}

\* The row is complete.  It is unpacked two bytes at a time, unless it is a
\* single one: the last byte of an odd row makes unpack_from fail.
StoreRow ==
    /\ host = "data" /\ Len(read) = size
    /\ read' = << >>
    /\ \/ /\ size = 1 \/ size % 2 = 0
          /\ data' = Append(data, read) /\ host' \in AfterRow(data')
       \/ /\ size > 1 /\ size % 2 = 1
          /\ data' = data /\ host' = "failed"
    /\ UNCHANGED <<robot, toHost, toRobot, state, size, picture, history>>

-----------------------------------------------------------------------------
\* A byte of the picture is lost on the way.
LoseByte(k) ==
    /\ lost < MaxLost /\ toHost[k] \notin Text
    /\ toHost' = RemoveAt(toHost, k)
    /\ lost' = lost + 1
    /\ UNCHANGED <<robot, toRobot, host, reader, picture, asks, typed>>

Robot ==
    \/ SayInput \/ SayPrompt \/ GetChar \/ PlayGame \/ SayPhoto
    \/ (\E bytes \in RowBytes : SendRow(bytes)) \/ SayTaken

Host == ReadLine \/ Ask \/ Sync \/ Synchronised \/ ReadByte \/ ReadSize \/ StoreRow

User == \E line \in Typed : Answer(line)

Next == Robot \/ Host \/ User \/ \E k \in DOMAIN toHost : LoseByte(k)

Spec == Init /\ [][Next]_vars

\* The two programs go on, and the user answers.
FairSpec == Spec /\ WF_vars(Robot) /\ WF_vars(Host) /\ WF_vars(User)

-----------------------------------------------------------------------------
(***************************************************************************)
(* Properties.                                                             *)
(***************************************************************************)
\* Every variable has its type: the robot's queue keeps within its size, the PC
\* never takes more rows than the picture has (console.c:95-98, 2puck.py:19-23).
TypeOK ==
    /\ robot \in {"input", "prompt", "getchar", "game", "photo", "rows", "halted"}
    /\ host \in {"readline", "ask", "input", "sync", "size", "data", "mailed",
                 "failed"}
    /\ toHost \in Seq(Item) /\ toRobot \in Seq({"w", "x"})
    /\ Len(toRobot) <= SERIAL_BUFFERS_SIZE
    /\ state \in 0..5 /\ read \in Seq(Item)
    /\ size \in Int /\ -SHRT_MAX - 1 <= size /\ size <= SHRT_MAX
    /\ data \in Seq(Seq(Item)) /\ Len(data) <= height
    /\ picture \in Seq(RowBytes) /\ Len(picture) <= ROWS
    /\ asks \in 0..MaxAsks /\ typed \in Nat /\ lost \in 0..MaxLost

\* Each waits for the other.
Stuck ==
    /\ robot = "getchar" /\ toRobot = << >>
    /\ host = "readline" /\ toHost = << >>

\* The robot waits for a character and the PC for a line only if the user
\* typed an empty line, or one for which the queue was full, and nothing left
\* over from an earlier one makes up for it: otherwise every prompt finds its
\* character (console.c:95-98, 2puck.py:61-67).
OnlyEmptyLinesStall == Stuck => typed < asks

\* readSyncMsg knows at every byte how much of START it has seen: the state is
\* the longest beginning of START that what it read ends in, also where the
\* letters overlap (Function.py:12-44).
SyncIsRight ==
    host = "sync" =>
        /\ IsSuffix(SubSeq(START, 1, state), read)
        /\ \A k \in state + 1..5 : ~IsSuffix(SubSeq(START, 1, k), read)

\* The PC has the rows of the picture from the first on and none of them
\* twice, unless a byte was lost; no text gets into them and it never fails
\* (console.c:105-109, Function.py:48-74).
PictureIsReceived ==
    lost = 0 => IsPrefix(data, picture) /\ host # "failed"

\* And it gets all it waits for: the robot sends at least as many rows, and
\* the user's prompt never keeps the PC from them for good (2puck.py:16-23).
PictureIsMailed ==
    robot = "rows" ~>
        host = "mailed" \/ lost > 0 \/ (host = "input" /\ asks = MaxAsks)

=============================================================================

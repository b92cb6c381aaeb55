------------------------ MODULE FlushProtectedProofs ------------------------
(* Proofs about FlushProtected: to the serialisation, adding samples and     *)
(* writing the string table are steps of its own or none at all, so what     *)
(* SerializeProofs proves about it holds in the whole flush.  Compressing is *)
(* no step of Serctx, whose properties are proved here as well: its tables   *)
(* are the images of the lists of messages (SInv), and the lists decode to   *)
(* the backtraces (Decoding).                                                *)
EXTENDS FlushProtected, SequenceTheorems, TLAPS

P == INSTANCE SerializeProofs

LEMMA StartsAsSerialize == Init => P!Init
  BY DEF Init, S!Init, P!Init

\* Every step of the flush is one of the serialisation or leaves it alone.
LEMMA StepsAsSerialize == [Next]_vars => [P!Next]_(P!vars)
<1> SUFFICES ASSUME [Next]_vars PROVE [P!Next]_(P!vars)
  OBVIOUS
<1> USE DEF P!vars, P!zstream, P!outcome, serialize_vars
<1>1. CASE AddSamples
  BY <1>1 DEF AddSamples
<1>2. CASE Serialize
  BY <1>2 DEF Serialize, S!Serialize, S!zstream, S!outcome,
     P!Serialize, P!Step, P!Next
<1>3. CASE WriteStringTable
  BY <1>3 DEF WriteStringTable, S!WriteStringTable, S!zstream, S!outcome,
     P!WriteStringTable, P!Step, P!Next
<1>4. CASE Compress
  <2>1. S!Compress <=> P!Compress
    BY DEF S!Compress, P!Compress,
       S!Encode, S!StartStream, S!StreamError, S!InterruptedDeflate,
       S!Deflate, S!FinishMore, S!Finish, S!Interrupted, S!Raise,
       S!ReturnProfile, S!Return, S!Room, S!Allocated, S!OutputLength,
       S!Finishing, S!zstream, S!outcome, P!Encode, P!StartStream,
       P!StreamError, P!InterruptedDeflate, P!Deflate, P!FinishMore,
       P!Finish, P!Interrupted, P!Raise, P!ReturnProfile, P!Return, P!Room,
       P!Allocated, P!OutputLength, P!Finishing
  <2>2. QED
    BY <1>4, <2>1 DEF Compress, P!Step, P!Next
<1>5. CASE Unblock
  BY <1>5 DEF Unblock, S!Unblock, S!Serializing, S!zstream, S!outcome,
     P!Unblock, P!Serializing, P!Next
<1>6. CASE Done
  BY <1>6 DEF Done, S!Done, S!vars, S!zstream, S!outcome
<1>7. CASE UNCHANGED vars
  BY <1>7 DEF vars
<1>8. QED
  BY <1>1, <1>2, <1>3, <1>4, <1>5, <1>6, <1>7 DEF Next

LEMMA LengthsHold == P!Lengths
  BY Constants DEF Constants, S!Lengths, P!Lengths

LEMMA SerializeIInv == Spec => []P!IInv
<1>1. Init => P!IInv
  BY StartsAsSerialize, LengthsHold, P!InitIInv
<1>2. P!IInv /\ [Next]_vars => P!IInv'
  BY StepsAsSerialize, LengthsHold, P!IInvStep
<1>3. QED
  BY <1>1, <1>2, PTL DEF Spec

\* In a flush of any samples, deflate has room for its output, which begins
\* where the stream ends so far.
THEOREM FlushHasRoom == Spec => []RoomForOutput
<1>1. P!IInv => RoomForOutput
  BY DEF P!IInv, P!RoomForOutput, RoomForOutput, S!RoomForOutput
<1>2. QED
  BY <1>1, SerializeIInv, PTL

\* A flush returns the whole stream, or, when it was interrupted, what was
\* in pprof_outbuf before, but never a part of the stream.
THEOREM FlushIsWhole == Spec => []WholeStream
<1>1. P!IInv => WholeStream
  BY DEF P!IInv, P!WholeStream, WholeStream, S!WholeStream
<1>2. QED
  BY <1>1, SerializeIInv, PTL

-----------------------------------------------------------------------------
(* The tables                                                              *)

\* The messages of the profile, in the order of their numbers.
Functions == profile_proto.function
Locations == profile_proto.location
Samples == profile_proto.sample

ProfileType ==
    [function : Seq([id : C!Id, name : Nat, filename : Nat]),
     location : Seq([id : C!Id, function_id : C!Id, line : Nat]),
     sample : Seq(Seq(C!Id)),
     string_table : Seq(Strings)]

Types == C!TypeOK /\ profile_proto \in ProfileType

\* While a frame is being added, there is a sample that it belongs to, and the
\* string table is written when no sample is being added.
Place ==
    /\ pc \in {"name", "file", "function", "location"} =>
          /\ sample # NoStack
          /\ Samples # <<>>
          /\ Len(Samples[Len(Samples)]) < Len(sample)
    /\ pc = "written" => sample = NoStack

\* The ids in thunkctx, as far as the frame has got, have been given out.
Thunks ==
    /\ pc \in {"file", "function"} => thunkctx.function_name < strings_counter
    /\ pc = "function" => thunkctx.file_name < strings_counter
    /\ pc = "location" => thunkctx.function_id \in DOMAIN Functions

\* The messages are numbered in the order in which they were added, and
\* function_ids has exactly their keys.
FunctionTable ==
    /\ function_id_counter = Len(Functions) + 1
    /\ \A i \in DOMAIN Functions :
          /\ Functions[i].id = i
          /\ Functions[i].name < strings_counter
          /\ Functions[i].filename < strings_counter
    /\ function_ids = {[key |-> <<Functions[i].name, Functions[i].filename>>,
                        id |-> i] : i \in DOMAIN Functions}

\* The same of the locations.
LocationTable ==
    /\ loc_counter = Len(Locations) + 1
    /\ \A i \in DOMAIN Locations :
          /\ Locations[i].id = i
          /\ Locations[i].function_id \in DOMAIN Functions
    /\ location_pbs = {[key |-> <<Locations[i].function_id, Locations[i].line>>,
                        id |-> i] : i \in DOMAIN Locations}

\* Samples refer to locations that are there.
Stored ==
    \A n \in DOMAIN Samples : \A j \in DOMAIN Samples[n] :
        Samples[n][j] \in DOMAIN Locations

\* The inductive invariant of adding samples.
SInv == /\ Types /\ Place /\ Thunks /\ StringsStay
        /\ FunctionTable /\ LocationTable /\ Stored /\ OneOfEach

-----------------------------------------------------------------------------
\* The reserved strings are five names.
LEMMA ReservedStrings ==
    /\ C!Reserved \in Seq(Strings) /\ Len(C!Reserved) = 5
    /\ \A i, j \in 1 .. 5 : C!Reserved[i] = C!Reserved[j] => i = j
    /\ C!Reserved[1] = ""
<1>1. /\ Len(C!Reserved) = 5
      /\ C!Reserved[1] = "" /\ C!Reserved[2] = "retained_objects"
      /\ C!Reserved[3] = "count" /\ C!Reserved[4] = "retained_size"
      /\ C!Reserved[5] = "bytes"
  BY DEF C!Reserved
<1>2. \A i \in 1 .. 5 : i = 1 \/ i = 2 \/ i = 3 \/ i = 4 \/ i = 5
  OBVIOUS
<1>3. ASSUME NEW i \in 1 .. 5, NEW j \in 1 .. 5,
             C!Reserved[i] = C!Reserved[j]
      PROVE  i = j
  BY <1>1, <1>2, <1>3
<1>4. C!Reserved \in Seq(Strings)
  <2>1. DOMAIN C!Reserved = 1 .. 5
    BY DEF C!Reserved
  <2>2. \A i \in 1 .. 5 : C!Reserved[i] \in Strings
    BY <2>1, Constants DEF Constants, C!StringsAreNames
  <2>3. C!Reserved = [i \in 1 .. 5 |-> C!Reserved[i]]
    BY <2>1 DEF C!Reserved
  <2> QED BY <2>2, <2>3
<1> QED BY <1>1, <1>3, <1>4

LEMMA InitStrings == Init => C!TypeOK /\ StringsStay
<1> SUFFICES ASSUME Init PROVE C!TypeOK /\ StringsStay
  OBVIOUS
<1> DEFINE entry == [i \in 1 .. 5 |->
                 [index |-> i - 1, buffer |-> i, hash |-> buffers[i]]]
<1>1. /\ buffers \in Seq(Strings) /\ Len(buffers) = 5 /\ scratch_buffer = 0
      /\ strings_counter = 5
  BY ReservedStrings DEF Init, C!Init
<1>a. \A i \in 1 .. 5 : buffers[i] \in Strings
  BY <1>1
<1>b. \A i, j \in 1 .. 5 : buffers[i] = buffers[j] => i = j
  BY ReservedStrings DEF Init, C!Init
<1>c. buffers[1] = ""
  BY ReservedStrings DEF Init, C!Init
<1>2. strings = {entry[i] : i \in 1 .. 5}
  <2>1. /\ buffers = C!Reserved
        /\ strings = {[index |-> i - 1, buffer |-> i, hash |-> C!Reserved[i]] :
                         i \in DOMAIN C!Reserved}
    BY DEF Init, C!Init
  <2>2. DOMAIN C!Reserved = 1 .. 5
    BY DEF C!Reserved
  <2> QED BY <2>1, <2>2
<1>3. ASSUME NEW i \in 1 .. 5
      PROVE  /\ entry[i].index = i - 1 /\ entry[i].buffer = i
             /\ entry[i].hash = buffers[i]
             /\ entry[i] \in [index : Nat, buffer : 1 .. 5, hash : Strings]
  BY <1>a
<1> HIDE DEF entry
<1>4. ASSUME NEW e \in strings
      PROVE  \E i \in 1 .. 5 : e = entry[i]
  BY <1>2
<1>5. {e.index : e \in strings} = 0 .. strings_counter - 1
  <2>1. ASSUME NEW n \in 0 .. 4 PROVE \E e \in strings : e.index = n
    <3>1. n + 1 \in 1 .. 5 /\ (n + 1) - 1 = n
      OBVIOUS
    <3> QED BY <1>2, <1>3, <3>1
  <2>2. \A e \in strings : e.index \in 0 .. 4
    BY <1>3, <1>4
  <2> QED BY <1>1, <2>1, <2>2
<1>6. ASSUME NEW d \in strings, NEW e \in strings,
             d.index = e.index \/ d.hash = e.hash
      PROVE  d = e
  <2>1. PICK i \in 1 .. 5 : d = entry[i]
    BY <1>4
  <2>2. PICK j \in 1 .. 5 : e = entry[j]
    BY <1>4
  <2>3. i = j
    BY <1>b, <1>3, <1>6, <2>1, <2>2
  <2> QED BY <2>1, <2>2, <2>3
<1>7. \A e \in strings : buffers[e.buffer] = e.hash /\ e.buffer # scratch_buffer
  BY <1>1, <1>3, <1>4
<1>8. \E e \in strings : e.index = 0 /\ e.hash = ""
  <2>1. 1 \in 1 .. 5 /\ 1 - 1 = 0
    OBVIOUS
  <2>2. entry[1] \in strings /\ entry[1].index = 0
    BY <1>2, <1>3, <2>1
  <2>3. entry[1].hash = buffers[1]
    BY <1>3, <2>1
  <2>4. entry[1].hash = ""
    BY <1>c, <2>3, Zenon
  <2> QED BY <2>2, <2>4, Zenon
<1>9. strings \subseteq [index : Nat, buffer : DOMAIN buffers, hash : Strings]
  BY <1>1, <1>3, <1>4
<1>10. StringsStay
  BY <1>5, <1>6, <1>7, <1>8, Zenon DEF StringsStay, C!StringsStay
<1>11. C!TypeOK
  BY <1>1, <1>9 DEF Init, C!Init, C!TypeOK, C!PC, C!NoThunk, C!Thunk, C!Id
<1> QED BY <1>10, <1>11

LEMMA InitSInv == Init => SInv
<1> SUFFICES ASSUME Init PROVE SInv
  OBVIOUS
<1>1. profile_proto \in ProfileType
  BY DEF Init, C!Init, ProfileType
<1>2. Place /\ Thunks /\ FunctionTable /\ LocationTable /\ Stored
  BY DEF Init, C!Init, Place, Thunks, FunctionTable, LocationTable, Stored,
      Functions, Locations, Samples
<1>3. OneOfEach
  BY DEF Init, C!Init, OneOfEach, C!OneOfEach
<1> QED BY <1>1, <1>2, <1>3, InitStrings DEF SInv, Types
-----------------------------------------------------------------------------
\* What StringsStay says of the entries, apart from the one for "".
Entries ==
    /\ \A e \in strings : buffers[e.buffer] = e.hash /\ e.buffer # scratch_buffer
    /\ \A d, e \in strings : d.index = e.index \/ d.hash = e.hash => d = e
    /\ {e.index : e \in strings} = 0 .. strings_counter - 1

HasEmpty == \E e \in strings : e.index = 0 /\ e.hash = ""

LEMMA StringsStayParts == StringsStay <=> Entries /\ HasEmpty
BY DEF StringsStay, C!StringsStay, Entries, HasEmpty

StringTypes ==
    /\ buffers \in Seq(Strings)
    /\ scratch_buffer \in 0 .. Len(buffers)
    /\ strings \subseteq [index : Nat, buffer : DOMAIN buffers, hash : Strings]
    /\ strings_counter \in Nat

\* The scratch buffer is none of those in the table.
LEMMA WrittenFacts ==
    ASSUME StringTypes, Entries, NEW text \in Strings
    PROVE  /\ C!Written(text) \in Seq(Strings)
           /\ C!Target \in 1 .. Len(C!Written(text))
           /\ Len(buffers) <= Len(C!Written(text))
           /\ C!Written(text)[C!Target] = text
           /\ \A e \in strings : /\ C!Written(text)[e.buffer] = e.hash
                                 /\ e.buffer # C!Target
                                 /\ e.buffer \in DOMAIN C!Written(text)
<1>1. \A e \in strings : e.buffer \in 1 .. Len(buffers)
  BY DEF StringTypes
<1>2. CASE scratch_buffer = 0
  <2>1. C!Written(text) = Append(buffers, text) /\ C!Target = Len(buffers) + 1
    BY <1>2 DEF C!Written, C!Target
  <2> QED BY <1>1, <2>1 DEF StringTypes, Entries
<1>3. CASE scratch_buffer # 0
  <2>1. /\ C!Written(text) = [buffers EXCEPT ![scratch_buffer] = text]
        /\ C!Target = scratch_buffer
    BY <1>3 DEF C!Written, C!Target
  <2> QED BY <1>1, <1>3, <2>1 DEF StringTypes, Entries
<1> QED BY <1>2, <1>3

\* A name that is found leaves the table alone, and one that is not takes the
\* scratch buffer out of use.
LEMMA InternKeepsEntries ==
    ASSUME StringTypes, Entries, HasEmpty, NEW text \in Strings,
           NEW index, buffers' = C!Written(text),
           \/ /\ \E e \in C!EntriesOf(text) : index = e.index
              /\ scratch_buffer' = C!Target
              /\ UNCHANGED <<strings, strings_counter>>
           \/ /\ C!EntriesOf(text) = {}
              /\ index = strings_counter
              /\ strings' = strings \union
                   {[index |-> strings_counter, buffer |-> C!Target,
                     hash |-> text]}
              /\ strings_counter' = strings_counter + 1
              /\ scratch_buffer' = C!Retained
    PROVE  /\ StringTypes' /\ Entries' /\ HasEmpty'
           /\ index \in Nat /\ index < strings_counter'
           /\ strings_counter <= strings_counter'
<1>1. HasEmpty'
  <2>1. strings \subseteq strings'
    OBVIOUS
  <2> QED BY <2>1, Zenon DEF HasEmpty
<1>2. C!EntriesOf(text) = {e \in strings : e.hash = text}
  BY WrittenFacts DEF C!EntriesOf
<1>3. \A e \in strings : e.index \in 0 .. strings_counter - 1
  BY DEF Entries
<1>w. /\ buffers' \in Seq(Strings)
      /\ C!Target \in 0 .. Len(buffers') /\ 0 \in 0 .. Len(buffers')
      /\ strings \subseteq [index : Nat, buffer : DOMAIN buffers', hash : Strings]
  <2>1. /\ buffers' \in Seq(Strings) /\ Len(buffers) <= Len(buffers')
        /\ C!Target \in 1 .. Len(buffers')
    BY WrittenFacts
  <2>2. DOMAIN buffers \subseteq DOMAIN buffers'
    BY <2>1 DEF StringTypes
  <2>3. [index : Nat, buffer : DOMAIN buffers, hash : Strings]
          \subseteq [index : Nat, buffer : DOMAIN buffers', hash : Strings]
    BY <2>2
  <2> QED BY <2>1, <2>3 DEF StringTypes
<1>4. CASE /\ \E e \in C!EntriesOf(text) : index = e.index
           /\ scratch_buffer' = C!Target
           /\ UNCHANGED <<strings, strings_counter>>
  <2>1. index \in 0 .. strings_counter - 1
    BY <1>2, <1>3, <1>4
  <2>2. StringTypes'
    BY <1>4, <1>w DEF StringTypes
  <2>3. \A e \in strings : /\ buffers'[e.buffer] = e.hash
                            /\ e.buffer # scratch_buffer'
    BY <1>4, WrittenFacts
  <2>4. Entries'
    BY <1>4, <2>3 DEF Entries
  <2> QED BY <1>1, <1>4, <2>1, <2>2, <2>4 DEF StringTypes
<1>5. CASE /\ C!EntriesOf(text) = {}
           /\ index = strings_counter
           /\ strings' = strings \union
                {[index |-> strings_counter, buffer |-> C!Target,
                  hash |-> text]}
           /\ strings_counter' = strings_counter + 1
           /\ scratch_buffer' = C!Retained
  <2> DEFINE new == [index |-> strings_counter, buffer |-> C!Target,
                     hash |-> text]
  <2>1. /\ new.index = strings_counter /\ new.buffer = C!Target
        /\ new.hash = text /\ strings' = strings \union {new}
    BY <1>5
  <2>2. new \in [index : Nat, buffer : DOMAIN buffers', hash : Strings]
    BY WrittenFacts DEF StringTypes
  <2> HIDE DEF new
  <2>3. StringTypes'
    BY <1>5, <1>w, <2>1, <2>2 DEF StringTypes, C!Retained
  <2>4. \A e \in strings' : buffers'[e.buffer] = e.hash /\ e.buffer # 0
    BY <2>1, WrittenFacts
  <2>5. \A d, e \in strings' : d.index = e.index \/ d.hash = e.hash => d = e
    <3>1. \A e \in strings : e.hash # text /\ e.index # strings_counter
      BY <1>2, <1>3, <1>5 DEF StringTypes
    <3>2. \A d, e \in strings : d.index = e.index \/ d.hash = e.hash => d = e
      BY DEF Entries
    <3> QED BY <2>1, <3>1, <3>2
  <2>6. {e.index : e \in strings'} = 0 .. strings_counter' - 1
    <3>1. {e.index : e \in strings'} =
              {e.index : e \in strings} \union {strings_counter}
      BY <2>1
    <3>2. {e.index : e \in strings} = 0 .. strings_counter - 1
      BY DEF Entries
    <3>3. 0 .. (strings_counter + 1) - 1 =
              (0 .. strings_counter - 1) \union {strings_counter}
      BY DEF StringTypes
    <3> QED BY <1>5, <3>1, <3>2, <3>3
  <2>7. Entries'
    BY <1>5, <2>4, <2>5, <2>6 DEF Entries, C!Retained
  <2> QED BY <1>1, <1>5, <2>3, <2>7 DEF StringTypes
<1> QED BY <1>4, <1>5
-----------------------------------------------------------------------------
LEMMA StringTypesHold == Types => StringTypes
BY DEF Types, C!TypeOK, StringTypes

FunctionMessage == [id : C!Id, name : Nat, filename : Nat]
LocationMessage == [id : C!Id, function_id : C!Id, line : Nat]

LEMMA ProfileTypes ==
    ASSUME Types
    PROVE  /\ Functions \in Seq(FunctionMessage)
           /\ Locations \in Seq(LocationMessage)
           /\ Samples \in Seq(Seq(C!Id))
           /\ \A i \in DOMAIN Functions :
                 Functions[i].name \in Nat /\ Functions[i].filename \in Nat
           /\ \A i \in DOMAIN Locations :
                 Locations[i].function_id \in Nat /\ Locations[i].line \in Nat
<1>1. /\ Functions \in Seq(FunctionMessage)
      /\ Locations \in Seq(LocationMessage)
      /\ Samples \in Seq(Seq(C!Id))
  BY DEF Types, ProfileType, Functions, Locations, Samples, FunctionMessage,
         LocationMessage
<1>2. \A i \in DOMAIN Functions : Functions[i] \in FunctionMessage
  BY <1>1
<1>3. \A i \in DOMAIN Locations : Locations[i] \in LocationMessage
  BY <1>1
<1> QED BY <1>1, <1>2, <1>3 DEF FunctionMessage, LocationMessage, C!Id

LEMMA Appended ==
    ASSUME NEW El, NEW s \in Seq(El), NEW e \in El
    PROVE  /\ Append(s, e) \in Seq(El)
           /\ Len(Append(s, e)) = Len(s) + 1
           /\ DOMAIN Append(s, e) = DOMAIN s \union {Len(s) + 1}
           /\ Len(s) + 1 \notin DOMAIN s
           /\ Append(s, e)[Len(s) + 1] = e
           /\ \A i \in DOMAIN s : Append(s, e)[i] = s[i]
OBVIOUS

\* The profile has four fields, and each keeps its type.
LEMMA TypesAgain ==
    ASSUME /\ pc' \in C!PC
           /\ StringTypes'
           /\ function_ids' \subseteq [key : Nat \X Nat, id : C!Id]
           /\ function_id_counter' \in C!Id
           /\ location_pbs' \subseteq [key : C!Id \X Nat, id : C!Id]
           /\ loc_counter' \in C!Id
           /\ profile_proto' \in ProfileType
           /\ sample' \in C!Stacks \union {NoStack}
           /\ thunkctx' \in C!Thunk
    PROVE  Types'
<1>1. /\ profile_proto'.function \in Seq([id : C!Id, name : Nat, filename : Nat])
      /\ profile_proto'.location \in
            Seq([id : C!Id, function_id : C!Id, line : Nat])
      /\ profile_proto'.sample \in Seq(Seq(C!Id))
      /\ profile_proto'.string_table \in Seq(Strings)
  BY DEF ProfileType
<1> QED BY <1>1 DEF Types, C!TypeOK, StringTypes

\* The frame at hand is one of the backtrace.
LEMMA FrameFacts ==
    ASSUME Types, Place, pc \in {"name", "file", "function", "location"}
    PROVE  /\ C!Frame \in Frames
           /\ Kept[C!Frame.name] \in Strings /\ Kept[C!Frame.file] \in Strings
           /\ C!Frame.line \in Nat
           /\ Len(Samples) \in DOMAIN Samples
           /\ C!LocationIds = Samples[Len(Samples)]
<1>1. /\ Samples \in Seq(Seq(C!Id)) /\ Samples # <<>>
      /\ Len(Samples[Len(Samples)]) < Len(sample)
      /\ sample \in C!Stacks
  BY DEF Types, C!TypeOK, ProfileType, Place, Samples
<1>2. C!LocationIds = Samples[Len(Samples)]
  BY DEF C!LocationIds, C!Last, Samples
<1>3. PICK n \in 0 .. MaxFrames : sample \in [1 .. n -> Frames]
  BY <1>1 DEF C!Stacks
<1>4. n \in Nat
  BY Constants DEF Constants, C!Depth
<1>5. Len(sample) = n
  BY <1>3, <1>4
<1>6. Len(Samples) \in DOMAIN Samples /\ Samples[Len(Samples)] \in Seq(C!Id)
  BY <1>1
<1>7. Len(C!LocationIds) + 1 \in 1 .. n
  BY <1>1, <1>2, <1>4, <1>5, <1>6
<1>8. C!Frame \in Frames
  BY <1>3, <1>7 DEF C!Frame
<1> QED
  BY <1>2, <1>6, <1>8, Constants DEF Constants, C!StringsAreNames

\* Interning a name of a frame.
LEMMA InternKeepsSInv ==
    ASSUME SInv, C!InternName \/ C!InternFile
    PROVE  SInv'
<1> USE DEF SInv
<1>1. PICK text \in Strings, index \in Nat :
        /\ buffers' = C!Written(text)
        /\ \/ /\ \E e \in C!EntriesOf(text) : index = e.index
              /\ scratch_buffer' = C!Target
              /\ UNCHANGED <<strings, strings_counter>>
           \/ /\ C!EntriesOf(text) = {}
              /\ index = strings_counter
              /\ strings' = strings \union
                   {[index |-> strings_counter, buffer |-> C!Target,
                     hash |-> text]}
              /\ strings_counter' = strings_counter + 1
              /\ scratch_buffer' = C!Retained
        /\ \/ /\ pc = "name" /\ pc' = "file"
              /\ thunkctx' = [thunkctx EXCEPT !["function_name"] = index]
           \/ /\ pc = "file" /\ pc' = "function"
              /\ thunkctx' = [thunkctx EXCEPT !["file_name"] = index]
  <2>0. /\ strings_counter \in Nat
        /\ \A text : \A e \in C!EntriesOf(text) : e.index \in Nat
    BY StringTypesHold DEF StringTypes, C!EntriesOf
  <2>1. CASE C!InternName
    <3>1. Kept[C!Frame.name] \in Strings
      BY <2>1, FrameFacts DEF C!InternName
    <3> QED BY <2>0, <2>1, <3>1 DEF C!InternName, C!Intern
  <2>2. CASE C!InternFile
    <3>1. Kept[C!Frame.file] \in Strings
      BY <2>2, FrameFacts DEF C!InternFile
    <3> QED BY <2>0, <2>2, <3>1 DEF C!InternFile, C!Intern
  <2> QED BY <2>1, <2>2
<1>2. /\ StringTypes' /\ Entries' /\ HasEmpty'
      /\ index \in Nat /\ index < strings_counter'
      /\ strings_counter <= strings_counter'
  BY <1>1, StringTypesHold, StringsStayParts, InternKeepsEntries
<1>3. UNCHANGED <<function_ids, function_id_counter, location_pbs,
                  loc_counter, profile_proto, sample>>
  BY DEF C!InternName, C!InternFile
<1>4. strings_counter \in Nat /\ strings_counter' \in Nat
  BY <1>2, StringTypesHold DEF StringTypes
<1>5. /\ thunkctx \in C!Thunk /\ thunkctx' \in C!Thunk
      /\ pc' = "file" => thunkctx'.function_name = index
      /\ pc' = "function" => /\ thunkctx'.file_name = index
                             /\ thunkctx'.function_name = thunkctx.function_name
  <2>1. thunkctx \in C!Thunk
    BY DEF Types, C!TypeOK
  <2> QED BY <1>1, <1>2, <2>1 DEF C!Thunk
<1>6. pc' \in {"file", "function"} /\ pc \in {"name", "file"}
  BY <1>1
<1>7. Types'
  BY <1>2, <1>3, <1>5, <1>6
  DEF Types, C!TypeOK, StringTypes, ProfileType, C!PC
<1>8. Thunks'
  BY <1>1, <1>2, <1>4, <1>5 DEF Thunks, C!Thunk
<1>9. Place'
  BY <1>3, <1>6 DEF Place, Samples
<1>10. FunctionTable' /\ LocationTable'
  <2>1. \A i \in DOMAIN Functions : /\ Functions[i].name < strings_counter'
                                    /\ Functions[i].filename < strings_counter'
    BY <1>2, <1>4, ProfileTypes DEF FunctionTable
  <2> QED BY <1>3, <2>1 DEF FunctionTable, LocationTable, Functions, Locations
<1>11. Stored' /\ OneOfEach'
  BY <1>3 DEF Stored, OneOfEach, C!OneOfEach, Samples, Locations
<1>12. StringsStay'
  BY <1>2, StringsStayParts DEF StringsStay, C!StringsStay, Entries, HasEmpty
<1> QED BY <1>7, <1>8, <1>9, <1>10, <1>11, <1>12

\* A sample begins, ends, or is another one.
LEMMA SampleKeepsSInv ==
    ASSUME SInv, \/ \E stack \in C!Stacks : C!AddSample(stack)
                 \/ C!SampleAdded
    PROVE  SInv'
<1> USE DEF SInv
<1>1. UNCHANGED <<buffers, scratch_buffer, strings, strings_counter,
                  function_ids, function_id_counter, location_pbs, loc_counter,
                  thunkctx>>
  BY DEF C!AddSample, C!SampleAdded, C!tables
<1>3. <<>> \in Seq(C!Id) /\ Append(Samples, <<>>) \in Seq(Seq(C!Id))
  <2>1. <<>> \in Seq(C!Id)
    OBVIOUS
  <2>2. \A s \in Seq(Seq(C!Id)), e \in Seq(C!Id) : Append(s, e) \in Seq(Seq(C!Id))
    OBVIOUS
  <2> QED BY <2>1, <2>2, ProfileTypes
<1>2. /\ profile_proto' \in ProfileType
      /\ Functions' = Functions /\ Locations' = Locations
      /\ Samples' = Samples \/ Samples' = Append(Samples, <<>>)
  <2>1. CASE C!SampleAdded
    BY <2>1 DEF C!SampleAdded, Types, Functions, Locations, Samples
  <2>2. ASSUME NEW stack \in C!Stacks, C!AddSample(stack)
        PROVE  /\ profile_proto' \in ProfileType
               /\ Functions' = Functions /\ Locations' = Locations
               /\ Samples' = Append(Samples, <<>>)
    <3>1. profile_proto' = [profile_proto EXCEPT !.sample = Append(Samples, <<>>)]
      BY <2>2 DEF C!AddSample, Samples
    <3>2. profile_proto \in ProfileType
      BY DEF Types
    <3> QED BY <1>3, <3>1, <3>2 DEF ProfileType, Functions, Locations, Samples
  <2> QED BY <2>1, <2>2
<1>4. pc' \in {"idle", "name"} /\ sample' \in C!Stacks \union {NoStack}
  BY DEF C!AddSample, C!SampleAdded
<1>5. Place'
  <2>1. CASE C!SampleAdded
    BY <2>1 DEF Place, C!SampleAdded
  <2>2. ASSUME NEW stack \in C!Stacks, C!AddSample(stack), stack # <<>>
        PROVE  Place'
    <3>1. sample' = stack /\ Samples' = Append(Samples, <<>>) /\ pc' = "name"
      BY <2>2 DEF C!AddSample, Types, ProfileType, Samples
    <3>2. Samples'[Len(Samples')] = <<>> /\ Samples' # <<>>
      <4>1. /\ Len(Samples') = Len(Samples) + 1 /\ Len(Samples) \in Nat
            /\ Samples'[Len(Samples) + 1] = <<>>
        BY <1>3, <3>1, Appended, ProfileTypes
      <4> QED BY <4>1
    <3>3. stack # NoStack
      BY Constants DEF Constants, C!NoStackIsNone
    <3>4. PICK n \in 0 .. MaxFrames : stack \in [1 .. n -> Frames]
      BY DEF C!Stacks
    <3>5. n \in Nat
      BY Constants DEF Constants, C!Depth
    <3>6. Len(stack) = n /\ n # 0
      BY <2>2, <3>4, <3>5
    <3> QED BY <3>1, <3>2, <3>3, <3>5, <3>6 DEF Place
  <2>3. ASSUME NEW stack \in C!Stacks, C!AddSample(stack), stack = <<>>
        PROVE  Place'
    BY <2>3 DEF C!AddSample, Place
  <2> QED BY <2>1, <2>2, <2>3
<1>6. Types'
  BY <1>1, <1>2, <1>4, StringTypesHold, TypesAgain
  DEF Types, C!TypeOK, C!PC, StringTypes
<1>7. Thunks' /\ FunctionTable' /\ LocationTable'
  BY <1>1, <1>2, <1>4 DEF Thunks, FunctionTable, LocationTable
<1>8. Stored'
  <2>1. CASE Samples' = Samples
    BY <1>2, <2>1 DEF Stored
  <2>2. CASE Samples' = Append(Samples, <<>>)
    <3>1. /\ DOMAIN Samples' = DOMAIN Samples \union {Len(Samples) + 1}
          /\ Samples'[Len(Samples) + 1] = <<>>
          /\ \A n \in DOMAIN Samples : Samples'[n] = Samples[n]
      BY <1>3, <2>2, Appended, ProfileTypes
    <3>2. \A j \in DOMAIN Samples'[Len(Samples) + 1] : FALSE
      BY <3>1
    <3> QED BY <1>2, <3>1, <3>2 DEF Stored
  <2> QED BY <1>2, <2>1, <2>2
<1>9. OneOfEach'
  BY <1>2 DEF OneOfEach, C!OneOfEach, Functions, Locations
<1>10. StringsStay'
  BY <1>1 DEF StringsStay, C!StringsStay
<1> QED BY <1>5, <1>6, <1>7, <1>8, <1>9, <1>10

\* The function of the frame: found, or the next one.
LEMMA FunctionKeepsSInv ==
    ASSUME SInv, C!AddFunction
    PROVE  SInv'
<1> USE DEF SInv
<1> DEFINE name == thunkctx.function_name
           filename == thunkctx.file_name
           new == [id |-> function_id_counter, name |-> name,
                   filename |-> filename]
           entry == [key |-> <<name, filename>>, id |-> function_id_counter]
<1>1. /\ UNCHANGED <<buffers, scratch_buffer, strings, strings_counter,
                     location_pbs, loc_counter, sample>>
      /\ pc = "function" /\ pc' = "location"
  BY DEF C!AddFunction
<1>2. /\ thunkctx \in C!Thunk /\ name \in Nat /\ filename \in Nat
      /\ name < strings_counter /\ filename < strings_counter
  BY <1>1 DEF Types, C!TypeOK, C!Thunk, Thunks
<1>3. C!KnownFunctions = {f \in function_ids : f.key = <<name, filename>>}
  BY DEF C!KnownFunctions, C!SamePair
<1>4. StringsStay' /\ StringTypes'
  BY <1>1, StringTypesHold DEF StringsStay, C!StringsStay, StringTypes
<1>5. CASE \E f \in C!KnownFunctions :
             /\ thunkctx' = [thunkctx EXCEPT !.function_id = f.id]
             /\ UNCHANGED <<function_ids, function_id_counter, profile_proto>>
  <2>1. PICK f \in function_ids :
             thunkctx' = [thunkctx EXCEPT !.function_id = f.id]
    BY <1>3, <1>5
  <2>2. UNCHANGED <<function_ids, function_id_counter, profile_proto>>
    BY <1>5
  <2>3. f.id \in DOMAIN Functions
    BY DEF FunctionTable
  <2>4. f.id \in Nat
    BY <2>3, ProfileTypes
  <2>5. thunkctx' \in C!Thunk /\ thunkctx'.function_id = f.id
    BY <1>2, <2>1, <2>4 DEF C!Thunk
  <2>6. Types'
    BY <1>1, <1>4, <2>2, <2>5, TypesAgain DEF Types, C!TypeOK, C!PC
  <2>7. Thunks'
    BY <1>1, <2>2, <2>3, <2>5 DEF Thunks, Functions
  <2>8. Place' /\ FunctionTable' /\ LocationTable' /\ Stored' /\ OneOfEach'
    BY <1>1, <2>2
    DEF Place, FunctionTable, LocationTable, Stored, OneOfEach, C!OneOfEach,
        Functions, Locations, Samples
  <2> QED BY <1>4, <2>6, <2>7, <2>8
<1>6. CASE /\ C!KnownFunctions = {}
           /\ thunkctx' = [thunkctx EXCEPT !.function_id = function_id_counter]
           /\ function_ids' = function_ids \union {entry}
           /\ function_id_counter' = function_id_counter + 1
           /\ profile_proto' =
                [profile_proto EXCEPT !.function = Append(Functions, new)]
  <2> DEFINE n == Len(Functions) + 1
  <2>1. n \in Nat \ {0} /\ function_id_counter = n
    BY ProfileTypes DEF FunctionTable
  <2>2. new \in FunctionMessage /\ new.id = n /\ new.name = name
        /\ new.filename = filename
    BY <1>2, <2>1 DEF FunctionMessage, C!Id
  <2>3. entry.key = <<name, filename>> /\ entry.id = n
    BY <2>1
  <2>4. entry \in [key : Nat \X Nat, id : C!Id]
    BY <1>2, <2>1 DEF C!Id
  <2>5. function_ids' = function_ids \union {entry}
    BY <1>6
  <2>e. entry = [key |-> <<new.name, new.filename>>, id |-> n]
    BY <2>1, <2>2
  <2>6. /\ profile_proto' =
              [profile_proto EXCEPT !.function = Append(Functions, new)]
        /\ thunkctx' = [thunkctx EXCEPT !.function_id = n]
        /\ function_id_counter' = n + 1
    BY <1>6, <2>1
  <2> HIDE DEF new, entry
  <2>7. /\ Append(Functions, new) \in Seq(FunctionMessage)
        /\ DOMAIN Append(Functions, new) = DOMAIN Functions \union {n}
        /\ n \notin DOMAIN Functions
        /\ Append(Functions, new)[n] = new
        /\ Len(Append(Functions, new)) = n
        /\ \A i \in DOMAIN Functions : Append(Functions, new)[i] = Functions[i]
    BY <2>2, ProfileTypes, Appended
  <2> HIDE DEF n
  <2>8. /\ profile_proto' \in ProfileType
        /\ Functions' = Append(Functions, new)
        /\ Locations' = Locations /\ Samples' = Samples
    BY <2>6, <2>7
    DEF Types, ProfileType, Functions, Locations, Samples, FunctionMessage
  <2>9. thunkctx' \in C!Thunk /\ thunkctx'.function_id = n
    BY <1>2, <2>1, <2>6 DEF C!Thunk
  <2>10. Types'
    <3>1. function_ids' \subseteq [key : Nat \X Nat, id : C!Id]
      BY <2>4, <2>5 DEF Types, C!TypeOK
    <3>2. function_id_counter' \in C!Id
      BY <2>1, <2>6 DEF C!Id
    <3> QED
      BY <1>1, <1>4, <2>8, <2>9, <3>1, <3>2, TypesAgain
      DEF Types, C!TypeOK, C!PC
  <2>11. Place' /\ Stored'
    BY <1>1, <2>8 DEF Place, Stored
  <2>12. Thunks'
    BY <1>1, <2>7, <2>8, <2>9 DEF Thunks
  <2>13. FunctionTable'
    <3>1. \A i \in DOMAIN Functions' :
             /\ Functions'[i].id = i
             /\ Functions'[i].name < strings_counter'
             /\ Functions'[i].filename < strings_counter'
      BY <1>1, <1>2, <2>2, <2>7, <2>8 DEF FunctionTable
    <3>2. function_ids' = {[key |-> <<Functions'[i].name, Functions'[i].filename>>,
                            id |-> i] : i \in DOMAIN Functions'}
      <4>1. function_ids = {[key |-> <<Functions'[i].name, Functions'[i].filename>>,
                             id |-> i] : i \in DOMAIN Functions}
        BY <2>7, <2>8 DEF FunctionTable
      <4>2. entry = [key |-> <<Functions'[n].name, Functions'[n].filename>>,
                     id |-> n]
        BY <2>e, <2>7, <2>8
      <4> QED BY <2>5, <2>7, <2>8, <4>1, <4>2
    <3> QED BY <2>6, <2>7, <2>8, <3>1, <3>2 DEF FunctionTable
  <2>14. LocationTable'
    BY <1>1, <2>7, <2>8 DEF LocationTable
  <2>15. OneOfEach'
    <3>1. \A i \in DOMAIN Functions :
              ~ (Functions[i].name = name /\ Functions[i].filename = filename)
      <4> SUFFICES ASSUME NEW i \in DOMAIN Functions, Functions[i].name = name,
                          Functions[i].filename = filename
                   PROVE  FALSE
        OBVIOUS
      <4> DEFINE e == [key |-> <<Functions[i].name, Functions[i].filename>>,
                       id |-> i]
      <4>1. e \in function_ids
        BY DEF FunctionTable
      <4>2. e.key = <<name, filename>>
        OBVIOUS
      <4> QED BY <1>3, <1>6, <4>1, <4>2
    <3>2. ASSUME NEW f \in DOMAIN Functions', NEW g \in DOMAIN Functions',
                 Functions'[f].name = Functions'[g].name,
                 Functions'[f].filename = Functions'[g].filename
          PROVE  f = g
      <4>1. CASE f \in DOMAIN Functions /\ g \in DOMAIN Functions
        BY <2>7, <2>8, <3>2, <4>1 DEF OneOfEach, C!OneOfEach, Functions
      <4> QED BY <2>2, <2>7, <2>8, <3>1, <3>2, <4>1
    <3> QED BY <2>8, <3>2 DEF OneOfEach, C!OneOfEach, Functions, Locations
  <2> QED BY <1>4, <2>10, <2>11, <2>12, <2>13, <2>14, <2>15
<1> QED BY <1>5, <1>6 DEF C!AddFunction, Functions

\* The last sample with one location more.
Extended(id) == [Samples EXCEPT ![Len(Samples)] = Append(@, id)]

LEMMA ExtendedFacts ==
    ASSUME Types, Place, pc = "location", NEW id \in C!Id
    PROVE  LET last == Samples[Len(Samples)] IN
           /\ Extended(id) \in Seq(Seq(C!Id))
           /\ DOMAIN Extended(id) = DOMAIN Samples
           /\ Len(Extended(id)) = Len(Samples)
           /\ Extended(id)[Len(Samples)] = Append(last, id)
           /\ Len(Append(last, id)) = Len(last) + 1
           /\ DOMAIN Append(last, id) = DOMAIN last \union {Len(last) + 1}
           /\ Append(last, id)[Len(last) + 1] = id
           /\ \A j \in DOMAIN last : Append(last, id)[j] = last[j]
           /\ \A n \in DOMAIN Samples \ {Len(Samples)} :
                 Extended(id)[n] = Samples[n]
<1> DEFINE last == Samples[Len(Samples)]
<1>1. Samples \in Seq(Seq(C!Id)) /\ Len(Samples) \in DOMAIN Samples
  BY ProfileTypes, FrameFacts
<1>2. last \in Seq(C!Id)
  BY <1>1
<1>3. /\ Append(last, id) \in Seq(C!Id)
      /\ Len(Append(last, id)) = Len(last) + 1
      /\ DOMAIN Append(last, id) = DOMAIN last \union {Len(last) + 1}
      /\ Append(last, id)[Len(last) + 1] = id
      /\ \A j \in DOMAIN last : Append(last, id)[j] = last[j]
  BY <1>2, Appended
<1>4. /\ Extended(id) \in Seq(Seq(C!Id))
      /\ DOMAIN Extended(id) = DOMAIN Samples
      /\ Len(Extended(id)) = Len(Samples)
      /\ Extended(id)[Len(Samples)] = Append(last, id)
      /\ \A n \in DOMAIN Samples \ {Len(Samples)} :
            Extended(id)[n] = Samples[n]
  BY <1>1, <1>3 DEF Extended
<1> QED BY <1>3, <1>4

\* The location of the frame, likewise, ends the frame.
LEMMA LocationKeepsSInv ==
    ASSUME SInv, C!AddLocation
    PROVE  SInv'
<1> USE DEF SInv
<1> DEFINE function_id == thunkctx.function_id
           line == C!Frame.line
           new == [id |-> loc_counter, function_id |-> function_id,
                   line |-> line]
           entry == [key |-> <<function_id, line>>, id |-> loc_counter]
           last == Samples[Len(Samples)]
<1>1. /\ UNCHANGED <<buffers, scratch_buffer, strings, strings_counter,
                     function_ids, function_id_counter, sample, thunkctx>>
      /\ pc = "location" /\ pc' \in {"idle", "name"}
      /\ pc' = "name" => ~C!IsLast
  BY DEF C!AddLocation
<1>2. /\ function_id \in DOMAIN Functions /\ line \in Nat
      /\ C!LocationIds = last /\ last \in Seq(C!Id)
      /\ Len(Samples) \in DOMAIN Samples
  BY <1>1, FrameFacts, ProfileTypes DEF Thunks
<1>3. C!KnownLocations = {l \in location_pbs : l.key = <<function_id, line>>}
  BY DEF C!KnownLocations, C!SamePair, C!LocationKey
<1>4. StringsStay' /\ StringTypes'
  BY <1>1, StringTypesHold DEF StringsStay, C!StringsStay, StringTypes
<1>5. \A n \in Nat \ {0} : n \in C!Id
  BY DEF C!Id
<1>6. PICK id \in C!Id :
        /\ profile_proto'.sample = Extended(id)
        /\ \/ /\ profile_proto' = [profile_proto EXCEPT !.sample = Extended(id)]
              /\ id \in DOMAIN Locations
              /\ UNCHANGED <<location_pbs, loc_counter>>
           \/ /\ C!KnownLocations = {}
              /\ id = loc_counter
              /\ profile_proto' = [profile_proto EXCEPT
                    !.sample = Extended(id), !.location = Append(Locations, new)]
              /\ location_pbs' = location_pbs \union {entry}
              /\ loc_counter' = loc_counter + 1
  <2>1. CASE \E l \in C!KnownLocations :
               /\ profile_proto' = C!WithLocation(l.id)
               /\ UNCHANGED <<location_pbs, loc_counter>>
    <3>1. PICK l \in location_pbs :
               /\ profile_proto' = C!WithLocation(l.id)
               /\ UNCHANGED <<location_pbs, loc_counter>>
      BY <1>3, <2>1
    <3>2. l.id \in DOMAIN Locations
      BY DEF LocationTable
    <3>3. l.id \in C!Id
      BY <3>2, ProfileTypes DEF C!Id
    <3>4. profile_proto' = [profile_proto EXCEPT !.sample = Extended(l.id)]
      BY <3>1 DEF C!WithLocation, Extended, Samples, Types, ProfileType
    <3>5. profile_proto'.sample = Extended(l.id)
      BY <3>4 DEF Types, ProfileType
    <3> QED BY <3>1, <3>2, <3>3, <3>4, <3>5
  <2>2. CASE /\ C!KnownLocations = {}
             /\ location_pbs' = location_pbs \union
                  {[key |-> C!LocationKey, id |-> loc_counter]}
             /\ loc_counter' = C!NextLocation
             /\ profile_proto' =
                  [C!WithLocation(loc_counter) EXCEPT !.location =
                     Append(@, [id |-> loc_counter,
                                function_id |-> thunkctx.function_id,
                                line |-> C!Frame.line])]
    <3>1. loc_counter \in C!Id
      BY DEF Types, C!TypeOK
    <3>2. C!WithLocation(loc_counter) =
             [profile_proto EXCEPT !.sample = Extended(loc_counter)]
      BY DEF C!WithLocation, Extended, Samples, Types, ProfileType
    <3>3. profile_proto' = [profile_proto EXCEPT
             !.sample = Extended(loc_counter), !.location = Append(Locations, new)]
      BY <2>2, <3>2 DEF Types, ProfileType, Locations
    <3>4. profile_proto'.sample = Extended(loc_counter)
      BY <3>3 DEF Types, ProfileType
    <3> QED
      BY <2>2, <3>1, <3>3, <3>4 DEF C!LocationKey, C!NextLocation
  <2> QED BY <2>1, <2>2 DEF C!AddLocation
<1>7. /\ Samples' = Extended(id) /\ Functions' = Functions
      /\ Extended(id) \in Seq(Seq(C!Id))
  BY <1>1, <1>6, ExtendedFacts DEF Types, ProfileType, Samples, Functions
<1>8. Place'
  <2>1. SUFFICES ASSUME pc' = "name"
                 PROVE  /\ sample' # NoStack /\ Samples' # <<>>
                        /\ Len(Samples'[Len(Samples')]) < Len(sample')
    BY <1>1 DEF Place
  <2>2. /\ Len(Samples') = Len(Samples)
        /\ Samples'[Len(Samples')] = Append(last, id)
        /\ Len(Append(last, id)) = Len(last) + 1
    BY <1>1, <1>7, ExtendedFacts
  <2>3. /\ sample \in C!Stacks /\ Len(last) < Len(sample) /\ Samples # <<>>
        /\ sample # NoStack
    BY <1>1 DEF Place, Types, C!TypeOK
  <2>4. PICK n \in 0 .. MaxFrames : sample \in [1 .. n -> Frames]
    BY <2>3 DEF C!Stacks
  <2>5. n \in Nat
    BY Constants DEF Constants, C!Depth
  <2>6. Len(sample) = n
    BY <2>4, <2>5
  <2>7. Len(last) + 1 # Len(sample)
    BY <1>1, <1>2, <2>1 DEF C!IsLast
  <2>8. Len(last) \in Nat
    BY <1>2
  <2>9. Len(last) + 1 < Len(sample)
    BY <2>3, <2>5, <2>6, <2>7, <2>8
  <2>10. Samples' # <<>>
    <3>1. Len(Samples') \in DOMAIN Samples
      BY <1>2, <2>2
    <3>2. DOMAIN Samples' = DOMAIN Samples
      BY <1>1, <1>7, ExtendedFacts
    <3> QED BY <3>1, <3>2
  <2> QED BY <1>1, <2>2, <2>3, <2>9, <2>10
<1>9. Thunks' /\ FunctionTable'
  BY <1>1, <1>7 DEF Thunks, FunctionTable
\* A sample refers to locations only, if the new id is that of one.
<1>10. ASSUME DOMAIN Locations \subseteq DOMAIN Locations',
              id \in DOMAIN Locations'
       PROVE  Stored'
  <2>1. ASSUME NEW m \in DOMAIN Samples', NEW j \in DOMAIN Samples'[m]
        PROVE  Samples'[m][j] \in DOMAIN Locations'
    <3>1. m \in DOMAIN Samples
      BY <1>1, <1>7, ExtendedFacts
    <3>2. CASE m = Len(Samples)
      <4>1. Samples'[m] = Append(last, id)
        BY <1>1, <1>7, <3>2, ExtendedFacts
      <4>2. CASE j \in DOMAIN last
        <5>1. Samples'[m][j] = last[j]
          BY <1>1, <4>1, <4>2, ExtendedFacts
        <5> QED BY <1>2, <1>10, <4>2, <5>1 DEF Stored
      <4>3. CASE j = Len(last) + 1
        BY <1>1, <1>10, <4>1, <4>3, ExtendedFacts
      <4> QED BY <1>1, <2>1, <4>1, <4>2, <4>3, ExtendedFacts
    <3>3. CASE m # Len(Samples)
      <4>1. Samples'[m] = Samples[m]
        BY <1>1, <1>7, <3>1, <3>3, ExtendedFacts
      <4> QED BY <1>10, <2>1, <3>1, <4>1 DEF Stored
    <3> QED BY <3>2, <3>3
  <2> QED BY <2>1 DEF Stored
<1>11. CASE /\ profile_proto' = [profile_proto EXCEPT !.sample = Extended(id)]
            /\ id \in DOMAIN Locations
            /\ UNCHANGED <<location_pbs, loc_counter>>
  <2>1. profile_proto' \in ProfileType /\ Locations' = Locations
    BY <1>7, <1>11 DEF Types, ProfileType, Locations
  <2>2. Types'
    BY <1>1, <1>4, <1>11, <2>1, TypesAgain DEF Types, C!TypeOK, C!PC
  <2>3. LocationTable' /\ OneOfEach'
    BY <1>1, <1>7, <1>11, <2>1
    DEF LocationTable, OneOfEach, C!OneOfEach, Functions, Locations
  <2> QED BY <1>4, <1>8, <1>9, <1>10, <1>11, <2>1, <2>2, <2>3
<1>12. CASE /\ C!KnownLocations = {}
            /\ id = loc_counter
            /\ profile_proto' = [profile_proto EXCEPT
                  !.sample = Extended(id), !.location = Append(Locations, new)]
            /\ location_pbs' = location_pbs \union {entry}
            /\ loc_counter' = loc_counter + 1
  <2> DEFINE n == Len(Locations) + 1
  <2>1. n \in Nat \ {0} /\ loc_counter = n /\ id = n
    BY <1>12, ProfileTypes DEF LocationTable
  <2>2. function_id \in C!Id
    BY <1>2, ProfileTypes DEF C!Id
  <2>3. /\ new \in LocationMessage /\ new.id = n
        /\ new.function_id = function_id /\ new.line = line
    BY <1>2, <2>1, <2>2 DEF LocationMessage, C!Id
  <2>4. entry \in [key : C!Id \X Nat, id : C!Id]
    BY <1>2, <2>1, <2>2 DEF C!Id
  <2>5. entry = [key |-> <<new.function_id, new.line>>, id |-> n]
    BY <2>1, <2>3
  <2>6. /\ location_pbs' = location_pbs \union {entry}
        /\ loc_counter' = n + 1
        /\ profile_proto' = [profile_proto EXCEPT
              !.sample = Extended(id), !.location = Append(Locations, new)]
    BY <1>12, <2>1
  <2> HIDE DEF new, entry
  <2>7. /\ Append(Locations, new) \in Seq(LocationMessage)
        /\ DOMAIN Append(Locations, new) = DOMAIN Locations \union {n}
        /\ n \notin DOMAIN Locations
        /\ Append(Locations, new)[n] = new
        /\ Len(Append(Locations, new)) = n
        /\ \A i \in DOMAIN Locations : Append(Locations, new)[i] = Locations[i]
    BY <2>3, ProfileTypes, Appended
  <2> HIDE DEF n
  <2>8. /\ profile_proto' \in ProfileType
        /\ Locations' = Append(Locations, new)
    BY <1>7, <2>6, <2>7 DEF Types, ProfileType, Locations, LocationMessage
  <2>9. Types'
    <3>1. location_pbs' \subseteq [key : C!Id \X Nat, id : C!Id]
      BY <2>4, <2>6 DEF Types, C!TypeOK
    <3>2. loc_counter' \in C!Id
      BY <2>1, <2>6 DEF C!Id
    <3> QED
      BY <1>1, <1>4, <2>8, <3>1, <3>2, TypesAgain DEF Types, C!TypeOK, C!PC
  <2>10. LocationTable'
    <3>1. \A i \in DOMAIN Locations' :
             /\ Locations'[i].id = i
             /\ Locations'[i].function_id \in DOMAIN Functions'
      BY <1>2, <1>7, <2>3, <2>7, <2>8 DEF LocationTable
    <3>2. location_pbs' = {[key |-> <<Locations'[i].function_id, Locations'[i].line>>,
                            id |-> i] : i \in DOMAIN Locations'}
      <4>1. location_pbs = {[key |-> <<Locations'[i].function_id, Locations'[i].line>>,
                             id |-> i] : i \in DOMAIN Locations}
        BY <2>7, <2>8 DEF LocationTable
      <4>2. entry = [key |-> <<Locations'[n].function_id, Locations'[n].line>>,
                     id |-> n]
        BY <2>5, <2>7, <2>8
      <4> QED BY <2>6, <2>7, <2>8, <4>1, <4>2
    <3> QED BY <2>6, <2>7, <2>8, <3>1, <3>2 DEF LocationTable
  <2>11. OneOfEach'
    <3>1. \A i \in DOMAIN Locations :
              ~ (Locations[i].function_id = function_id /\ Locations[i].line = line)
      <4> SUFFICES ASSUME NEW i \in DOMAIN Locations,
                          Locations[i].function_id = function_id,
                          Locations[i].line = line
                   PROVE  FALSE
        OBVIOUS
      <4> DEFINE e == [key |-> <<Locations[i].function_id, Locations[i].line>>,
                       id |-> i]
      <4>1. e \in location_pbs
        BY DEF LocationTable
      <4>2. e.key = <<function_id, line>>
        OBVIOUS
      <4> QED BY <1>3, <1>12, <4>1, <4>2
    <3>2. ASSUME NEW k \in DOMAIN Locations', NEW l \in DOMAIN Locations',
                 Locations'[k].function_id = Locations'[l].function_id,
                 Locations'[k].line = Locations'[l].line
          PROVE  k = l
      <4>1. CASE k \in DOMAIN Locations /\ l \in DOMAIN Locations
        BY <2>7, <2>8, <3>2, <4>1 DEF OneOfEach, C!OneOfEach, Locations
      <4> QED BY <2>3, <2>7, <2>8, <3>1, <3>2, <4>1
    <3> QED BY <1>7, <3>2 DEF OneOfEach, C!OneOfEach, Functions, Locations
  <2>12. Stored'
    BY <1>10, <2>1, <2>7, <2>8
  <2> QED BY <1>4, <1>8, <1>9, <2>9, <2>10, <2>11, <2>12
<1> QED BY <1>6, <1>11, <1>12

\* Each string is written from its buffer to its index.
LEMMA WriteKeepsSInv ==
    ASSUME SInv, C!WriteStringTable
    PROVE  SInv'
<1> USE DEF SInv
<1> DEFINE texts == [i \in 1 .. strings_counter |->
                        buffers[C!Entry(i - 1).buffer]]
<1>1. /\ UNCHANGED <<buffers, scratch_buffer, strings, strings_counter,
                     function_ids, function_id_counter, location_pbs,
                     loc_counter, sample, thunkctx>>
      /\ pc' = "written" /\ sample = NoStack
      /\ profile_proto' = [profile_proto EXCEPT !.string_table = texts]
  BY DEF C!WriteStringTable, C!tables
<1>2. texts \in Seq(Strings)
  <2>1. StringTypes /\ Entries
    BY StringTypesHold, StringsStayParts
  <2>2. ASSUME NEW i \in 1 .. strings_counter
        PROVE  buffers[C!Entry(i - 1).buffer] \in Strings
    <3>1. i - 1 \in 0 .. strings_counter - 1
      BY <2>1 DEF StringTypes
    <3>2. \E e \in strings : e.index = i - 1
      BY <2>1, <3>1 DEF Entries
    <3>3. C!Entry(i - 1) \in strings
      BY <3>2 DEF C!Entry
    <3> QED BY <2>1, <3>3 DEF StringTypes
  <2> QED BY <2>1, <2>2 DEF StringTypes
<1> HIDE DEF texts
<1>3. /\ profile_proto' \in ProfileType /\ Functions' = Functions
      /\ Locations' = Locations /\ Samples' = Samples
  BY <1>1, <1>2 DEF Types, ProfileType, Functions, Locations, Samples
<1>4. StringsStay' /\ StringTypes'
  BY <1>1, StringTypesHold DEF StringsStay, C!StringsStay, StringTypes
<1>5. Types'
  BY <1>1, <1>3, <1>4, TypesAgain DEF Types, C!TypeOK, C!PC
<1>6. Place' /\ Thunks' /\ FunctionTable' /\ LocationTable' /\ Stored'
  BY <1>1, <1>3 DEF Place, Thunks, FunctionTable, LocationTable, Stored
<1>7. OneOfEach'
  BY <1>3 DEF OneOfEach, C!OneOfEach, Functions, Locations
<1> QED BY <1>4, <1>5, <1>6, <1>7

LEMMA SInvStep == SInv /\ [Next]_vars => SInv'
<1>1. ASSUME SInv, UNCHANGED serctx_vars
      PROVE  SInv'
  <2>1. UNCHANGED <<Functions, Locations, Samples>>
    BY <1>1 DEF serctx_vars, Functions, Locations, Samples
  <2>2. Types'
    BY <1>1 DEF SInv, serctx_vars, Types, C!TypeOK
  <2>3. Place' /\ Thunks'
    BY <1>1, <2>1 DEF SInv, serctx_vars, Place, Thunks
  <2>4. StringsStay' /\ OneOfEach'
    BY <1>1
    DEF SInv, serctx_vars, StringsStay, C!StringsStay, OneOfEach, C!OneOfEach
  <2>5. FunctionTable' /\ LocationTable' /\ Stored'
    BY <1>1, <2>1 DEF SInv, serctx_vars, FunctionTable, LocationTable, Stored
  <2> QED BY <2>2, <2>3, <2>4, <2>5 DEF SInv
<1>2. ASSUME SInv, C!AddSamples
      PROVE  SInv'
  BY <1>2, InternKeepsSInv, SampleKeepsSInv, FunctionKeepsSInv,
     LocationKeepsSInv
  DEF C!AddSamples
<1>3. ASSUME SInv, C!WriteStringTable
      PROVE  SInv'
  BY <1>3, WriteKeepsSInv
<1> QED
  BY <1>1, <1>2, <1>3
  DEF Next, AddSamples, Serialize, WriteStringTable, Compress, Unblock, Done,
      vars

LEMMA Interned == Spec => []SInv
  BY InitSInv, SInvStep, PTL DEF Spec

\* In a flush of any samples, the tables of the profile under construction
\* have the types that Serctx gives them.
THEOREM TypesOfSamples == Spec => []C!TypeOK
<1>1. SInv => C!TypeOK
  BY DEF SInv, Types
<1> QED BY <1>1, Interned, PTL

\* Whatever names arrive in the scratch buffer, a string that has been entered
\* keeps its text and its index, and no string is entered twice.
THEOREM StringsNeverChange == Spec => []StringsStay
<1>1. SInv => StringsStay
  BY DEF SInv
<1> QED BY <1>1, Interned, PTL

\* Every id in the profile is that of a message, and of one only, that has been
\* added before.
THEOREM NothingDangles == Spec => []ReferencesResolve
<1>1. ASSUME SInv PROVE ReferencesResolve
  <2>1. \A f, g \in DOMAIN Functions : Functions[f].id = Functions[g].id => f = g
    BY <1>1 DEF SInv, FunctionTable
  <2>2. \A k, l \in DOMAIN Locations : Locations[k].id = Locations[l].id => k = l
    BY <1>1 DEF SInv, LocationTable
  <2>3. \A f \in C!Range(Functions) :
            f.name < strings_counter /\ f.filename < strings_counter
    BY <1>1 DEF SInv, FunctionTable, C!Range
  <2>4. \A l \in C!Range(Locations) :
            \E f \in C!Range(Functions) : f.id = l.function_id
    BY <1>1 DEF SInv, FunctionTable, LocationTable, C!Range
  <2>5. \A ids \in C!Range(Samples) : \A id \in C!Range(ids) :
            \E l \in C!Range(Locations) : l.id = id
    <3> SUFFICES ASSUME NEW n \in DOMAIN Samples, NEW j \in DOMAIN Samples[n]
                 PROVE  \E l \in C!Range(Locations) : l.id = Samples[n][j]
      BY DEF C!Range
    <3>1. Samples[n][j] \in DOMAIN Locations
      BY <1>1 DEF SInv, Stored
    <3> QED BY <1>1, <3>1 DEF SInv, LocationTable, C!Range
  <2> QED
    BY <2>1, <2>2, <2>3, <2>4, <2>5
    DEF ReferencesResolve, C!ReferencesResolve, Functions, Locations, Samples
<1> QED BY <1>1, Interned, PTL

\* No function and no location is in the profile twice, though the tables are
\* looked up by keys that are all at one address.
THEOREM NothingTwice == Spec => []OneOfEach
<1>1. SInv => OneOfEach
  BY DEF SInv
<1> QED BY <1>1, Interned, PTL

-----------------------------------------------------------------------------
(* What the profile decodes to                                             *)

\* What is read at an index is the string that was entered.
Readable == \A e \in strings : C!Text(e.index) = e.hash
UnwrittenReadable == pc # "written" => Readable

LEMMA EntryIs ==
    ASSUME SInv, NEW e \in strings
    PROVE  C!Entry(e.index) = e
<1>1. \A d \in strings : d.index = e.index => d = e
  BY StringsStayParts DEF SInv, Entries
<1>2. C!Entry(e.index) \in strings /\ C!Entry(e.index).index = e.index
  BY DEF C!Entry
<1> QED BY <1>1, <1>2

LEMMA UnwrittenIsReadable == SInv => UnwrittenReadable
<1> SUFFICES ASSUME SInv, pc # "written", NEW e \in strings
             PROVE  C!Text(e.index) = e.hash
  BY DEF UnwrittenReadable, Readable
<1>1. C!Text(e.index) = buffers[e.buffer]
  BY EntryIs DEF C!Text
<1>2. buffers[e.buffer] = e.hash
  BY StringsStayParts DEF SInv, Entries
<1> QED BY <1>1, <1>2

\* What a reader makes of a location.
Dec(id) ==
    [name |-> C!Text(Functions[Locations[id].function_id].name),
     file |-> C!Text(Functions[Locations[id].function_id].filename),
     line |-> Locations[id].line]

Decodable == \A id \in DOMAIN Locations : C!Decoded(id) = Dec(id)

LEMMA LocationsDecode == SInv => Decodable
<1> SUFFICES ASSUME SInv, NEW id \in DOMAIN Locations
             PROVE  C!Decoded(id) = Dec(id)
  BY DEF Decodable
<1>1. C!MessageOf(Locations, id) = Locations[id]
  <2>1. \A m \in C!Range(Locations) : m.id = id => m = Locations[id]
    BY DEF SInv, LocationTable, C!Range
  <2>2. Locations[id] \in C!Range(Locations) /\ Locations[id].id = id
    BY DEF SInv, LocationTable, C!Range
  <2> QED BY <2>1, <2>2 DEF C!MessageOf
<1> DEFINE f == Locations[id].function_id
<1>2. f \in DOMAIN Functions
  BY DEF SInv, LocationTable
<1>3. C!MessageOf(Functions, f) = Functions[f]
  <2>1. \A m \in C!Range(Functions) : m.id = f => m = Functions[f]
    BY DEF SInv, FunctionTable, C!Range
  <2>2. Functions[f] \in C!Range(Functions) /\ Functions[f].id = f
    BY <1>2 DEF SInv, FunctionTable, C!Range
  <2> QED BY <2>1, <2>2 DEF C!MessageOf
<1> QED BY <1>1, <1>3 DEF C!Decoded, Dec, Functions, Locations

\* Tables only grow.
Grows ==
    /\ strings \subseteq strings'
    /\ DOMAIN Functions \subseteq DOMAIN Functions'
    /\ \A i \in DOMAIN Functions : Functions'[i] = Functions[i]
    /\ DOMAIN Locations \subseteq DOMAIN Locations'
    /\ \A i \in DOMAIN Locations : Locations'[i] = Locations[i]

LEMMA TablesGrow == ASSUME SInv, [Next]_vars PROVE Grows
<1>0. profile_proto \in ProfileType
  BY DEF SInv, Types
<1>1. CASE UNCHANGED serctx_vars
  BY <1>1 DEF serctx_vars, Grows, Functions, Locations
<1>2. CASE C!InternName \/ C!InternFile
  BY <1>2 DEF C!InternName, C!InternFile, C!Intern, Grows, Functions, Locations
<1>3. CASE C!SampleAdded
  BY <1>3 DEF C!SampleAdded, C!tables, Grows, Functions, Locations
<1>4. ASSUME NEW stack \in C!Stacks, C!AddSample(stack) PROVE Grows
  BY <1>0, <1>4 DEF C!AddSample, C!tables, Grows, Functions, Locations, ProfileType
<1>5. CASE C!WriteStringTable
  BY <1>0, <1>5 DEF C!WriteStringTable, C!tables, Grows, Functions,
                    Locations, ProfileType
<1>6. CASE C!AddFunction
  <2>1. /\ strings' = strings /\ Locations' = Locations
        /\ \/ Functions' = Functions
           \/ Functions' = Append(Functions,
                 [id |-> function_id_counter,
                  name |-> thunkctx.function_name,
                  filename |-> thunkctx.file_name])
    BY <1>0, <1>6 DEF C!AddFunction, Functions, Locations, ProfileType
  <2>2. ASSUME NEW e \in FunctionMessage, Functions' = Append(Functions, e)
        PROVE  Grows
    BY <2>1, <2>2, ProfileTypes, Appended DEF Grows, SInv
  <2>3. [id |-> function_id_counter, name |-> thunkctx.function_name,
         filename |-> thunkctx.file_name] \in FunctionMessage
    BY DEF SInv, Types, C!TypeOK, C!Thunk, FunctionMessage
  <2> QED BY <2>1, <2>2, <2>3 DEF Grows
<1>7. CASE C!AddLocation
  <2>1. /\ strings' = strings /\ Functions' = Functions
        /\ \/ Locations' = Locations
           \/ Locations' = Append(Locations,
                 [id |-> loc_counter, function_id |-> thunkctx.function_id,
                  line |-> C!Frame.line])
    BY <1>0, <1>7 DEF C!AddLocation, C!WithLocation, Functions, Locations,
                      ProfileType
  <2>2. ASSUME NEW e \in LocationMessage, Locations' = Append(Locations, e)
        PROVE  Grows
    BY <2>1, <2>2, ProfileTypes, Appended DEF Grows, SInv
  <2>3. [id |-> loc_counter, function_id |-> thunkctx.function_id,
         line |-> C!Frame.line] \in LocationMessage
    <3>1. pc = "location"
      BY <1>7 DEF C!AddLocation
    <3>2. C!Frame.line \in Nat /\ thunkctx.function_id \in DOMAIN Functions
      BY <3>1, FrameFacts DEF SInv, Thunks
    <3>3. thunkctx.function_id \in C!Id
      BY <3>2, ProfileTypes DEF SInv, C!Id
    <3> QED BY <3>2, <3>3 DEF SInv, Types, C!TypeOK, LocationMessage
  <2> QED BY <2>1, <2>2, <2>3 DEF Grows
<1> QED
  BY <1>1, <1>2, <1>3, <1>4, <1>5, <1>6, <1>7
  DEF Next, AddSamples, C!AddSamples, Serialize, WriteStringTable, Compress,
      Unblock, Done, vars

\* So what was written can still be read.
LEMMA ReadableStep ==
    ASSUME SInv, SInv', Readable, UnwrittenReadable', [Next]_vars
    PROVE  Readable'
<1>1. CASE pc' # "written"
  BY <1>1 DEF UnwrittenReadable
<1>2. CASE UNCHANGED serctx_vars
  <2>1. \A n : C!Text(n)' = C!Text(n)
    BY <1>2 DEF serctx_vars, C!Text, C!Entry
  <2> QED BY <1>2, <2>1 DEF Readable, serctx_vars
<1>3. CASE C!WriteStringTable
  <2>1. /\ pc' = "written" /\ strings' = strings
        /\ profile_proto'.string_table =
             [i \in 1 .. strings_counter |-> buffers[C!Entry(i - 1).buffer]]
    BY <1>3 DEF C!WriteStringTable, C!tables, SInv, Types, ProfileType
  <2>2. ASSUME NEW e \in strings
        PROVE  C!Text(e.index)' = e.hash
    <3>1. e.index \in Nat /\ e.index + 1 \in 1 .. strings_counter
      <4>1. e.index \in 0 .. strings_counter - 1 /\ strings_counter \in Nat
        BY StringsStayParts, StringTypesHold DEF SInv, Entries, StringTypes
      <4> QED BY <4>1
    <3>2. profile_proto'.string_table[e.index + 1] =
              buffers[C!Entry(e.index).buffer]
      BY <2>1, <3>1
    <3>3. buffers[e.buffer] = e.hash
      BY StringsStayParts DEF SInv, Entries
    <3> QED BY <2>1, <3>2, <3>3, EntryIs DEF C!Text
  <2> QED BY <2>1, <2>2 DEF Readable
<1>4. CASE C!AddSamples
  <2>1. pc' # "written"
    BY <1>4
    DEF C!AddSamples, C!AddSample, C!InternName, C!InternFile, C!AddFunction,
        C!AddLocation, C!SampleAdded
  <2> QED BY <1>1, <2>1
<1> QED
  BY <1>2, <1>3, <1>4
  DEF Next, AddSamples, Serialize, WriteStringTable, Compress, Unblock, Done,
      vars

LEMMA TextStays ==
    ASSUME SInv, Readable, Readable', Grows,
           NEW n \in Nat, n < strings_counter
    PROVE  C!Text(n)' = C!Text(n)
<1>1. n \in 0 .. strings_counter - 1
  BY StringTypesHold DEF SInv, StringTypes
<1>2. PICK e \in strings : e.index = n
  BY <1>1, StringsStayParts DEF SInv, Entries
<1>3. e \in strings'
  BY DEF Grows
<1> QED BY <1>2, <1>3 DEF Readable

LEMMA DecodedStays ==
    ASSUME SInv, Readable, Readable', Grows, NEW id \in DOMAIN Locations
    PROVE  /\ Dec(id)' = Dec(id)
           /\ id \in DOMAIN Locations'
<1> DEFINE f == Locations[id].function_id
<1>1. f \in DOMAIN Functions
  BY DEF SInv, LocationTable
<1>2. /\ Functions[f].name \in Nat /\ Functions[f].filename \in Nat
      /\ Functions[f].name < strings_counter
      /\ Functions[f].filename < strings_counter
  BY <1>1, ProfileTypes DEF SInv, FunctionTable
<1>3. /\ C!Text(Functions[f].name)' = C!Text(Functions[f].name)
      /\ C!Text(Functions[f].filename)' = C!Text(Functions[f].filename)
  <2>1. \A n \in Nat : n < strings_counter => C!Text(n)' = C!Text(n)
    BY TextStays
  <2>2. Functions'[f] = Functions[f]
    BY <1>1 DEF Grows
  <2>3. Locations'[id].function_id = f
    BY DEF Grows
  <2>4. (C!Text(Functions[f].name))' = C!Text(Functions[f].name)
    BY <1>2, <2>1, <2>2, <2>3
  <2> QED BY <1>2, <2>1, <2>2, <2>3
<1> QED BY <1>1, <1>3 DEF Dec, Grows

-----------------------------------------------------------------------------
(* The sample in progress                                                  *)

SeenFrame(f) == [name |-> Kept[f.name], file |-> Kept[f.file], line |-> f.line]

\* So far, the sample that is being added is a prefix of its backtrace.
InProgress ==
    sample # NoStack =>
        /\ Samples # <<>>
        /\ Len(Samples[Len(Samples)]) <= Len(sample)
        /\ pc = "idle" => Len(Samples[Len(Samples)]) = Len(sample)
        /\ \A j \in DOMAIN Samples[Len(Samples)] :
              Dec(Samples[Len(Samples)][j]) = SeenFrame(sample[j])

\* The ids in thunkctx are those of the frame at hand.
ThunkText ==
    /\ pc \in {"file", "function"} =>
          C!Text(thunkctx.function_name) = Kept[C!Frame.name]
    /\ pc = "function" => C!Text(thunkctx.file_name) = Kept[C!Frame.file]
    /\ pc = "location" =>
          /\ C!Text(Functions[thunkctx.function_id].name) = Kept[C!Frame.name]
          /\ C!Text(Functions[thunkctx.function_id].filename) =
                Kept[C!Frame.file]

\* The inductive invariant of what the profile decodes to.
Decoding == SInv /\ Readable /\ InProgress /\ ThunkText

LEMMA LastSample ==
    ASSUME SInv, Samples # <<>>
    PROVE  /\ Len(Samples) \in DOMAIN Samples
           /\ Samples[Len(Samples)] \in Seq(C!Id)
           /\ \A j \in DOMAIN Samples[Len(Samples)] :
                 Samples[Len(Samples)][j] \in DOMAIN Locations
<1>1. Samples \in Seq(Seq(C!Id))
  BY ProfileTypes DEF SInv
<1>2. Len(Samples) \in DOMAIN Samples /\ Samples[Len(Samples)] \in Seq(C!Id)
  BY <1>1
<1> QED BY <1>2 DEF SInv, Stored

LEMMA StackLength ==
    ASSUME NEW stack \in C!Stacks
    PROVE  /\ Len(stack) \in Nat /\ DOMAIN stack = 1 .. Len(stack)
           /\ stack = <<>> <=> Len(stack) = 0
<1>1. PICK n \in 0 .. MaxFrames : stack \in [1 .. n -> Frames]
  BY DEF C!Stacks
<1>2. n \in Nat
  BY Constants DEF Constants, C!Depth
<1> QED BY <1>1, <1>2

\* Steps that leave the sample alone.
LEMMA SampleStays ==
    ASSUME Decoding, Readable', Grows,
           sample' = sample, Samples' = Samples, pc' = "idle" => pc = "idle"
    PROVE  InProgress'
<1> SUFFICES ASSUME sample # NoStack
             PROVE  /\ Samples # <<>>
                    /\ Len(Samples[Len(Samples)]) <= Len(sample)
                    /\ pc = "idle" => Len(Samples[Len(Samples)]) = Len(sample)
                    /\ \A j \in DOMAIN Samples[Len(Samples)] :
                          Dec(Samples[Len(Samples)][j])' = SeenFrame(sample[j])
  BY DEF InProgress, SeenFrame
<1> DEFINE last == Samples[Len(Samples)]
<1>1. /\ Samples # <<>> /\ Len(last) <= Len(sample)
      /\ pc = "idle" => Len(last) = Len(sample)
      /\ \A j \in DOMAIN last : Dec(last[j]) = SeenFrame(sample[j])
  BY DEF Decoding, InProgress
<1>2. \A id \in DOMAIN Locations : Dec(id)' = Dec(id)
  BY DecodedStays DEF Decoding
<1>3. \A j \in DOMAIN last : last[j] \in DOMAIN Locations
  BY <1>1, LastSample DEF Decoding
<1>4. ASSUME NEW j \in DOMAIN last
      PROVE  Dec(last[j])' = SeenFrame(sample[j])
  <2>1. Dec(last[j])' = Dec(last[j])
    <3> DEFINE id == last[j]
    <3>1. id \in DOMAIN Locations
      BY <1>3
    <3>2. last' = last
      OBVIOUS
    <3> QED BY <1>2, <3>1, <3>2
  <2> QED BY <1>1, <2>1
<1> QED BY <1>1, <1>4

LEMMA FrameStays ==
    ASSUME sample' = sample, Samples' = Samples
    PROVE  C!Frame' = C!Frame
BY DEF C!Frame, C!LocationIds, C!Last, Samples

\* The thunk after a name was interned.
LEMMA InternDecodes ==
    ASSUME Decoding, SInv', Readable', Grows, C!InternName \/ C!InternFile
    PROVE  InProgress' /\ ThunkText'
<1>1. /\ sample' = sample /\ Samples' = Samples
      /\ pc' \in {"file", "function"} /\ pc \in {"name", "file"}
  BY DEF C!InternName, C!InternFile, Samples
<1>2. InProgress'
  BY <1>1, SampleStays
<1>3. C!Frame' = C!Frame
  BY <1>1, FrameStays
<1>4. thunkctx \in C!Thunk
  BY DEF Decoding, SInv, Types, C!TypeOK
<1>5. CASE C!InternName
  <2> DEFINE text == Kept[C!Frame.name]
  <2>1. PICK e \in strings' : /\ e.hash = text
                              /\ thunkctx' =
                                    [thunkctx EXCEPT !["function_name"] = e.index]
    <3>1. CASE \E e \in C!EntriesOf(text) :
                 /\ thunkctx' =
                                    [thunkctx EXCEPT !["function_name"] = e.index]
                 /\ scratch_buffer' = C!Target
                 /\ UNCHANGED <<strings, strings_counter>>
      BY <3>1 DEF C!EntriesOf
    <3>2. CASE /\ thunkctx' = [thunkctx EXCEPT !["function_name"] = strings_counter]
               /\ strings' = strings \union
                    {[index |-> strings_counter, buffer |-> C!Target,
                      hash |-> text]}
      <4> DEFINE new == [index |-> strings_counter, buffer |-> C!Target,
                         hash |-> text]
      <4>1. new \in strings' /\ new.hash = text /\ new.index = strings_counter
        BY <3>2
      <4> QED BY <3>2, <4>1
    <3> QED BY <1>5, <3>1, <3>2 DEF C!InternName, C!Intern
  <2>2. thunkctx'.function_name = e.index
    BY <1>4, <2>1 DEF C!Thunk
  <2>3. C!Text(thunkctx.function_name)' = text
    BY <2>1, <2>2 DEF Readable
  <2>4. pc' = "file"
    BY <1>5 DEF C!InternName
  <2> QED BY <1>2, <1>3, <2>3, <2>4 DEF ThunkText
<1>6. CASE C!InternFile
  <2> DEFINE text == Kept[C!Frame.file]
  <2>1. PICK e \in strings' : /\ e.hash = text
                              /\ thunkctx' =
                                    [thunkctx EXCEPT !["file_name"] = e.index]
    <3>1. CASE \E e \in C!EntriesOf(text) :
                 /\ thunkctx' =
                                    [thunkctx EXCEPT !["file_name"] = e.index]
                 /\ scratch_buffer' = C!Target
                 /\ UNCHANGED <<strings, strings_counter>>
      BY <3>1 DEF C!EntriesOf
    <3>2. CASE /\ thunkctx' = [thunkctx EXCEPT !["file_name"] = strings_counter]
               /\ strings' = strings \union
                    {[index |-> strings_counter, buffer |-> C!Target,
                      hash |-> text]}
      <4> DEFINE new == [index |-> strings_counter, buffer |-> C!Target,
                         hash |-> text]
      <4>1. new \in strings' /\ new.hash = text /\ new.index = strings_counter
        BY <3>2
      <4> QED BY <3>2, <4>1
    <3> QED BY <1>6, <3>1, <3>2 DEF C!InternFile, C!Intern
  <2>2. /\ thunkctx'.file_name = e.index
        /\ thunkctx'.function_name = thunkctx.function_name
    BY <1>4, <2>1 DEF C!Thunk
  <2>3. C!Text(thunkctx.file_name)' = text
    BY <2>1, <2>2 DEF Readable
  <2>4. pc = "file" /\ pc' = "function"
    BY <1>6 DEF C!InternFile
  <2>5. C!Text(thunkctx.function_name)' = C!Text(thunkctx.function_name)
    <3>1. /\ thunkctx.function_name \in Nat
          /\ thunkctx.function_name < strings_counter
      BY <1>4, <2>4 DEF C!Thunk, Decoding, SInv, Thunks
    <3>2. \A n \in Nat : n < strings_counter => C!Text(n)' = C!Text(n)
      BY TextStays DEF Decoding
    <3> QED BY <2>2, <3>1, <3>2
  <2> QED
    BY <1>2, <1>3, <2>3, <2>4, <2>5 DEF ThunkText, Decoding
<1> QED BY <1>5, <1>6

\* The function is that of the names.
LEMMA FunctionDecodes ==
    ASSUME Decoding, SInv', Readable', Grows, C!AddFunction
    PROVE  InProgress' /\ ThunkText'
<1>0. profile_proto \in ProfileType /\ thunkctx \in C!Thunk
  BY DEF Decoding, SInv, Types, C!TypeOK
<1>1. /\ sample' = sample /\ Samples' = Samples
      /\ pc = "function" /\ pc' = "location"
  BY <1>0 DEF C!AddFunction, Samples, ProfileType
<1>2. InProgress'
  BY <1>1, SampleStays
<1>3. C!Frame' = C!Frame
  BY <1>1, FrameStays
<1>4. /\ Functions'[thunkctx'.function_id].name = thunkctx.function_name
      /\ Functions'[thunkctx'.function_id].filename = thunkctx.file_name
  <2>1. CASE \E f \in C!KnownFunctions :
               /\ thunkctx' = [thunkctx EXCEPT !.function_id = f.id]
               /\ UNCHANGED <<function_ids, function_id_counter, profile_proto>>
    <3>1. PICK f \in function_ids :
               /\ f.key = <<thunkctx.function_name, thunkctx.file_name>>
               /\ thunkctx' = [thunkctx EXCEPT !.function_id = f.id]
               /\ UNCHANGED profile_proto
      BY <2>1 DEF C!KnownFunctions, C!SamePair
    <3>2. PICK i \in DOMAIN Functions :
               f = [key |-> <<Functions[i].name, Functions[i].filename>>, id |-> i]
      BY DEF Decoding, SInv, FunctionTable
    <3>3. /\ Functions[i].name = thunkctx.function_name
          /\ Functions[i].filename = thunkctx.file_name /\ f.id = i
      BY <3>1, <3>2
    <3>4. thunkctx'.function_id = i
      BY <1>0, <3>1, <3>3 DEF C!Thunk
    <3> QED BY <3>1, <3>3, <3>4 DEF Functions
  <2>2. CASE /\ thunkctx' = [thunkctx EXCEPT !.function_id = function_id_counter]
             /\ profile_proto' =
                  [profile_proto EXCEPT !.function =
                     Append(@, [id |-> function_id_counter,
                                name |-> thunkctx.function_name,
                                filename |-> thunkctx.file_name])]
    <3> DEFINE new == [id |-> function_id_counter,
                       name |-> thunkctx.function_name,
                       filename |-> thunkctx.file_name]
    <3>1. Functions' = Append(Functions, new)
      BY <1>0, <2>2 DEF Functions, ProfileType
    <3>2. new \in FunctionMessage
      BY <1>0 DEF Decoding, SInv, Types, C!TypeOK, C!Thunk, FunctionMessage
    <3>3. /\ new.name = thunkctx.function_name
          /\ new.filename = thunkctx.file_name
      OBVIOUS
    <3> HIDE DEF new
    <3>4. Functions'[Len(Functions) + 1] = new
      BY <3>1, <3>2, ProfileTypes, Appended DEF Decoding, SInv
    <3>5. thunkctx'.function_id = Len(Functions) + 1
      BY <1>0, <2>2 DEF C!Thunk, Decoding, SInv, FunctionTable
    <3> QED BY <3>3, <3>4, <3>5
  <2> QED BY <2>1, <2>2 DEF C!AddFunction
<1>5. /\ thunkctx.function_name \in Nat /\ thunkctx.function_name < strings_counter
      /\ thunkctx.file_name \in Nat /\ thunkctx.file_name < strings_counter
  BY <1>0, <1>1 DEF C!Thunk, Decoding, SInv, Thunks
<1>6. \A n \in Nat : n < strings_counter => C!Text(n)' = C!Text(n)
  BY TextStays DEF Decoding
<1>7. /\ C!Text(Functions[thunkctx.function_id].name)' =
            C!Text(thunkctx.function_name)
      /\ C!Text(Functions[thunkctx.function_id].filename)' =
            C!Text(thunkctx.file_name)
  BY <1>4, <1>5, <1>6
<1> QED BY <1>1, <1>2, <1>3, <1>7 DEF ThunkText, Decoding

\* The location is that of the function and the line.
LEMMA LocationDecodes ==
    ASSUME Decoding, SInv', Readable', Grows, C!AddLocation
    PROVE  InProgress' /\ ThunkText'
<1> DEFINE last == Samples[Len(Samples)]
           fid == thunkctx.function_id
<1>0. profile_proto \in ProfileType /\ thunkctx \in C!Thunk
  BY DEF Decoding, SInv, Types, C!TypeOK
<1>1. /\ sample' = sample /\ UNCHANGED <<function_ids, thunkctx>>
      /\ pc = "location" /\ pc' \in {"idle", "name"}
      /\ pc' = "idle" => C!IsLast
  BY DEF C!AddLocation
<1>2. /\ fid \in DOMAIN Functions
      /\ C!LocationIds = last /\ last \in Seq(C!Id)
      /\ Samples # <<>> /\ sample # NoStack /\ Len(last) < Len(sample)
  <2>1. fid \in DOMAIN Functions /\ Samples # <<>> /\ sample # NoStack
        /\ Len(last) < Len(sample)
    BY <1>1 DEF Decoding, SInv, Thunks, Place
  <2> QED BY <1>1, <2>1, FrameFacts, LastSample DEF Decoding, SInv
<1>3. PICK id \in C!Id :
        /\ Samples' = Extended(id)
        /\ id \in DOMAIN Locations'
        /\ Locations'[id].function_id = fid
        /\ Locations'[id].line = C!Frame.line
  <2>1. CASE \E l \in C!KnownLocations :
               /\ profile_proto' = C!WithLocation(l.id)
               /\ UNCHANGED <<location_pbs, loc_counter>>
    <3>1. PICK l \in location_pbs :
               /\ l.key = <<fid, C!Frame.line>>
               /\ profile_proto' = C!WithLocation(l.id)
      BY <2>1 DEF C!KnownLocations, C!SamePair, C!LocationKey
    <3>2. PICK i \in DOMAIN Locations :
               l = [key |-> <<Locations[i].function_id, Locations[i].line>>, id |-> i]
      BY DEF Decoding, SInv, LocationTable
    <3>3. /\ Locations[i].function_id = fid
          /\ Locations[i].line = C!Frame.line /\ l.id = i
      BY <3>1, <3>2
    <3>4. i \in C!Id
      BY ProfileTypes DEF Decoding, SInv, C!Id
    <3>5. Samples' = Extended(i)
      BY <1>0, <3>1, <3>3
      DEF C!WithLocation, Extended, Samples, ProfileType
    <3> QED BY <3>3, <3>4, <3>5 DEF Grows
  <2>2. CASE profile_proto' =
                  [C!WithLocation(loc_counter) EXCEPT !.location =
                     Append(@, [id |-> loc_counter,
                                function_id |-> thunkctx.function_id,
                                line |-> C!Frame.line])]
    <3> DEFINE new == [id |-> loc_counter,
                       function_id |-> thunkctx.function_id,
                       line |-> C!Frame.line]
    <3>1. Locations' = Append(Locations, new) /\ Samples' = Extended(loc_counter)
      BY <1>0, <2>2
      DEF C!WithLocation, Extended, Samples, Locations, ProfileType
    <3>2. new \in LocationMessage
      <4>1. C!Frame.line \in Nat
        BY <1>1, FrameFacts DEF Decoding, SInv
      <4>2. fid \in C!Id
        BY <1>2, ProfileTypes DEF Decoding, SInv, C!Id
      <4> QED BY <4>1, <4>2 DEF Decoding, SInv, Types, C!TypeOK, LocationMessage
    <3>3. new.function_id = fid /\ new.line = C!Frame.line
      OBVIOUS
    <3> HIDE DEF new
    <3>4. /\ Locations'[Len(Locations) + 1] = new
          /\ Len(Locations) + 1 \in DOMAIN Locations'
      BY <3>1, <3>2, ProfileTypes, Appended DEF Decoding, SInv
    <3>5. loc_counter = Len(Locations) + 1 /\ loc_counter \in C!Id
      BY DEF Decoding, SInv, LocationTable, Types, C!TypeOK
    <3> QED BY <3>1, <3>3, <3>4, <3>5
  <2> QED BY <2>1, <2>2 DEF C!AddLocation
<1>4. Dec(id)' = SeenFrame(C!Frame)
  <2>1. /\ Functions[fid].name \in Nat /\ Functions[fid].filename \in Nat
        /\ Functions[fid].name < strings_counter
        /\ Functions[fid].filename < strings_counter
    BY <1>2, ProfileTypes DEF Decoding, SInv, FunctionTable
  <2>2. \A n \in Nat : n < strings_counter => C!Text(n)' = C!Text(n)
    BY TextStays DEF Decoding
  <2>3. Functions'[fid] = Functions[fid] /\ fid' = fid
    BY <1>1, <1>2 DEF Grows
  <2>4. /\ C!Text(Functions[fid].name)' = C!Text(Functions[fid].name)
        /\ C!Text(Functions[fid].filename)' = C!Text(Functions[fid].filename)
    BY <2>1, <2>2, <2>3
  <2>5. /\ C!Text(Functions[fid].name) = Kept[C!Frame.name]
        /\ C!Text(Functions[fid].filename) = Kept[C!Frame.file]
    BY <1>1 DEF Decoding, ThunkText
  <2>6. /\ C!Text(Functions[Locations[id].function_id].name)' = Kept[C!Frame.name]
        /\ C!Text(Functions[Locations[id].function_id].filename)' =
              Kept[C!Frame.file]
    BY <1>3, <2>3, <2>4, <2>5
  <2> QED BY <1>3, <2>6 DEF Dec, SeenFrame
<1>5. /\ Len(Samples') = Len(Samples)
      /\ Samples'[Len(Samples')] = Append(last, id)
      /\ Len(Append(last, id)) = Len(last) + 1
      /\ DOMAIN Append(last, id) = DOMAIN last \union {Len(last) + 1}
      /\ Append(last, id)[Len(last) + 1] = id
      /\ \A j \in DOMAIN last : Append(last, id)[j] = last[j]
  BY <1>1, <1>3, ExtendedFacts DEF Decoding, SInv
<1>6. Samples' # <<>>
  <2>1. Len(Samples) \in DOMAIN Samples /\ DOMAIN Samples' = DOMAIN Samples
    BY <1>1, <1>2, <1>3, ExtendedFacts, LastSample DEF Decoding, SInv
  <2> QED BY <2>1
<1>7. /\ Len(last) + 1 <= Len(sample)
      /\ pc' = "idle" => Len(last) + 1 = Len(sample)
  <2>1. Len(last) \in Nat
    BY <1>2
  <2>2. Len(sample) \in Nat
    BY <1>2, StackLength DEF Decoding, SInv, Types, C!TypeOK
  <2> QED BY <1>1, <1>2, <2>1, <2>2 DEF C!IsLast
<1>8. ASSUME NEW j \in DOMAIN Append(last, id)
      PROVE  Dec(Append(last, id)[j])' = SeenFrame(sample[j])
  <2>1. CASE j = Len(last) + 1
    <3>1. (Append(last, id)[j])' = id
      BY <1>3, <1>5, <2>1
    <3>2. C!Frame = sample[j]
      BY <1>2, <2>1 DEF C!Frame
    <3> QED BY <1>4, <3>1, <3>2
  <2>2. CASE j \in DOMAIN last
    <3>1. last[j] \in DOMAIN Locations
      BY <1>2, <2>2, LastSample DEF Decoding
    <3>2. \A i \in DOMAIN Locations : Dec(i)' = Dec(i)
      BY DecodedStays DEF Decoding
    <3>3. Dec(last[j]) = SeenFrame(sample[j])
      BY <1>2, <2>2 DEF Decoding, InProgress
    <3> QED BY <1>5, <2>2, <3>1, <3>2, <3>3
  <2> QED BY <1>5, <2>1, <2>2
<1>9. InProgress'
  BY <1>1, <1>5, <1>6, <1>7, <1>8 DEF InProgress
<1>10. ThunkText'
  BY <1>1 DEF ThunkText
<1> QED BY <1>9, <1>10

-----------------------------------------------------------------------------
(* The steps                                                               *)

LEMMA SampleCallDecodes ==
    ASSUME Decoding, SInv', Readable', Grows,
           \/ \E stack \in C!Stacks : C!AddSample(stack)
           \/ C!SampleAdded
    PROVE  InProgress' /\ ThunkText'
<1>1. pc' \in {"idle", "name"}
  BY DEF C!AddSample, C!SampleAdded
<1>2. ThunkText'
  BY <1>1 DEF ThunkText
<1>3. CASE C!SampleAdded
  BY <1>2, <1>3 DEF C!SampleAdded, InProgress
<1>4. ASSUME NEW stack \in C!Stacks, C!AddSample(stack)
      PROVE  InProgress'
  <2>1. /\ sample' = stack /\ Samples' = Append(Samples, <<>>)
        /\ pc' = "idle" => stack = <<>>
    BY <1>4 DEF C!AddSample, Samples, Decoding, SInv, Types, ProfileType
  <2>2. <<>> \in Seq(C!Id) /\ Samples \in Seq(Seq(C!Id))
    BY ProfileTypes DEF Decoding, SInv
  <2>3. /\ Len(Samples') = Len(Samples) + 1 /\ Len(Samples) \in Nat
        /\ Samples'[Len(Samples) + 1] = <<>>
    BY <2>1, <2>2, Appended
  <2>4. Samples' # <<>> /\ Samples'[Len(Samples')] = <<>>
    BY <2>3
  <2>5. Len(stack) \in Nat /\ (stack = <<>> => Len(stack) = 0)
    BY StackLength
  <2>6. \A j \in DOMAIN Samples'[Len(Samples')] : FALSE
    BY <2>4
  <2> QED BY <2>1, <2>4, <2>5, <2>6 DEF InProgress
<1> QED BY <1>2, <1>3, <1>4

LEMMA DecodingStep ==
    ASSUME Decoding, SInv', Readable', [Next]_vars
    PROVE  InProgress' /\ ThunkText'
<1>1. Grows
  BY TablesGrow DEF Decoding
<1>2. CASE UNCHANGED serctx_vars
  <2>1. /\ sample' = sample /\ Samples' = Samples /\ Functions' = Functions
        /\ pc' = pc /\ thunkctx' = thunkctx
    BY <1>2 DEF serctx_vars, Samples, Functions
  <2>2. \A n : C!Text(n)' = C!Text(n)
    BY <1>2 DEF serctx_vars, C!Text, C!Entry
  <2>3. InProgress'
    BY <1>1, <2>1, SampleStays
  <2>4. C!Frame' = C!Frame
    BY <2>1, FrameStays
  <2> QED BY <2>1, <2>2, <2>3, <2>4 DEF Decoding, ThunkText
<1>3. CASE C!WriteStringTable
  <2>1. pc' = "written" /\ sample' = NoStack
    BY <1>3 DEF C!WriteStringTable
  <2> QED BY <2>1 DEF InProgress, ThunkText
<1>4. CASE C!AddSamples
  BY <1>1, <1>4, InternDecodes, FunctionDecodes, LocationDecodes,
     SampleCallDecodes
  DEF C!AddSamples
<1> QED
  BY <1>2, <1>3, <1>4
  DEF Next, AddSamples, Serialize, WriteStringTable, Compress, Unblock, Done,
      vars

LEMMA DecodingInit == Init => Decoding
<1> SUFFICES ASSUME Init PROVE Decoding
  OBVIOUS
<1>1. SInv /\ pc = "idle" /\ sample = NoStack
  BY InitSInv DEF Init, C!Init
<1>2. Readable
  BY <1>1, UnwrittenIsReadable DEF UnwrittenReadable
<1> QED BY <1>1, <1>2 DEF Decoding, InProgress, ThunkText

LEMMA Decodes == Spec => []Decoding
<1>1. ASSUME Decoding, SInv', UnwrittenReadable', [Next]_vars
      PROVE  Decoding'
  <2>1. Readable'
    BY <1>1, ReadableStep DEF Decoding
  <2> QED BY <1>1, <2>1, DecodingStep DEF Decoding
<1> QED
  BY <1>1, DecodingInit, UnwrittenIsReadable, Interned, PTL DEF Spec

-----------------------------------------------------------------------------
(* The profile is the log of the samples                                   *)

\* The samples that are whole.
Whole == IF sample = NoStack THEN Samples ELSE C!Front(Samples)

ReadProfile ==
    [i \in DOMAIN Whole |-> [j \in DOMAIN Whole[i] |-> Dec(Whole[i][j])]]

LEMMA FrontFacts ==
    ASSUME NEW El, NEW s \in Seq(El), s # <<>>
    PROVE  /\ C!Front(s) \in Seq(El)
           /\ Len(s) \in Nat \ {0}
           /\ DOMAIN C!Front(s) = 1 .. Len(s) - 1
           /\ Len(C!Front(s)) = Len(s) - 1
           /\ \A i \in 1 .. Len(s) - 1 : C!Front(s)[i] = s[i] /\ i \in DOMAIN s
<1>1. C!Front(s) = SubSeq(s, 1, Len(s) - 1)
  BY DEF C!Front
<1>2. Len(s) \in Nat \ {0} /\ DOMAIN s = 1 .. Len(s)
  BY EmptySeq
<1>3. \A i \in 1 .. Len(s) - 1 : s[i] \in El
  BY <1>2
<1>4. /\ SubSeq(s, 1, Len(s) - 1) \in Seq(El)
      /\ Len(SubSeq(s, 1, Len(s) - 1)) = Len(s) - 1
      /\ \A i \in 1 .. Len(s) - 1 : SubSeq(s, 1, Len(s) - 1)[i] = s[i]
  <2> DEFINE n == Len(s) - 1
  <2>1. n \in Int /\ n >= 0
    BY <1>2
  <2>2. /\ SubSeq(s, 1, n) \in Seq(El)
        /\ Len(SubSeq(s, 1, n)) = IF 1 <= n THEN n - 1 + 1 ELSE 0
        /\ \A i \in 1 .. n - 1 + 1 : SubSeq(s, 1, n)[i] = s[1 + i - 1]
    BY <1>3, <2>1, SubSeqProperties
  <2> QED BY <1>2, <2>2
<1>5. DOMAIN SubSeq(s, 1, Len(s) - 1) = 1 .. Len(s) - 1
  BY <1>4
<1> QED BY <1>1, <1>2, <1>4, <1>5

LEMMA SameFront ==
    ASSUME NEW El, NEW s \in Seq(El), NEW t \in Seq(El), s # <<>>,
           Len(t) = Len(s), \A i \in DOMAIN s \ {Len(s)} : t[i] = s[i]
    PROVE  C!Front(t) = C!Front(s)
<1>1. t # <<>>
  OBVIOUS
<1> DEFINE a == C!Front(s)  b == C!Front(t)
<1>2. a \in Seq(El) /\ b \in Seq(El) /\ Len(a) = Len(s) - 1 /\ Len(b) = Len(s) - 1
  BY <1>1, FrontFacts
<1>3. \A i \in 1 .. Len(s) - 1 : a[i] = b[i]
  <2>1. \A i \in 1 .. Len(s) - 1 : i \in DOMAIN s \ {Len(s)}
    OBVIOUS
  <2>2. \A i \in 1 .. Len(s) - 1 : t[i] = s[i]
    BY <2>1
  <2> QED BY <1>1, <2>2, FrontFacts
<1> HIDE DEF a, b
<1>4. a = b
  BY <1>2, <1>3
<1> QED BY <1>4 DEF a, b
LEMMA WholeFacts ==
    ASSUME Decoding
    PROVE  \A i \in DOMAIN Whole :
              /\ i \in DOMAIN Samples /\ Whole[i] = Samples[i]
              /\ \A j \in DOMAIN Whole[i] : Whole[i][j] \in DOMAIN Locations
<1>1. Samples \in Seq(Seq(C!Id)) /\ (sample # NoStack => Samples # <<>>)
  BY ProfileTypes DEF Decoding, SInv, InProgress
<1>2. \A i \in DOMAIN Whole : i \in DOMAIN Samples /\ Whole[i] = Samples[i]
  BY <1>1, FrontFacts DEF Whole
<1> QED BY <1>2 DEF Decoding, SInv, Stored

ProfileIsRead == C!Profile = ReadProfile

LEMMA ReadingTheProfile == Decoding => ProfileIsRead
<1> SUFFICES ASSUME Decoding PROVE C!Profile = ReadProfile
  BY DEF ProfileIsRead
<1>1. C!Profile =
        [i \in DOMAIN Whole |-> [j \in DOMAIN Whole[i] |-> C!Decoded(Whole[i][j])]]
  BY DEF C!Profile, Whole, Samples
<1>2. \A i \in DOMAIN Whole : \A j \in DOMAIN Whole[i] :
          C!Decoded(Whole[i][j]) = Dec(Whole[i][j])
  BY WholeFacts, LocationsDecode DEF Decoding, Decodable
<1>3. \A i \in DOMAIN Whole :
          [j \in DOMAIN Whole[i] |-> C!Decoded(Whole[i][j])] =
          [j \in DOMAIN Whole[i] |-> Dec(Whole[i][j])]
  BY <1>2
<1> QED BY <1>1, <1>3 DEF ReadProfile

\* What is in the profile does not change.
LEMMA ReadProfileStays ==
    ASSUME Decoding, Readable', Grows, Whole' = Whole
    PROVE  ReadProfile' = ReadProfile
<1>1. \A id \in DOMAIN Locations : Dec(id)' = Dec(id)
  BY DecodedStays DEF Decoding
<1>2. \A i \in DOMAIN Whole : \A j \in DOMAIN Whole[i] :
          Dec(Whole[i][j])' = Dec(Whole[i][j])
  BY <1>1, WholeFacts
<1>3. \A i \in DOMAIN Whole :
          [j \in DOMAIN Whole[i] |-> Dec(Whole[i][j])]' =
          [j \in DOMAIN Whole[i] |-> Dec(Whole[i][j])]
  BY <1>2
<1> QED BY <1>3 DEF ReadProfile

LEMMA LogStep ==
    ASSUME Decoding, Decoding', ProfileIsRead, ProfileIsRead', [Next]_vars
    PROVE  [C!Log!Next]_<<sample, C!Profile>>
<1>1. Grows
  BY TablesGrow DEF Decoding
<1>2. C!Profile = ReadProfile /\ C!Profile' = ReadProfile'
  BY DEF ProfileIsRead
<1>3. Samples \in Seq(Seq(C!Id)) /\ profile_proto \in ProfileType
  BY ProfileTypes DEF Decoding, SInv, Types
\* Steps of a call are none of the log.
<1>4. ASSUME sample' = sample, Whole' = Whole
      PROVE  UNCHANGED <<sample, C!Profile>>
  BY <1>1, <1>2, <1>4, ReadProfileStays DEF Decoding
<1>5. ASSUME sample' = sample, Samples' = Samples
      PROVE  UNCHANGED <<sample, C!Profile>>
  BY <1>4, <1>5 DEF Whole
<1>6. CASE UNCHANGED serctx_vars
  BY <1>5, <1>6 DEF serctx_vars, Samples
<1>7. CASE C!InternName \/ C!InternFile
  BY <1>5, <1>7 DEF C!InternName, C!InternFile, Samples
<1>8. CASE C!AddFunction
  BY <1>3, <1>5, <1>8 DEF C!AddFunction, Samples, ProfileType
<1>9. CASE C!WriteStringTable
  BY <1>3, <1>5, <1>9 DEF C!WriteStringTable, Samples, ProfileType
<1>10. CASE C!AddLocation
  <2>1. pc = "location" /\ sample' = sample /\ sample # NoStack /\ Samples # <<>>
    BY <1>10 DEF C!AddLocation, Decoding, SInv, Place
  <2>2. PICK id \in C!Id : Samples' = Extended(id)
    <3>1. ASSUME NEW id, profile_proto' = C!WithLocation(id)
          PROVE  Samples' = Extended(id)
      BY <1>3, <3>1 DEF C!WithLocation, Extended, Samples, ProfileType
    <3>2. ASSUME NEW id, NEW new,
                 profile_proto' = [C!WithLocation(id) EXCEPT !.location = Append(@, new)]
          PROVE  Samples' = Extended(id)
      BY <1>3, <3>2 DEF C!WithLocation, Extended, Samples, ProfileType
    <3>3. loc_counter \in C!Id /\ \A l \in C!KnownLocations : l.id \in C!Id
      BY DEF Decoding, SInv, Types, C!TypeOK, C!KnownLocations
    <3> QED BY <1>10, <3>1, <3>2, <3>3 DEF C!AddLocation
  <2>3. /\ Samples' \in Seq(Seq(C!Id)) /\ Len(Samples') = Len(Samples)
        /\ \A n \in DOMAIN Samples \ {Len(Samples)} : Samples'[n] = Samples[n]
        /\ DOMAIN Samples' = DOMAIN Samples
    BY <2>1, <2>2, ExtendedFacts DEF Decoding, SInv
  <2>4. C!Front(Samples') = C!Front(Samples)
    BY <1>3, <2>1, <2>3, SameFront
  <2>5. Whole' = Whole
    BY <2>1, <2>4 DEF Whole
  <2> QED BY <1>4, <2>1, <2>5
\* The call of add_sample.
<1>11. ASSUME NEW stack \in C!Stacks, C!AddSample(stack)
       PROVE  C!Log!Next
  <2>1. /\ sample = NoStack /\ sample' = stack /\ stack # NoStack
        /\ Samples' = Append(Samples, <<>>)
    BY <1>3, <1>11, Constants
    DEF C!AddSample, Samples, ProfileType, Constants, C!NoStackIsNone
  <2>2. C!Front(Append(Samples, <<>>)) = Samples
    <3>1. <<>> \in Seq(C!Id)
      OBVIOUS
    <3> QED BY <1>3, <3>1, Appended, FrontFacts DEF C!Front
  <2>3. Whole' = Whole
    BY <2>1, <2>2 DEF Whole
  <2>4. C!Profile' = C!Profile
    BY <1>1, <1>2, <2>3, ReadProfileStays DEF Decoding
  <2> QED BY <2>1, <2>4 DEF C!Log!Next, C!Log!Call
\* Its return.
<1>12. CASE C!SampleAdded
  <2> DEFINE last == Samples[Len(Samples)]
             row(i) == [j \in DOMAIN Samples[i] |-> Dec(Samples[i][j])]
  <2>1. /\ sample # NoStack /\ sample' = NoStack /\ Samples' = Samples
        /\ pc = "idle" /\ Samples # <<>>
    BY <1>12 DEF C!SampleAdded, Samples, Decoding, InProgress
  <2>2. ReadProfile' = [i \in DOMAIN Samples |-> row(i)]
    <3>1. Whole' = Samples
      BY <2>1 DEF Whole
    <3>2. \A id \in DOMAIN Locations : Dec(id)' = Dec(id)
      BY <1>1, DecodedStays DEF Decoding
    <3>3. \A i \in DOMAIN Samples : \A j \in DOMAIN Samples[i] :
              Samples[i][j] \in DOMAIN Locations
      BY DEF Decoding, SInv, Stored
    <3> QED BY <2>1, <3>1, <3>2, <3>3 DEF ReadProfile
  <2>3. ReadProfile = [i \in 1 .. Len(Samples) - 1 |-> row(i)]
    <3>1. /\ DOMAIN Whole = 1 .. Len(Samples) - 1
          /\ \A i \in 1 .. Len(Samples) - 1 : Whole[i] = Samples[i]
      BY <1>3, <2>1, FrontFacts DEF Whole
    <3> QED BY <3>1 DEF ReadProfile
  <2>4. row(Len(Samples)) = C!SeenOf(sample)
    <3>1. /\ last \in Seq(C!Id) /\ Len(last) = Len(sample)
          /\ \A j \in DOMAIN last : Dec(last[j]) = SeenFrame(sample[j])
      BY <2>1, LastSample DEF Decoding, InProgress
    <3>2. sample \in C!Stacks
      BY <2>1 DEF Decoding, SInv, Types, C!TypeOK
    <3>3. DOMAIN last = DOMAIN sample
      BY <3>1, <3>2, StackLength
    <3> QED BY <3>1, <3>3 DEF C!SeenOf, SeenFrame
  <2>5. Len(Samples) \in Nat \ {0} /\ DOMAIN Samples = 1 .. Len(Samples)
    BY <1>3, <2>1
  <2> HIDE DEF row
  <2>6. ReadProfile' = Append(ReadProfile, C!SeenOf(sample))
    BY <2>2, <2>3, <2>4, <2>5
  <2> QED BY <1>2, <2>1, <2>6 DEF C!Log!Next, C!Log!Return
<1> QED
  BY <1>6, <1>7, <1>8, <1>9, <1>10, <1>11, <1>12
  DEF Next, AddSamples, C!AddSamples, Serialize, WriteStringTable, Compress,
      Unblock, Done, vars

LEMMA LogInit == Init => C!Log!Init
<1> SUFFICES ASSUME Init PROVE C!Log!Init
  OBVIOUS
<1>1. sample = NoStack /\ profile_proto.sample = <<>>
  BY DEF Init, C!Init
<1>2. C!Profile = <<>>
  BY <1>1 DEF C!Profile
<1> QED BY <1>1, <1>2 DEF C!Log!Init

\* However many names, functions and locations the samples share, and through
\* the writing of the string table and the compression, what the profile
\* decodes to is the log of the backtraces that were added, in their order.
THEOREM ProfileIsLog == Spec => KeepsEverySample
<1>1. ASSUME Decoding, Decoding', ProfileIsRead, ProfileIsRead', [Next]_vars
      PROVE  [C!Log!Next]_<<sample, C!Profile>>
  BY <1>1, LogStep
<1>2. Spec => C!Log!Init /\ [][C!Log!Next]_<<sample, C!Profile>>
  BY <1>1, LogInit, Decodes, ReadingTheProfile, PTL DEF Spec
<1> QED BY <1>2 DEF KeepsEverySample, C!KeepsEverySample, C!Log!Spec

=============================================================================

------------------------------ MODULE MCInputs ------------------------------
\* What comes in from outside: the bytes a client sends, and the names that go
\* from the command line to an index and come back in a URI.  They share no
\* state, so a behaviour is of the one or of the other.
EXTENDS ClientBytes, Naming

VARIABLE part

MCLetters == {"e", "2", "-", " ", "p", "/", ".", "%", "?", "m", "1", "m3u8"}
InPrefixes == MCLetters \ {"m", "1", "m3u8"}
MCPrefixes ==
  UNION {[1 .. n -> InPrefixes] : n \in 0 .. 2}
    \cup {<<"%", "2", "e">>, <<"e", "/", "p">>, <<"e", "/", "/", "p">>,
          [i \in 1 .. 8 |-> "e"], <<"e", "e", "e", "e", "e", "-", "p">>}
MCFiles == {<<"e", ".", "m3u8">>, <<"e">>, <<"-", "m", ".", "2">>}
MCHosts == {<<"1", ".", "2">>, <<"2">>, <<"e">>}
MCCounts == {<<"2">>, <<"-", "1">>}

SomeFrames ==
  CHOOSE f \in [1 .. MaxFrames -> [len : PayloadLens, masked : BOOLEAN]] : TRUE

\* Which frames there are matters only to a websocket.
InputsInit ==
  /\ part \in {"bytes", "naming"}
  /\ BytesInit
  /\ speaks = "http" => frames = SomeFrames
  /\ part = "naming" => speaks = "http"
  /\ NamingInit

InputsNext ==
  \/ part = "bytes" /\ BytesNext /\ UNCHANGED <<part, namingVars>>
  \/ part = "naming" /\ NamingNext /\ UNCHANGED <<part, bytesVars>>

InputsSpec ==
  InputsInit /\ [][InputsNext]_<<part, bytesVars, namingVars>>

\* Every variable of the readers and of the names is of its type.
InputsTypeOK == ReaderTypeOK /\ FrameTypeOK /\ NamingTypeOK
=============================================================================

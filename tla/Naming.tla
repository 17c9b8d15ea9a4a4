------------------------------- MODULE Naming -------------------------------
(***************************************************************************)
(* The way of names and addresses through the program.  main prints the    *)
(* options of its command line into one string, istb_m3u8_parse_options    *)
(* takes that string apart again, write_index_file puts the parts into the *)
(* lines of the index, a client asks for what a line says, mongoose        *)
(* decodes and cleans the URI, and istb_m3u8_api_open compares what is     *)
(* left with the names in the queue.                                       *)
(*                                                                         *)
(* A text is a sequence of characters.  "http" (for http://), "m3u8" and   *)
(* "ts" count as one, "e" and "x" stand for ordinary letters, numbers are  *)
(* written in Radix.  Backslashes, which mongoose takes for slashes, and   *)
(* control characters are left out.                                        *)
(***************************************************************************)
EXTENDS Integers, SequencesExt

CONSTANTS
  Letters,       \* characters of the texts main is given
  HostTexts,     \* texts before the colon of -o
  Ports,         \* numbers after it, or left in the field when it is absent
  PrefixTexts,   \* texts given with -p
  FileTexts,     \* texts given with -m
  CountTexts,    \* texts of the numbers given with -n, also used for -d
  Radix,         \* 10
  PortRange,     \* 2^16
  BufLen,        \* sizeof(buf) in main
  Window,        \* segments in the queue
  MaxSegments    \* bound: segments made

VARIABLES
  phase,         \* how far the program, then the request, has come
  opts,          \* io_options_t: what main was given
  options,       \* options_t: what the segmenter makes of it
  listening,     \* the port the server listens on, 0: any
  last,          \* the newest segment in the queue
  wanted,        \* what the client asks for: a segment, or 0 for the index
  uri,           \* conn->uri
  reply          \* what istb_m3u8_api_open returns: that too, or None

namingVars == <<phase, opts, options, listening, last, wanted, uri, reply>>

-----------------------------------------------------------------------------
(* Texts.                                                                  *)

Cut(s, n) == SubSeq(s, 1, Min({n, Len(s)}))
From(s, i) == SubSeq(s, i, Len(s))
Has(s, t) == \E i \in DOMAIN s : IsPrefix(t, From(s, i))

\* strstr(s + i - 1, t): where t comes first, from i on; past the end if never.
Find(s, t, i) ==
  CHOOSE j \in i .. Len(s) + 1 :
    /\ j = Len(s) + 1 \/ IsPrefix(t, From(s, j))
    /\ \A k \in i .. j - 1 : ~IsPrefix(t, From(s, k))

Space == " "
Colon == ":"
DigitChars == <<"0", "1", "2", "3", "4", "5", "6", "7", "8", "9">>

Digits(n) ==                                                          \* %u
  LET text[k \in 0 .. n] ==
        (IF k < Radix THEN <<>> ELSE text[k \div Radix])
          \o <<DigitChars[(k % Radix) + 1]>>
  IN  text[n]

\* What %d prints: digits, after a minus sign or not.
IsDigits(s) == s # <<>> /\ ToSet(s) \subseteq ToSet(DigitChars)
IsNumber(s) ==
  \/ IsDigits(s)
  \/ s # <<>> /\ s[1] = "-" /\ IsDigits(From(s, 2))

ASSUME NamingAssumption ==
  /\ HostTexts \cup PrefixTexts \cup FileTexts \cup CountTexts \subseteq Seq(Letters)
  /\ \A n \in CountTexts : IsNumber(n)
  /\ Radix \in 2 .. 10
  /\ PortRange \in Nat \ {0} /\ Ports \subseteq Nat
  /\ BufLen \in Nat \ {0}
  /\ Window \in Nat \ {0} /\ MaxSegments \in Nat \ {0}

None == -1
Fields == {"n", "d", "p", "m", "u"}
Empty == [o \in Fields |-> <<>>]

NamingInit ==
  /\ phase = "start"
  /\ opts = [host |-> <<>>, port |-> 0, n |-> <<>>, d |-> <<>>, p |-> <<>>,
             m |-> <<>>, u |-> <<>>]
  /\ options = Empty
  /\ listening = 0
  /\ last = 0
  /\ wanted = 0
  /\ uri = <<>>
  /\ reply = None

-----------------------------------------------------------------------------
(* main: options to one string, and the segmenter: back again.             *)

UrlPrefix(host, port) ==
  <<"http">> \o host \o <<Colon>> \o Digits(port) \o <<"/">>

\* Without -o, -m or -p a pointer is what the stack holds: refused if null,
\* otherwise undefined.  A number that is missing may be any.
MissingOption ==
  /\ phase = "start"
  /\ phase' \in {"refused", "undefined"}
  /\ UNCHANGED <<opts, options, listening, last, wanted, uri, reply>>

\* getopt, the checks, and the prefix of the URLs.
GetOptions ==
  /\ phase = "start"
  /\ \E host \in HostTexts, port \in Ports, p \in PrefixTexts, m \in FileTexts,
        n \in CountTexts, d \in CountTexts :
       opts' = [host |-> host, port |-> port, n |-> n, d |-> d, p |-> p,
                m |-> m, u |-> Cut(UrlPrefix(host, port), BufLen - 1)]
  /\ phase' = "given"
  /\ UNCHANGED <<options, listening, last, wanted, uri, reply>>

\* What snprintf would print with room enough.
WholeString ==
  <<"-", "n", Space>> \o opts.n \o <<Space, "-", "d", Space>> \o opts.d
    \o <<Space, "-", "p", Space>> \o opts.p \o <<Space, "-", "m", Space>> \o opts.m
    \o <<Space, "-", "u", Space>> \o opts.u
OptionString == Cut(WholeString, BufLen - 1)

\* Past all of the characters chars from i on.
Skip(s, i, chars) ==
  CHOOSE j \in i .. Len(s) + 1 :
    /\ j = Len(s) + 1 \/ s[j] \notin chars
    /\ \A k \in i .. j - 1 : s[k] \in chars

\* strtol from i on: past the number, or i if there is none.
EndOfNumber(s, i) ==
  LET j == Skip(s, i, {Space})
      k == IF j <= Len(s) /\ s[j] = "-" THEN j + 1 ELSE j
      e == Skip(s, k, ToSet(DigitChars))
  IN  IF e = k THEN i ELSE e

\* strncpy over what the field held, without a terminator.
Over(old, new) == new \o From(old, Len(new) + 1)

\* Mutant of EndOfText: a text goes up to the next dash.
EndOfTextDash(s, i) == Find(s, <<"-">>, i)
EndOfText(s, i) == Find(s, <<Space, "-">>, i)

\* The value behind the letter of a dash.
ValueBegin(s, dash) == Skip(s, dash + 2, {Space})
ValueEnd(s, dash) ==
  IF s[dash + 1] \in {"p", "m", "u"} THEN EndOfText(s, ValueBegin(s, dash))
  ELSE EndOfNumber(s, dash + 2)
Value(s, dash) == SubSeq(s, ValueBegin(s, dash), ValueEnd(s, dash) - 1)

\* The loop of istb_m3u8_parse_options: the pairs of letter and value from i
\* on.  Where the string ends behind a dash it reads past the end: "lost".
Pairs(s) ==
  LET from[i \in 1 .. Len(s) + 1] ==
        LET dash == Find(s, <<"-">>, i)
        IN  IF dash = Len(s) + 1 THEN <<>>
            ELSE IF dash = Len(s) THEN <<<<"lost", <<>>>>>>
            ELSE IF s[dash + 1] \in Fields
            THEN <<<<s[dash + 1], Value(s, dash)>>>> \o from[ValueEnd(s, dash)]
            ELSE from[dash + 2]
  IN  from[1]

\* A number is assigned, a text is copied over the one before.
Assign(fields, pair) ==
  [fields EXCEPT ![pair[1]] =
     IF pair[1] \in {"n", "d"} THEN pair[2] ELSE Over(@, pair[2])]
Assigned(pairs) ==
  LET upto[i \in 0 .. Len(pairs)] ==
        IF i = 0 THEN Empty ELSE Assign(upto[i - 1], pairs[i])
  IN  upto[Len(pairs)]

\* istb_m3u8_start, and istb_m3u8_parse_options in the thread.
ParseOptions ==
  /\ phase = "given"
  /\ LET pairs == Pairs(OptionString) IN
     \/ /\ \E i \in DOMAIN pairs : pairs[i][1] = "lost"
        /\ phase' = "lost"
        /\ UNCHANGED options
     \/ /\ \A i \in DOMAIN pairs : pairs[i][1] # "lost"
        /\ phase' = "parsed"
        /\ options' = Assigned(pairs)
  /\ UNCHANGED <<opts, listening, last, wanted, uri, reply>>

-----------------------------------------------------------------------------
(* The server's address: mg_set_option("listening_port").                  *)

\* strtol, and %u of sscanf, on digits.
DigitOf(char) == CHOOSE d \in 0 .. 9 : DigitChars[d + 1] = char
NumberOf(text) ==
  LET upto[i \in 0 .. Len(text)] ==
        IF i = 0 THEN 0 ELSE upto[i - 1] * Radix + DigitOf(text[i])
  IN  upto[Len(text)]

\* parse_port_string on "host:port", whose result is not looked at: a dotted
\* address and a port, or a number, which is taken for the port, or a name.
Numeric(host) == host # <<>> /\ host[1] \in ToSet(DigitChars)
Dotted(host) == Numeric(host) /\ Contains(host, ".")
ServerPort(host, port) ==
  IF Dotted(host) THEN port % PortRange
  ELSE IF Numeric(host)
  THEN NumberOf(SubSeq(host, 1, EndOfNumber(host, 1) - 1)) % PortRange
  ELSE 0

StartServer ==
  /\ phase = "parsed"
  /\ listening' = ServerPort(opts.host, opts.port)
  /\ last' = 1
  /\ phase' = "serving"
  /\ UNCHANGED <<opts, options, wanted, uri, reply>>

-----------------------------------------------------------------------------
(* Names in the queue, in the index, and in a request.                     *)

\* Mutant of Name: nothing follows the number.
NameBare(i) == options.p \o <<"-">> \o Digits(i)
Name(i) == options.p \o <<"-">> \o Digits(i) \o <<".", "ts">>

First == IF last > Window THEN last - Window + 1 ELSE 1
Queue == First .. last

\* A rotation; it may come at any time in a request.
Rotate ==
  /\ phase \in {"serving", "sent", "cleaned"}
  /\ last < MaxSegments
  /\ last' = last + 1
  /\ UNCHANGED <<phase, opts, options, listening, wanted, uri, reply>>

\* The path of a URL: from the slash that ends the host, if one does.
PathOf(url) == From(url, Find(url, <<"/">>, 1))

\* A client asks for the index, or for what a line of the index names.
Request ==
  /\ phase = "serving"
  /\ \E i \in {0} \cup Queue :
       /\ wanted' = i
       /\ uri' = IF i = 0 THEN <<"/">> \o opts.m
                          ELSE PathOf(options.u \o Name(i))
  /\ phase' = "sent"
  /\ UNCHANGED <<opts, options, listening, last, reply>>

\* mg_url_decode; what is no dot is some other character.
Decoded(s) ==
  LET hex == {"0", "1", "2", "e"}
      from[i \in 1 .. Len(s) + 3] ==
        IF i > Len(s) THEN <<>>
        ELSE IF s[i] = "%" /\ i + 2 <= Len(s) /\ {s[i + 1], s[i + 2]} \subseteq hex
        THEN <<IF s[i + 1] = "2" /\ s[i + 2] = "e" THEN "." ELSE "x">> \o from[i + 3]
        ELSE <<s[i]>> \o from[i + 1]
  IN  from[1]

\* remove_double_dots_and_double_slashes: after a slash, slashes and double
\* dots are passed over.
PastSlashes(s, i) ==
  LET past[j \in 1 .. Len(s) + 1] ==
        IF j > Len(s) THEN j
        ELSE IF s[j] = "/" THEN past[j + 1]
        ELSE IF IsPrefix(<<".", ".">>, From(s, j)) THEN past[j + 2]
        ELSE j
  IN  past[i]
Cleaned(s) ==
  LET from[i \in 1 .. Len(s) + 1] ==
        IF i > Len(s) THEN <<>>
        ELSE <<s[i]>> \o from[IF s[i] = "/" THEN PastSlashes(s, i + 1) ELSE i + 1]
  IN  from[1]

\* parse_http_message and is_valid_uri: the URI ends at a space, and what
\* follows is no version then; a query is cut off; the path is cleaned.
ParseUri ==
  /\ phase = "sent"
  /\ LET path == SubSeq(uri, 1, Find(uri, <<"?">>, 1) - 1) IN
     \/ /\ Contains(uri, Space) \/ ~IsPrefix(<<"/">>, Decoded(path))
        /\ phase' = "refused"
        /\ UNCHANGED uri
     \/ /\ ~Contains(uri, Space) /\ IsPrefix(<<"/">>, Decoded(path))
        /\ phase' = "cleaned"
        /\ uri' = Cleaned(Decoded(path))
  /\ UNCHANGED <<opts, options, listening, last, wanted, reply>>

\* What follows the last dot.
Suffix(s) == From(s, SelectLastInSeq(s, LAMBDA char : char = ".") + 1)

\* user_defined_requst and istb_m3u8_api_open: without a dot a null pointer
\* is followed; names are compared as far as the one asked for goes.
Lookup ==
  /\ phase = "cleaned"
  /\ LET name == From(uri, 2)
         matches == {i \in Queue : IsPrefix(name, Name(i))}
     IN \/ ~Contains(name, ".") /\ phase' = "undefined" /\ UNCHANGED reply
        \/ /\ Contains(name, ".")
           /\ phase' = "answered"
           /\ reply' = IF IsPrefix(<<"m3u8">>, Suffix(name)) THEN 0
                       ELSE IF matches = {} THEN None
                       ELSE CHOOSE i \in matches : \A j \in matches : i <= j
  /\ UNCHANGED <<opts, options, listening, last, wanted, uri>>

NamingNext ==
  \/ MissingOption \/ GetOptions \/ ParseOptions \/ StartServer
  \/ Rotate \/ Request \/ ParseUri \/ Lookup
NamingSpec == NamingInit /\ [][NamingNext]_namingVars

-----------------------------------------------------------------------------
(* Properties.                                                             *)

NamingTypeOK ==
  /\ phase \in {"start", "refused", "undefined", "lost", "given", "parsed",
                "serving", "sent", "cleaned", "answered"}
  /\ DOMAIN options = Fields
  /\ listening \in 0 .. PortRange - 1
  /\ last \in 0 .. MaxSegments /\ wanted \in 0 .. MaxSegments
  /\ reply = None \/ reply \in 0 .. MaxSegments

\* A value that the option string can carry.
Plain(v) == v # <<>> /\ v[1] # Space /\ ~Has(v, <<Space, "-">>)
AllPlain == Plain(opts.p) /\ Plain(opts.m) /\ Plain(opts.u)
Fits == Len(WholeString) < BufLen

\* Whatever dashes, letters and spaces plain values hold, the segmenter gets
\* each as main was given it; where the array is too short for all of them
\* it gets less of them, and of what follows one at most the space.
OptionsArrive ==
  AllPlain =>
    /\ phase \in {"parsed", "serving"} =>
         \A o \in Fields :
            /\ IsPrefix(options[o], opts[o] \o <<Space>>)
            /\ Fits => options[o] = opts[o]
    /\ phase = "lost" => ~Fits

\* A prefix that no step on the way of a URI changes.
PlainPath(p) ==
  /\ \A c \in {"?", "%", Space} : ~Contains(p, c)
  /\ ~Has(<<"/">> \o p, <<"/", "/">>) /\ ~Has(<<"/">> \o p, <<"/", ".", ".">>)

\* Who follows a line of the index comes to the server, and gets that very
\* segment or, when it has left the queue meanwhile, nothing; never another
\* one, though names are compared as prefixes.
AdvertisedIsFound ==
  AllPlain /\ Fits /\ PlainPath(opts.p) /\ ~Contains(opts.host, "/") =>
    /\ phase = "answered" /\ wanted # 0 =>
         reply = IF wanted \in Queue THEN wanted ELSE None
    /\ phase = "answered" /\ wanted = 0 /\ PlainPath(opts.m) /\ Contains(opts.m, ".")
         => (reply = 0 <=> IsPrefix(<<"m3u8">>, Suffix(opts.m)))
    /\ phase = "serving" /\ Dotted(opts.host) /\ opts.port \in 1 .. PortRange - 1
         => options.u = UrlPrefix(opts.host, listening)
=============================================================================

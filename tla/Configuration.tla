--------------------------- MODULE Configuration ---------------------------
(***************************************************************************)
(* Start-up of the program up to its configuration: the choice of the file *)
(* (CMainFunctions::parseParams), the constructors of the configuration    *)
(* and the reader of the XML file (CXMLParser).                            *)
(*                                                                         *)
(* The reader takes one token after the other and writes fields at once,   *)
(* so that what an element means depends on those before it: base elements *)
(* are copied into later ones, moveDetectBase overwrites what was given    *)
(* earlier, and network inputs are kept back to the end of their section.  *)
(*                                                                         *)
(* The value of an attribute is the position of the element that gave it,  *)
(* Default, or Unset: what the constructor left, for most fields an        *)
(* indeterminate number.  Attributes that are always handled alike are one *)
(* attribute here ("common" of an input stands for nine).                  *)
(***************************************************************************)
EXTENDS Integers, Sequences, FiniteSets, FiniteSetsExt, Functions

CONSTANTS
  Vocabularies,   \* sets of start tags [name, has, count]: a document uses those of one
  Options,        \* the command lines: sets of the options of Option
  MaxElements     \* bound: start tags read

\* The detectors of CMoveDetectConfig; two of them have a HistoryLength.
Subtractors == {"movedetectBackgroundSubtractorTest", "movedetectBackgroundSubtractorTestColor"}
Movers == {"moveDetect", "moveDetectColor", "moveDetectBitwiseAnd"} \cup Subtractors
\* Elements whose attributes are all read with PARSE into a structure of their own.
Plain == {"PHash", "faceDetect", "connection", "secure", "DB", "MJPEGServer", "debugImg",
          "AlgoConfing", "runExternalCommandsOnStart"}
\* Elements that append entries to a list; a Pattern only inside its section.
Listed == {"Condition", "Serial", "WebDownloader", "Pattern"}
Notifiers == {"Telegram", "AlertSound", "FinalVideo", "smtp"}
LocalInputs == {"CameraInput", "FileInput"}

\* The elements that open a section, with those read inside it.
Children == [Input |-> LocalInputs \cup {"NetInput"}, CommonAlert |-> Notifiers,
             Commands |-> {"Command"}, Patterns |-> {"Pattern"}]
Sections == DOMAIN Children

Option == {"debugMode", "noSend", "noAlgThread"}

Elements == UNION Vocabularies

ASSUME ElementsAssumption ==
  /\ \A e \in Elements : DOMAIN e = {"name", "has", "count"} /\ e.count \in Nat
  /\ Options \subseteq SUBSET Option
  /\ MaxElements \in Nat

Default == 0
Unset == -1
Off == -2
Null == [own |-> Unset, alert |-> Unset, list |-> <<>>]   \* no such element: a null pointer

\* The fields of CConfig.
Fields == {"mInputList", "cascades", "mCommandMap"} \cup Listed \cup Notifiers \cup Plain

VARIABLES
  args,        \* CArgumentConfig: the options given
  outcome,     \* of parseParams
  document,    \* history: the start tags read, with their position and section
  section,     \* the loop the reader is in: 0, or the position of the section's start tag
  broken,      \* the document is malformed or ends here: every further token is Invalid
  configBase, baseAlertConfig,   \* locals of parseXMLFromFile
  inputUrlList,                  \* local of parseInput
  config, algoConfig             \* CConfig, CAlgoConfig

reader == <<document, section, broken>>
locals == <<configBase, baseAlertConfig, inputUrlList>>
readerVars == <<args, outcome, reader, locals, config, algoConfig>>

-----------------------------------------------------------------------------
(* The macros PARSE and PARSE_IF_NOT_EXIST for attribute a of element e, and split(";"). *)

Parse(e, a) == IF a \in e.has THEN e.at ELSE Default
ParseIfNotExist(old, e, a) == IF a \in e.has THEN e.at ELSE old
Split(e) == [k \in 1..e.count |-> <<e.at, k>>]

-----------------------------------------------------------------------------
(* Elements of a section. *)

InputBase == {"common", "TimeOut", "FrameSize"}

\* The time-out is only read for a network input, the frame size only for a camera.
Overrides(name) ==
  {"common"} \cup (CASE name = "CameraInput" -> {"FrameSize"}
                     [] name = "NetInput" -> {"TimeOut"}
                     [] OTHER -> {})

\* A camera or a file is one entry, a network input one for each good connection of its
\* list: each begins as a copy of the base and overrides what is given.
Entries(e) ==
  LET base == [a \in InputBase |-> IF a \in Overrides(e.name)
                                   THEN ParseIfNotExist(configBase[a], e, a) ELSE configBase[a]]
  IN  [k \in 1..(IF e.name = "NetInput" THEN e.count ELSE 1) |->
         [type |-> e.name, own |-> <<e.at, k>>, base |-> base]]

\* Mutant of ParseInput: network inputs are pushed as they come.
ParseInputAtOnce(e) ==
  /\ config' = [config EXCEPT !.mInputList = @ \o Entries(e)]
  /\ UNCHANGED inputUrlList

ParseInput(e) ==
  \/ /\ e.name \in LocalInputs
     /\ config' = [config EXCEPT !.mInputList = @ \o Entries(e)]
     /\ UNCHANGED inputUrlList
  \/ /\ e.name = "NetInput"
     /\ inputUrlList' = inputUrlList \o Entries(e)
     /\ UNCHANGED config

\* The structure is created by the first element of its name; a later one overwrites it,
\* but the lists of users and of paths grow. Telegram overrides the base.
ParseNotifier(e) ==
  /\ e.name # "smtp"
  /\ config' = [config EXCEPT ![e.name] =
       [own |-> Parse(e, "own"),
        alert |-> IF e.name = "Telegram" THEN ParseIfNotExist(baseAlertConfig, e, "alert")
                                         ELSE Unset,
        list |-> IF e.name = "AlertSound" THEN Split(e) ELSE @.list \o Split(e)]]

\* The base of the mail notifier is taken as it is, its list of receivers is replaced.
ParseSMTPConfig(e) ==
  /\ e.name = "smtp"
  /\ config' = [config EXCEPT !.smtp =
       [own |-> Parse(e, "own"), alert |-> baseAlertConfig, list |-> Split(e)]]

\* A command needs a name (one here) and something to do; the last one of a name stays.
ParseCommand(e) ==
  config' = [config EXCEPT !.mCommandMap = IF {"Name", "own"} \subseteq e.has THEN e.at ELSE @]

\* A condition without an expression is left out.
Pushes(e) == e.name = "Condition" => "Expression" \in e.has

ParseListed(e) == config' = [config EXCEPT ![e.name] = IF Pushes(e) THEN @ \o Split(e) ELSE @]

ParseChild(e) ==
  /\ \/ e.name \in Children.Input /\ ParseInput(e)
     \/ e.name \in Notifiers /\ UNCHANGED inputUrlList
        /\ (ParseNotifier(e) \/ ParseSMTPConfig(e))
     \/ e.name = "Command" /\ ParseCommand(e) /\ UNCHANGED inputUrlList
     \/ e.name = "Pattern" /\ ParseListed(e) /\ UNCHANGED inputUrlList
  /\ UNCHANGED <<section, configBase, baseAlertConfig, algoConfig>>

-----------------------------------------------------------------------------
(* Elements at the top. *)

\* Mutant of ParseMove: a base reaches only the detectors nothing was said of yet.
ParseMoveOnce(e) ==
  \/ /\ e.name \in Movers
     /\ algoConfig' = [algoConfig EXCEPT ![e.name] =
          [common |-> ParseIfNotExist(@.common, e, "common"),
           HistoryLength |-> IF e.name \in Subtractors THEN Parse(e, "HistoryLength") ELSE Unset]]
  \/ /\ e.name = "moveDetectBase"
     /\ algoConfig' = [m \in Movers |-> [algoConfig[m] EXCEPT !.common =
                                          IF @ = Unset THEN Parse(e, "common") ELSE @]]

ParseMove(e) ==
  \/ /\ e.name \in Movers
     /\ algoConfig' = [algoConfig EXCEPT ![e.name] =
          [common |-> ParseIfNotExist(@.common, e, "common"),
           HistoryLength |-> IF e.name \in Subtractors THEN Parse(e, "HistoryLength") ELSE Unset]]
  \/ /\ e.name = "moveDetectBase"
     /\ algoConfig' = [m \in Movers |-> [algoConfig[m] EXCEPT !.common = Parse(e, "common")]]

ParseBase(e) ==
  \/ /\ e.name = "BaseInput"
     /\ configBase' = [a \in InputBase |-> Parse(e, a)]
     /\ UNCHANGED baseAlertConfig
  \/ /\ e.name = "BaseAlert"
     /\ baseAlertConfig' = Parse(e, "alert")
     /\ UNCHANGED configBase

\* The lists of cascades of the face detector grow.
ParsePlain(e) ==
  config' = [config EXCEPT ![e.name] = Parse(e, "own"),
                           !.cascades = IF e.name = "faceDetect" THEN @ \o Split(e) ELSE @]

ParseTop(e) ==
  /\ \/ /\ e.name \in Sections
        /\ section' = e.at
        /\ UNCHANGED <<configBase, baseAlertConfig, config, algoConfig>>
     \/ ParseBase(e) /\ UNCHANGED <<section, config, algoConfig>>
     \/ ParseMove(e) /\ UNCHANGED <<section, configBase, baseAlertConfig, config>>
     \/ /\ e.name \in Plain /\ ParsePlain(e)
        /\ UNCHANGED <<section, configBase, baseAlertConfig, algoConfig>>
     \/ /\ e.name \in Listed \ {"Pattern"} /\ ParseListed(e)
        /\ UNCHANGED <<section, configBase, baseAlertConfig, algoConfig>>
  /\ UNCHANGED inputUrlList

-----------------------------------------------------------------------------
(* The reader. *)

Reading == outcome = "reading" /\ ~broken

\* What is read at the top (s = 0) or in the section that starts at s; anything else is
\* ignored.
ReadAt(s) == IF s = 0 THEN Movers \cup Plain \cup (Listed \ {"Pattern"}) \cup Sections
                             \cup {"BaseInput", "BaseAlert", "moveDetectBase"}
                      ELSE Children[document[s].name]

\* A start tag. Sections are not nested in one another.
StartElement(element) ==
  LET e == [name |-> element.name, has |-> element.has, count |-> element.count,
            at |-> Len(document) + 1, section |-> section]
  IN  /\ Reading /\ Len(document) < MaxElements
      /\ section = 0 \/ e.name \notin Sections
      /\ \E V \in Vocabularies : {d.name : d \in Range(document)} \cup {e.name}
                                   \subseteq {v.name : v \in V}
      /\ document' = Append(document, e)
      /\ \/ e.name \in ReadAt(section) /\ section = 0 /\ ParseTop(e)
         \/ e.name \in ReadAt(section) /\ section # 0 /\ ParseChild(e)
         \/ e.name \notin ReadAt(section) /\ UNCHANGED <<section, locals, config, algoConfig>>
      /\ UNCHANGED <<args, outcome, broken>>

\* The end tag of the section: the loop ends, and the network inputs follow.
EndElement ==
  /\ Reading /\ section # 0
  /\ section' = 0
  /\ config' = [config EXCEPT !.mInputList = @ \o inputUrlList]
  /\ inputUrlList' = <<>>
  /\ UNCHANGED <<args, outcome, document, broken, configBase, baseAlertConfig, algoConfig>>

\* The document ends too early or is malformed.
Break ==
  /\ Reading
  /\ broken' = TRUE
  /\ UNCHANGED <<args, outcome, document, section, locals, config, algoConfig>>

\* Mutant of ReadInvalid: the loop of a section does not look for the Invalid token.
ReadInvalidAtTop ==
  /\ outcome = "reading" /\ broken /\ section = 0
  /\ outcome' = "thrown"
  /\ UNCHANGED <<args, reader, locals, config, algoConfig>>

\* The Invalid token: a string is thrown, which nobody catches.
ReadInvalid ==
  /\ outcome = "reading" /\ broken
  /\ outcome' = "thrown"
  /\ UNCHANGED <<args, reader, locals, config, algoConfig>>

-----------------------------------------------------------------------------
(* The options of the command line, applied after the file. *)

ClearSmtp(c) == [c EXCEPT !.smtp.own = Default]
ClearPaths(c) == [c EXCEPT !.FinalVideo.list = <<>>]

\* Mutant of Apply: debug mode implies noSend only after that option was looked at.
ApplyInOrder(c, a) ==
  LET silent == IF "noSend" \in a THEN [ClearSmtp(c) EXCEPT !.Telegram.own = Default] ELSE c
      debug == IF "debugMode" \in a THEN ClearPaths(ClearSmtp(silent)) ELSE silent
  IN  IF "noAlgThread" \in a THEN [debug EXCEPT !.AlgoConfing = Off] ELSE debug

\* Debug mode clears the paths and implies noSend, which clears hosts and token.
Apply(c, a) ==
  LET debug == IF "debugMode" \in a THEN ClearPaths(ClearSmtp(c)) ELSE c
      silent == IF "noSend" \in a \/ "debugMode" \in a
                THEN [ClearSmtp(debug) EXCEPT !.Telegram.own = Default] ELSE debug
  IN  IF "noAlgThread" \in a THEN [silent EXCEPT !.AlgoConfing = Off] ELSE silent

\* The structures that are used without asking whether they exist.
Dereferenced(a) == (IF "debugMode" \in a THEN {"FinalVideo"} ELSE {})
                     \cup (IF "debugMode" \in a \/ "noSend" \in a THEN {"smtp", "Telegram"} ELSE {})

\* The end of the document. The options were parsed before the file; they are chosen
\* here, where they are used first.
EndDocument ==
  /\ Reading /\ section = 0
  /\ args' \in Options
  /\ \/ /\ \E n \in Dereferenced(args') : config[n] = Null
        /\ outcome' = "crashed"
        /\ UNCHANGED config
     \/ /\ \A n \in Dereferenced(args') : config[n] # Null
        /\ outcome' = "parsed"
        /\ config' = Apply(config, args')
  /\ UNCHANGED <<reader, locals, algoConfig>>

\* parseParams: the first path that exists is read; without one the constructors'
\* values stay, and a file that cannot be opened throws.
ParseParams ==
  /\ outcome = "start"
  /\ outcome' \in {"reading", "parsed", "thrown"}
  /\ UNCHANGED <<args, reader, locals, config, algoConfig>>

-----------------------------------------------------------------------------
\* The constructors of CConfig, CAlgoConfig and CCommonAlertConfig.
ReaderInit ==
  /\ args = {}
  /\ outcome = "start"
  /\ document = <<>> /\ section = 0 /\ broken = FALSE
  /\ configBase = [a \in InputBase |-> Unset]
  /\ baseAlertConfig = Unset
  /\ inputUrlList = <<>>
  /\ config = [f \in Fields |-> IF f \in Notifiers THEN Null
                                ELSE IF f \in Plain \cup {"mCommandMap"} THEN Unset ELSE <<>>]
  /\ algoConfig = [m \in Movers |-> [common |-> Unset, HistoryLength |-> Unset]]

ReaderNext ==
  \/ ParseParams
  \/ \E e \in Elements : StartElement(e)
  \/ EndElement
  \/ Break
  \/ ReadInvalid
  \/ EndDocument

\* A document is finite, and the reader goes on as long as there are tokens.
ReaderSpec == ReaderInit /\ [][ReaderNext]_readerVars /\ WF_readerVars(ReaderNext)

-----------------------------------------------------------------------------
(* The meaning of a document, read as a whole. *)

Top(name) == {i \in 1..Len(document) : document[i].name = name /\ document[i].section = 0}
In(name) == {i \in 1..Len(document) :
               LET s == document[i].section
               IN  document[i].name = name /\ s # 0 /\ name \in Children[document[s].name]}
Read(name) == IF \E s \in Sections : name \in Children[s] THEN In(name) ELSE Top(name)
LatestOf(S) == IF S = {} THEN 0 ELSE Max(S)
Gave(i, a) == a \in document[i].has
ValueAt(i, a) == IF i = 0 THEN Unset ELSE IF Gave(i, a) THEN i ELSE Default

\* The value of attribute a in the last element "base" before position i.
Inherited(base, a, i) == ValueAt(LatestOf({j \in Top(base) : j < i}), a)

\* The elements of name n that make entries of a list.
Listing(n) == {i \in Read(n) : n = "Condition" => Gave(i, "Expression")}

\* The entries of the elements at the positions I: the position and a number each.
EntriesOf(I) == UNION {{i} \X (1..document[i].count) : i \in I}
Precedes(x, y) == x[1] < y[1] \/ (x[1] = y[1] /\ x[2] < y[2])

\* A list has the entries of S, each once and in the order of the document.
Lists(list, S) ==
  /\ Range(list) = S
  /\ \A a, b \in DOMAIN list : a < b => Precedes(list[a], list[b])

\* The k-th entry of the input at position i, on the base before its section.
InputAt(i, k) ==
  [type |-> document[i].name, own |-> <<i, k>>,
   base |-> [a \in InputBase |->
               IF a \in document[i].has \cap Overrides(document[i].name) THEN i
               ELSE Inherited("BaseInput", a, document[i].section)]]
InputsOf(I) ==
  UNION {{InputAt(i, k) : k \in 1..(IF document[i].name = "NetInput" THEN document[i].count ELSE 1)}
         : i \in I}

\* The cameras and files, and the network inputs of the sections that have ended.
InputsDone ==
  (UNION {In(n) : n \in LocalInputs}) \cup {i \in In("NetInput") : document[i].section # section}

\* Sections follow one another, and in a section the network inputs come last.
InputPrecedes(x, y) ==
  LET s == document[x.own[1]].section
      t == document[y.own[1]].section
  IN  \/ s < t
      \/ s = t /\ x.type # "NetInput" /\ y.type = "NetInput"
      \/ s = t /\ (x.type = "NetInput" <=> y.type = "NetInput") /\ Precedes(x.own, y.own)

\* The alert of a notifier is that of its last element, or of the base before that
\* element's section.
AlertOf(name) ==
  LET i == LatestOf(Read(name))
      base == Inherited("BaseAlert", "alert", document[i].section)
  IN  IF i = 0 \/ name \notin {"Telegram", "smtp"} THEN Unset
      ELSE IF name = "Telegram" /\ Gave(i, "alert") THEN i ELSE base

\* Users and paths are collected from every element, those of mails and sounds replaced.
NotifierEntries(name) ==
  EntriesOf(IF name \in {"Telegram", "FinalVideo"} THEN Read(name)
            ELSE {LatestOf(Read(name))} \ {0})

\* A detector's own value holds unless a moveDetectBase follows it.
MoverOf(m) ==
  LET base == LatestOf(Top("moveDetectBase"))
      own == LatestOf({i \in Top(m) : Gave(i, "common")})
  IN  [common |-> IF own > base THEN own ELSE ValueAt(base, "common"),
       HistoryLength |-> IF m \in Subtractors THEN ValueAt(LatestOf(Top(m)), "HistoryLength")
                                              ELSE Unset]

ReaderTypeOK ==
  /\ outcome \in {"start", "reading", "parsed", "thrown", "crashed"}
  /\ section \in 0..Len(document)
  /\ broken \in BOOLEAN
  /\ Len(document) <= MaxElements

-----------------------------------------------------------------------------
(* Properties. *)

\* What the reader has appended so far is what the elements mean read as a whole: the
\* inputs section by section with the network inputs last, each on the base before its
\* section, and every list with the entries of all its elements.
ListsMeanDocument ==
  outcome = "reading" =>
    /\ Range(config.mInputList) = InputsOf(InputsDone)
    /\ \A a, b \in DOMAIN config.mInputList :
         a < b => InputPrecedes(config.mInputList[a], config.mInputList[b])
    /\ \A n \in Notifiers : Lists(config[n].list, NotifierEntries(n))
    /\ \A n \in Listed : Lists(config[n], EntriesOf(Listing(n)))

\* An element that is repeated counts as it was written last, on the base that stands
\* before its section, wherever bases and sections are mixed and whatever stands in a
\* place where it is not read; a detector's own value counts unless a base follows it.
LatestElementCounts ==
  /\ ReaderTypeOK
  /\ outcome = "reading" =>
       /\ \A n \in Notifiers : config[n].own = ValueAt(LatestOf(Read(n)), "own")
                              /\ config[n].alert = AlertOf(n)
       /\ \A m \in Movers : algoConfig[m] = MoverOf(m)
       /\ \A n \in Plain : config[n] = ValueAt(LatestOf(Top(n)), "own")

\* "not send emails and telegram": with noSend or debugMode no mail host, no token, and
\* in debug mode no path of videos is left, whatever the document says.
SilentWhenAsked ==
  outcome = "parsed" =>
    /\ {"noSend", "debugMode"} \cap args # {} =>
         config.smtp.own = Default /\ config.Telegram.own = Default
    /\ "debugMode" \in args => config.FinalVideo.list = <<>>

\* Whatever the document is, also one that ends in the middle of a section, the reader
\* comes to an end.
ReadingEnds == <>(outcome \in {"parsed", "thrown", "crashed"})
=============================================================================

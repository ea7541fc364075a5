--------------------------- MODULE MCConfiguration ---------------------------
(* Small instances of Configuration for TLC. *)
EXTENDS Configuration

Element(n, has, count) == [name |-> n, has |-> has, count |-> count]

\* What is read together: inputs; alerts; detectors; commands and lists.
MCVocabularies == {
  { Element("BaseInput", {"common", "TimeOut"}, 0),
    Element("Input", {}, 0),
    Element("CameraInput", {"FrameSize"}, 0),
    Element("FileInput", {"common", "FrameSize"}, 0),
    Element("NetInput", {"TimeOut"}, 2) },
  { Element("BaseAlert", {"alert"}, 0),
    Element("CommonAlert", {}, 0),
    Element("Telegram", {"own", "alert"}, 1),
    Element("smtp", {"own", "alert"}, 1),
    Element("FinalVideo", {}, 1) },
  { Element("moveDetectBase", {"common"}, 0),
    Element("moveDetect", {"common"}, 0),
    Element("movedetectBackgroundSubtractorTest", {"HistoryLength"}, 0),
    Element("movedetectBackgroundSubtractorTestColor", {"common"}, 0) },
  { Element("Commands", {}, 0),
    Element("Command", {"Name", "own"}, 0),
    Element("Patterns", {}, 0),
    Element("Pattern", {}, 2),
    Element("Condition", {"Expression"}, 1),
    Element("Condition", {}, 1),
    Element("faceDetect", {"own"}, 1) } }

MCOptions == {{"noAlgThread"}, {"noSend"}, {"debugMode"}}
==============================================================================

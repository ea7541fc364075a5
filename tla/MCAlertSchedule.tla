--------------------------- MODULE MCAlertSchedule ---------------------------
(* Small instance of AlertSchedule for TLC: a network client, whose algorithm *)
(* thread and text handler share a Telegram and a mail notifier.              *)
EXTENDS AlertSchedule

CONSTANTS algo, text, telegram, mail

TheThreads == {algo, text}
TheTexts == {text}
TheList == [p \in TheThreads |-> <<telegram, mail>>]
TheNotifiers == {telegram, mail}
TheMails == {mail}
=============================================================================

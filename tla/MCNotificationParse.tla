------------------------ MODULE MCNotificationParse ------------------------
(* Texts: sequences cannot be written in a cfg.                            *)
EXTENDS NotificationParse

MCTexts == {<<>>, <<1>>, <<2, 1>>}
MCTwoTexts == {<<>>, <<1, 2>>}
=============================================================================

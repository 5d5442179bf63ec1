---------------------------- MODULE MCLineNotify ----------------------------
(* Calls over one HTTP client: messages as the sketch sends them, or with  *)
(* a sticker and an image among them.                                      *)
EXTENDS LineNotify

MessagesOnly == Call
MessageLast == {3}
ImageFirst == {1, 4}
NoUpload == {}
OneLong == {2}
NoneLong == {}

=============================================================================

--------------------------- MODULE MCMessageStore ---------------------------
EXTENDS MessageStore, TLC

CONSTANTS m1, c1

\* One received message of one chat.
OneChat == (m1 :> c1)
=============================================================================

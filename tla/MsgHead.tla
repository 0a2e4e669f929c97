------------------------------ MODULE MsgHead ------------------------------
(* The head of a message (MsgHead.hpp), in words of 4 bytes: a size_t with  *)
(* the command, an int with the length of the data, and padding.            *)
EXTENDS Naturals

MSG_HEAD_LENGTH == 3   \* sizeof(size_t) + sizeof(int)
HeadSize == 4          \* sizeof(msgHead), with the padding
=============================================================================

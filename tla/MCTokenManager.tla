--------------------------- MODULE MCTokenManager ---------------------------
(***************************************************************************)
(* Small instances of TokenManager: the rows the database may hold and the *)
(* configuration values.                                                   *)
(***************************************************************************)
EXTENDS TokenManager

MCQuota(chat, image, video) ==
    [c \in Category |-> CASE c = Chat -> chat
                          [] c = Image -> image
                          [] c = Video -> video]

Row(status, cool, chat, video, mode) ==
    [status |-> status, cool |-> cool, expired |-> status = "expired",
     quota |-> MCQuota(chat, 0, video), fails |-> 0, mode |-> mode,
     capable |-> TRUE]

\* Chat only, a default quota of one query: every success exhausts the token.
MCDefault == MCQuota(1, 0, 0)
MCBuiltin == MCQuota(1, 1, 1)
MCMax     == MCQuota(1, 0, 0)

ActiveRow    == Row("active", "none", 1, 0, "limited")
UnlimitedRow == Row("active", "none", 0, 0, "unlimited")
StaleRow     == Row("refresh_required", "none", 0, 0, "limited")
ManualRow    == Row("cooling", "running", 1, 0, "manual")
MediaRow     == [Row("active", "none", 0, 1, "limited")
                    EXCEPT !.quota = MCQuota(0, 1, 1)]
IncapableRow == [MediaRow EXCEPT !.capable = FALSE]

ChatRows   == {ActiveRow, StaleRow}
MixedRows  == {UnlimitedRow, ManualRow, MediaRow, IncapableRow}
=============================================================================

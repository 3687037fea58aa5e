SPECIFICATION FairSpec
CONSTANTS
  w1 = w1
  w2 = w2
  d1 = d1
  d2 = d2
  tg = tg
  WFrames = {w1, w2}
  WLen <- MCWLen
  ReadBufSize = 2
  Guests <- MCGuests
  GuestTarget = tg
  MaxGuestCalls = 3
  Nothing = Nothing
  DFrames = {d1, d2}
  MaxReplies = 2
  MaxItems <- MCMaxItems
  MaxSenders = 1
  WindowSize = 2
  SlideSize = 2
  MaxTicks = 1
  Commands = {"run", "dev", "build"}
  Files <- MCFiles
  Args <- MCArgs
INVARIANT GuestSeesItsFrame
INVARIANT RepliesAreAttributed
INVARIANT WindowsMatchReference
PROPERTY BytesPassThrough
 
CHECK_DEADLOCK FALSE

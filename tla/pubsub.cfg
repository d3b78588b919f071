CONSTANTS
  Clients = {"pub", "sub"}
  Channels = {"news"}
  Patterns = {"n*"}
  Matches <- AllMatch
  Requests <- Roles
  Peers <- Behaviours
  MaxBuffer = 2
  MaxMessages = 2
  MaxBatch = 2
SPECIFICATION PubSubSpec
INVARIANTS PubSubTypeOK TablesAgree DeliveredAsConfirmed
 

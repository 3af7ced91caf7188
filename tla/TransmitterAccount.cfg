SPECIFICATION Spec
CONSTANTS
    Asks = {"call", "abort", "beacon", "tune", "stop", "datagram"}
    MaxLink = 2
    MaxPending = 2
    MaxDatagrams = 2
INVARIANTS TypeOK AccountMatches DoneMeansRadiated CardIsTheKeys DatagramsAccounted

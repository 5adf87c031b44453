SPECIFICATION Spec
CONSTANTS
  Polls <- Electorates
  Unit = 10000
  Few = 3
  Many = 5
INVARIANTS SeatsFilled StarFollowsProtocol HeadToHeadRespected CoalitionsSeated QuotasSpent TiesReported

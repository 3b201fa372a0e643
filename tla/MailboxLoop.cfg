SPECIFICATION FairSpec
CONSTANTS
    Room = 2
    CounterRange = 2
    UintMax = 9
    MaxRequests = 3
    MaxCommands = 2
INVARIANTS TypeOK AnsweredOnceInOrder EventsInOrder RepliesHaveRoom
PROPERTIES DispatchOnlyDrains NoSilentStop CallReturns

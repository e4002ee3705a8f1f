SPECIFICATION MtSpec
CONSTANTS
    Senders = {main, client}
    Main = main
    Sreqs = {setAttr, getAttr}
    Areqs = {resetReq}
    MaxReqs = 2
    MaxAreqs = 1
    Blocks <- TwoThreeTwo
    RetryMax = 2
    MaxLosses = 2
    MaxEarly = 2
    Sizes <- SmallSizes
    Excess <- Around
    Ends <- SixMessages
    MaxPauses = 2
    Depth = 3
    MaxBytes = 4
    Asked = {1, 3}
INVARIANTS AnswersAreNotStolen ErrorsNeedTimeouts NothingIsStranded SuccessIsReal SkippedAfterPausesOnly SleepsWithoutData
PROPERTIES CallsReturn ImplementsTransfer EverySendEnds ImplementsPipe
CHECK_DEADLOCK FALSE

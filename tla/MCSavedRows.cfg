SPECIFICATION MCSpec
CONSTANTS
    Total = 4
    Preview = {3, 4}
    MaxWorkers = 2
    Window = 2
INVARIANTS OwnRowsInOrder FetchesAwaitTheirTurn ReadersCatchUp SeriesIsExact
PROPERTIES RowsArrive ChartIsHonest
CHECK_DEADLOCK FALSE

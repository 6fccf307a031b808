SPECIFICATION StatisticsSpec
CONSTANTS
